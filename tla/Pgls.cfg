CONSTANTS
  query = query
  users = users
  root = root
  sub = sub
  notes = notes
  main = main
  timer1 = timer1
  handler1 = handler1
  callback1 = callback1
  callback2 = callback2
  NoThread = NoThread
  NoUri = NoUri
  Uris <- OneUri
  SchemaUris = {}
  Handlers <- OneHandler
  Reloaders <- TwoCallbacks
  MaxSends = 2
  Files <- OneFile
  Root = root
  SubDirs = {sub}
  NewDirs = {sub}
  DirOf <- InRoot
  Main = main
  Others = {notes}
  Callbacks <- OneTimer
  EarlyDirs = {}
  MaxQueue = 3
  MaxEdits = 2
SPECIFICATION FairSpec
INVARIANTS NothingLost UpToDateAtRest
PROPERTIES EventuallyShown
CHECK_DEADLOCK FALSE
