CONSTANTS
  users = users
  orders = orders
  root = root
  sub = sub
  notes = notes
  main = main
  callback1 = callback1
  callback2 = callback2
  Files <- TwoFiles
  Root = root
  SubDirs = {sub}
  NewDirs = {sub}
  DirOf <- Nested
  Main = main
  Others = {notes}
  Callbacks <- OneCallback
  EarlyDirs = {}
  MaxQueue = 3
  MaxEdits = 4
SPECIFICATION FairSpec
INVARIANTS TypeOK NoLostReload IInv
PROPERTIES EventuallyLoaded
CHECK_DEADLOCK FALSE
