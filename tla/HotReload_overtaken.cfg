CONSTANTS
  users = users
  orders = orders
  root = root
  sub = sub
  notes = notes
  main = main
  callback1 = callback1
  callback2 = callback2
  Files <- TwoFiles
  Root = root
  SubDirs = {sub}
  NewDirs = {}
  DirOf <- Flat
  Main = main
  Others = {}
  Callbacks <- TwoCallbacks
  EarlyDirs = {}
  MaxQueue = 2
  MaxEdits = 3
SPECIFICATION Spec
INVARIANTS LoadedAtRest
CHECK_DEADLOCK FALSE
