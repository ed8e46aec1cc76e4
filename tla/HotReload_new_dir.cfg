CONSTANTS
  users = users
  orders = orders
  root = root
  sub = sub
  notes = notes
  main = main
  callback1 = callback1
  callback2 = callback2
  Files <- TwoFiles
  Root = root
  SubDirs = {sub}
  NewDirs = {sub}
  DirOf <- Nested
  Main = main
  Others = {}
  Callbacks <- OneCallback
  EarlyDirs = {sub}
  MaxQueue = 2
  MaxEdits = 2
SPECIFICATION Spec
INVARIANTS LoadedAtRest
CHECK_DEADLOCK FALSE
