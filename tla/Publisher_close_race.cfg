CONSTANTS
  users = users
  orders = orders
  handler1 = handler1
  handler2 = handler2
  callback1 = callback1
  callback2 = callback2
  NoThread = NoThread
  NoUri = NoUri
  Uris <- OneUri
  SchemaUris = {}
  Handlers <- OneHandler
  Reloaders <- OneCallback
  MaxSends = 3
  MaxReloads = 1
SPECIFICATION Spec
INVARIANTS ClosedIsClear
CHECK_DEADLOCK FALSE
