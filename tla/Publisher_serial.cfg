CONSTANTS
  users = users
  orders = orders
  handler1 = handler1
  handler2 = handler2
  callback1 = callback1
  callback2 = callback2
  NoThread = NoThread
  NoUri = NoUri
  Uris <- TwoUris
  SchemaUris = {orders}
  Handlers <- OneHandler
  Reloaders <- TwoCallbacks
  MaxSends = 4
  MaxReloads = 2
SPECIFICATION Spec
INVARIANTS TypeOK IInv NoLostUpdate
PROPERTIES StaleNeverOverwrites ImplementsDiagnostics
SYMMETRY Symmetry
CHECK_DEADLOCK FALSE
