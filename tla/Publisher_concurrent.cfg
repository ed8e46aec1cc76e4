CONSTANTS
  users = users
  orders = orders
  handler1 = handler1
  handler2 = handler2
  callback1 = callback1
  callback2 = callback2
  NoThread = NoThread
  NoUri = NoUri
  Uris <- OneUri
  SchemaUris = {}
  Handlers <- TwoHandlers
  Reloaders <- OneCallback
  MaxSends = 4
  MaxReloads = 2
SPECIFICATION Spec
INVARIANTS NoLostUpdate
PROPERTIES StaleNeverOverwrites
SYMMETRY Symmetry
CHECK_DEADLOCK FALSE
