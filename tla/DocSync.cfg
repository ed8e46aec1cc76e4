CONSTANTS
  Inserts <- SmallInserts
  MaxRunes = 3
  MaxEdits = 2
SPECIFICATION Spec
INVARIANTS Mirror
CHECK_DEADLOCK FALSE
