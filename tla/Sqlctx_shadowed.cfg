CONSTANTS
  Columns <- SmallSchema
  Names = {"users", "orders"}
  Aliases = {"a"}
  WithNames = {}
  Commas = {FALSE}
  FlatNames = {}
  Schemas = {}
  MaxStatements = 1
SPECIFICATION MCSpec
INVARIANTS NeverFalsePositive
CHECK_DEADLOCK FALSE
