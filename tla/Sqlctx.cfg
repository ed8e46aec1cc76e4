CONSTANTS
  Columns <- SmallSchema
  Names = {"users", "orders", "nope", "c"}
  Aliases = {"a", "b"}
  WithNames = {"c"}
  Commas = {TRUE, FALSE}
  FlatNames = {"users", "nope"}
  Schemas = {"", "public"}
  MaxStatements = 2
SPECIFICATION MCSpec
INVARIANTS Sound Complete DefinitionRight OneMeaning LinksRight ClauseRight OffersInScope AliasResolved
CHECK_DEADLOCK FALSE
