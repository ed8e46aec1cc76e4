CONSTANTS
  Spelling <- SpellingOf
  Defaults <- DefaultFunctions
  NameOrder <- LexicalOrder
  SqlNames = {"a.sql", "x.sql", "z.SQL"}
  Requests <- AllRequests
  Contents <- SomeContents
  FirstDisk <- FilesAtStart
  Dirs <- ExistingDirs
  NewDirs <- LateDirs
  Cwd <- StartedIn
  MaxEdits = 2
SPECIFICATION Spec
INVARIANTS TypeOK FileStaysInside EditorCannotOverride Current OnlySchemaFilesExempt DetectionAsAsked
PROPERTIES NoTableLost
CHECK_DEADLOCK FALSE
