CONSTANTS
  Funcs <- DefaultFuncs
  MaxText = 4
  MaxLines = 3
SPECIFICATION MCSpec
INVARIANTS RoundTrip MeansLSP Monotone  ShownWhereFound NothingOutside
CHECK_DEADLOCK FALSE
