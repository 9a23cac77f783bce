SPECIFICATION Spec
CONSTANTS
  NumSize = 3
  Base = 4
  Inputs <- MCInputs
  Texts <- MCTexts
INVARIANTS
  ReadsInside
  RoundTrip
  Canonical
CHECK_DEADLOCK FALSE
