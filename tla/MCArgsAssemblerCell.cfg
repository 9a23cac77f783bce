SPECIFICATION Spec
CONSTANTS
  f = f
  g = g
  c = c
  NoFile = NoFile
  Names <- MCNames
  Contents <- MCContents
  Empty <- Nothing
  Texts <- MCTexts
  Numbers <- MCNumbers
  IndexBits = 8
  Commands <- MCCommands
INVARIANT CellIsNamed
CHECK_DEADLOCK FALSE
