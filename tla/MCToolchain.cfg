\* The dumper, the assembler and the loader on one disk.
SPECIFICATION ToolSpec
CONSTANTS
  f = f
  g = g
  c = c
  x = x
  y = y
  NoFile = NoFile
  Names <- MCNames
  Contents <- MCContents
  Empty <- Nothing
  Texts <- MCTexts
  Numbers <- MCNumbers
  IndexBits = 8
  Commands <- MCCommands
  Programs <- MCPrograms
  Compile <- MCCompile
  DumpFunction <- MCDump
  LoadFunction <- MCLoad
  Seen <- MCSeen
  Errands <- MCErrands
INVARIANTS
  InputAsAsked
  FailureExplained
  
PROPERTIES
  DiskTouchedLast
CHECK_DEADLOCK FALSE
