SPECIFICATION Spec
CONSTANTS
  x = x
  mark = mark
  LineBufSize = 2
  Chars <- MCChars
  BytecodeMark = mark
  Inputs <- MCInputs
INVARIANTS
  TypeOK LinesLeaveNoTrace LinesAreTheInput FailuresTaint DumpsExplained
CHECK_DEADLOCK FALSE
