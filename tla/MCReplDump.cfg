SPECIFICATION Spec
CONSTANTS
  x = x
  mark = mark
  LineBufSize = 2
  Chars <- MCChars
  BytecodeMark = mark
  Inputs <- MCInputs
INVARIANT DumpIsOptional
CHECK_DEADLOCK FALSE
