\* Every text of up to two characters, upper-case digits included.
SPECIFICATION Spec
CONSTANTS
  MaxLen = 2
  Strings <- AllTexts
PROPERTY ImplementsHexSpec
CHECK_DEADLOCK FALSE
