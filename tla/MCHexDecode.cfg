\* Every text of up to four characters, upper-case digits included.
SPECIFICATION Spec
CONSTANTS
  MaxLen = 4
  Strings <- AllTexts
INVARIANTS ReadsInBounds UnreadIntact AnswerJustified
PROPERTY ImplementsWithoutUpperCase
CHECK_DEADLOCK FALSE
