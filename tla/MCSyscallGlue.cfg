SPECIFICATION Spec
CONSTANTS
  IntHalf = 8
  SizeHalf = 64
  GroupFlag = 32
  HashSize = 2
  Values <- MCValues
  Calls <- MCCalls
  Hosts <- MCHosts
INVARIANTS
  FrameBalanced
  AnswersTruly
  AsksWhatWasSaid
  WritesInBounds
