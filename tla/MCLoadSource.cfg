\* Every way an input arrives, every kind of code, all four programs.
SPECIFICATION Spec
CONSTANTS
  a = a
  b = b
  BufferSize = 2
  Codes <- MCCodes
  Items <- MCItems
  Worlds <- MCWorlds
INVARIANTS
  TypeOK
  AcceptMeansEvaluated
  OnlyAskedRuns
  RunsWithArguments
  ErrorsExplained
  CrashesExplained
  LeavesNothing
PROPERTIES
  Terminates
  ImplementsVerdict
CHECK_DEADLOCK FALSE
