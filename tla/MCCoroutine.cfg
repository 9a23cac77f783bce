\* The heap thread, two coroutines, seven activations altogether, four catchpoints.
SPECIFICATION Spec
CONSTANTS
  main = main
  c1 = c1
  c2 = c2
  Main = main
  Thread <- MCThread
  None = None
  MaxFrames = 7
  MaxCatch = 4
  MaxTry = 1
SYMMETRY Sym
INVARIANTS
  TypeOK
  ResumersWait
  YieldsLeaveNoC
PROPERTIES
  HandlersNotPassed
  ImplementsChain
