\* The same instance, and what the comments say of finalizers.
SPECIFICATION Spec
CONSTANTS
  main = main
  c1 = c1
  c2 = c2
  Main = main
  Thread <- MCThread
  None = None
  MaxFrames = 7
  MaxCatch = 4
  MaxTry = 1
SYMMETRY Sym
INVARIANT FinalizersRun
