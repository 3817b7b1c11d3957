SPECIFICATION Spec
CONSTANTS
  Thread = {main, t1, t2, t3}
  Main = main
  NULL = NULL
  Sem = {s}
  Lock = {l}
  Cond = {c}
  InitialValue <- Zero
  MaxValue = 2
  Device = {s}
  Conventional = TRUE
SYMMETRY Symmetry
INVARIANTS SleepersQueued MutualExclusion NoLostV NoLostRelease HaltsOnlyWhenStuck
PROPERTIES ImplementsThreads ImplementsMonitor
