SPECIFICATION FairThreadsSpec
CONSTANTS
  Thread = {main, t1, t2, t3}
  Main = main
  NULL = NULL
INVARIANT ReadyListExact
PROPERTIES DeletesOnlyCarcasses ReadyRuns
