SPECIFICATION FairSpec
CONSTANTS
  g1 = g1
  Others = {g2, g3}
  Goroutine <- MCGoroutine
  Id = {i1, i2}
  Global = Global
  Nobody = Nobody
  MaxCalls <- MCCalls
INVARIANT TypeOK
INVARIANT FunctionSeesCurrent
INVARIANT NoDeadlock
PROPERTY ImplementsAtomicStore
PROPERTY OperationsEnd
\* The goroutines may start no further operation.
CHECK_DEADLOCK FALSE
