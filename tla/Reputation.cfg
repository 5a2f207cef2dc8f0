SPECIFICATION FairSpec
CONSTANTS
  g1 = g1
  g2 = g2
  Goroutine = {g1, g2}
  Nobody = Nobody
  Peer = {me, a, b}
  Self = me
  None = None
  MaxCalls <- MCCalls
INVARIANT TypeOK
INVARIANT NothingLost
INVARIANT JudgedByCurrent
INVARIANT OnlyWorseRefused
INVARIANT CrashNeedsNewcomer
INVARIANT DeadlockIsHung
PROPERTY CallsEnd
\* Every goroutine may have made its calls, or hang.
CHECK_DEADLOCK FALSE
