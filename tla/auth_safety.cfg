CONSTANTS
  Tasks = {t1, t2}
  Accounts = {a, b}
  NoTask = NoTask
  NoAccount = NoAccount
  MaxOps = 4
  MaxMints = 2
SYMMETRY Symmetry
SPECIFICATION Spec
INVARIANT TypeOK
INVARIANT OneRefreshAtATime
INVARIANT NoResurrection
INVARIANT OneFailurePerCooldown
PROPERTY RetryKeepsAccount
PROPERTY RefusedUntilNewSession
PROPERTY ImplementsStore
CHECK_DEADLOCK FALSE
