CONSTANTS
  Tasks = {t1, t2}
  Accounts = {a, b}
  NoTask = NoTask
  NoAccount = NoAccount
  MaxCalls = 5
SPECIFICATION FairSpec
INVARIANT KeyTypeOK
INVARIANT KeysDieWithSessionAndDevice
INVARIANT RegistersOnlyWhenMissing
PROPERTY KeyCallsReturn
CHECK_DEADLOCK FALSE
