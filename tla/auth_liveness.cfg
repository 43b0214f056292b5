CONSTANTS
  Tasks = {t1, t2}
  Accounts = {a}
  NoTask = NoTask
  NoAccount = NoAccount
  MaxOps = 2
  MaxMints = 2
SPECIFICATION FairSpec
PROPERTY EveryCallReturns
CHECK_DEADLOCK FALSE
