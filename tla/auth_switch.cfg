CONSTANTS
  Tasks = {t1, t2}
  Accounts = {a, b}
  NoTask = NoTask
  NoAccount = NoAccount
  MaxOps = 3
  MaxMints = 2
SYMMETRY Symmetry
SPECIFICATION Spec
PROPERTY OnlySignInSwitches
CHECK_DEADLOCK FALSE
