CONSTANTS
  Tasks = {t1, t2}
  Accounts = {a, b}
  NoTask = NoTask
  NoAccount = NoAccount
  MaxCalls = 3
SPECIFICATION Spec
PROPERTY RotationLasts
CHECK_DEADLOCK FALSE
