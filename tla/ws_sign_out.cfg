CONSTANTS
  Accounts = {a, b}
  NoAccount = NoAccount
  QueueSize = 1
  MaxChanges = 4
SPECIFICATION FairSpec
CHECK_DEADLOCK FALSE
PROPERTY SignOutClosesSocket
