CONSTANTS
  Accounts = {a, b}
  NoAccount = NoAccount
  QueueSize = 1
  MaxChanges = 6
SPECIFICATION FairSpec
INVARIANT WsTypeOK
INVARIANT NoLostWakeup
 
PROPERTY IdleDisconnects
PROPERTY SignedOutDisconnects
CHECK_DEADLOCK FALSE
