CONSTANTS
  Tasks = {t1, t2}
  NoTask = NoTask
  CodeSpan = 256
  Devices <- MCDevices
  Requests <- MCRequests
  Replies <- MCReplies
  Skews <- MCSkews
  MaxDelay = 1
  MaxNow = 2
  MaxCalls = 2
SYMMETRY Symmetry
SPECIFICATION Spec
INVARIANT ExchangeTypeOK
INVARIANT HeadersInOrder
INVARIANT AttemptOfOneDevice
 
INVARIANT EdgeIsNoAnswer
INVARIANT OnlyRefusedIsSentAgain
CHECK_DEADLOCK FALSE
