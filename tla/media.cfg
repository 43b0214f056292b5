CONSTANTS
  Fetches = {f1, f2}
  Hosts = {h1, h2}
  Devices = {d1, d2}
  None = None
  Deadline = 1
  RearmAfter = 2
  MaxNow = 4
  MaxStarts = 2
  MaxReplaced = 1
  MaxOpened = 2
SYMMETRY Symmetry
SPECIFICATION Spec
INVARIANT MediaTypeOK
INVARIANT ResendLeavesStuckClient
PROPERTY RetiresOnlyPooled
PROPERTY KeepsMovingConnection
PROPERTY RetirementsAreRare
CHECK_DEADLOCK FALSE
