SPECIFICATION FairSpec
CONSTANTS
  l1 = l1
  l2 = l2
  l3 = l3
  None = None
  Library = {l1, l2}
  First = l1
  Hash <- MCHash
  Hazards = {"failure", "switch", "add", "delete", "restart", "expiry"}
  MaxEdits = 2
  MaxRemote = 1
  MaxFaults = 1
INVARIANTS
  TypeOK
  NoOverlap
PROPERTIES
  QueueServedWhileKept
  ChangesTravel
CHECK_DEADLOCK FALSE
