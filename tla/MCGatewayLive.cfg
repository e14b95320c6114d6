SPECIFICATION FairSpec
CONSTANTS
  Pod = {g1}
  MaxSocket = 2
  MaxFaults = 0
  None = None
  Command = {c1}
  QueueMax = 1
  MayAbort = TRUE
INVARIANTS
  QueueIsCounted
PROPERTIES
  StaleEntryExpires
  DisconnectIsRecorded
  CommandIsResolved
CHECK_DEADLOCK FALSE
