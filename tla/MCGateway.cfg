SPECIFICATION Spec
CONSTANTS
  Pod = {g1, g2}
  MaxSocket = 2
  MaxFaults = 1
  None = None
  Command = {c1}
  QueueMax = 1
  MayAbort = FALSE
SYMMETRY GatewaySymmetry
INVARIANTS
  ConnectedIsFenced
  VerdictIsReal
  RepeatChangesConnection
CHECK_DEADLOCK FALSE
