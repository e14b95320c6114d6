SPECIFICATION FairSpec
CONSTANTS
  None = None
  Day = 4
  Hour = 1
  KWh = 1
  Unbounded = 99
  Plans <- BothPlans
  Frozen <- TiersOrNone
  Start = 1
  MaxTime = 4
  LastStop = 3
  MaxWh = 2
  MaxReadings = 2
  MaxDelay = 1
  MaxStatus = 1
  Reasons = {"Local", "EVDisconnected"}
  IdleTimeout = 1
  SettleDelay = 0
INVARIANTS
  EnergyAddsUp
  IdleIsIdle
  TotalIsBounded
  FinalIsCurrent
PROPERTIES
  RunningNeverFalls
  EndedIsPriced
CHECK_DEADLOCK FALSE
