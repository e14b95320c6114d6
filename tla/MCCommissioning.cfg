SPECIFICATION FairSpec
CONSTANTS
  None = None
  Boot = {b1}
  Bound <- Few
  Factory <- AsBought
  Op = {o1}
  slow = slow
  low = low
  high = high
  Key = {slow}
  SlowKey = {slow}
  Optional = {}
  ReadOnly = {}
  WriteOnly = {}
  Value = {low, high}
  Template <- AskForHigh
INVARIANTS
  ApprovedOnly
PROPERTIES
  ConfiguredWasReported
  OfflineAlarmFollows
CHECK_DEADLOCK FALSE
