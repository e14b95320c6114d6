SPECIFICATION FairSpec
CONSTANTS
  Event = {idle, ended, paid}
  idle = idle
  ended = ended
  SessionEvent <- OfSession
  Last = ended
  Once <- Idle
  MaxFaults = 1
  None = None
  Relay = {w1, w2}
  Sinks = 2
  Pusher = {p1}
INVARIANTS
  StreamHasNoGap
  RingsTwiceOnlyIfHurt
PROPERTIES
  EventsReachEverySink
  PendingIsAnswered
CHECK_DEADLOCK FALSE
