SPECIFICATION FairSpec
CONSTANTS
  Session = {s1, s2}
  Transaction = {t1}
  c1 = c1
  c2 = c2
  e1 = e1
  d1 = d1
  user = user
  sweep = sweep
  Connector = {c1, c2}
  Evse = {e1}
  EvseOf <- SharedEvse
  Card = {}
  DriverOf <- SameDriver
  Requester = {user, sweep}
  None = None
  StopCall = {k1, k2}
  SweepCall = {k2}
  RequesterOf <- Requesters
  CancelDuringStart = FALSE
  ApiMayCrash = FALSE
  FirstConnector = c1
INVARIANTS
  ReservationIsHeld
PROPERTIES
  LifecycleSpec
  StartIsResolved
  LostChargerEndsSessions
