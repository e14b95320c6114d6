SPECIFICATION Spec
CONSTANTS
  Session = {s1, s2}
  Transaction = {t1}
  c1 = c1
  c2 = c2
  e1 = e1
  d1 = d1
  user = user
  sweep = sweep
  Connector = {c1}
  Evse = {e1}
  EvseOf <- OneEach
  Card = {card}
  DriverOf <- NoDriver
  Requester = {user, sweep}
  None = None
  StopCall = {}
  SweepCall = {}
  RequesterOf <- Requesters
  CancelDuringStart = FALSE
  ApiMayCrash = FALSE
  FirstConnector = c1
INVARIANTS
  StartIsAlwaysAccepted
