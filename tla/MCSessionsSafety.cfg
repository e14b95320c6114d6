SPECIFICATION Spec
CONSTANTS
  Session = {s1, s2, s3}
  Transaction = {t1, t2}
  c1 = c1
  c2 = c2
  e1 = e1
  d1 = d1
  user = user
  sweep = sweep
  Connector = {c1}
  Evse = {e1}
  EvseOf <- OneEach
  Card = {card}
  DriverOf <- NoDriver
  Requester = {user, sweep}
  None = None
  StopCall = {k1}
  SweepCall = {}
  RequesterOf <- Requesters
  CancelDuringStart = TRUE
  ApiMayCrash = TRUE
  FirstConnector = c1
SYMMETRY RowSymmetry
INVARIANTS
  OneLiveSessionPerEvse
  RowsMatch
PROPERTIES
  OnlyCancellationIsOverwritten
  ClosedTransactionIsFinal
