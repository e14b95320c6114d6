SPECIFICATION FairSpec
CONSTANTS
  Session = {s1}
  d1 = d1
  Driver = {d1}
  DriverOf <- SameDriver
  Courtesy = {}
  Minor = {}
  Payment = {p1, p2}
  Link = {l1, l2}
  Reversal = {}
  Retries = 1
  BlockOnDebt = TRUE
  None = None
  MayFail = TRUE
  MayOvertake = TRUE
  WaiveDuringCharge = TRUE
  ForceUnblock = TRUE
INVARIANTS
  PaidIsEarned
  BooksAgree
PROPERTIES
  PaidIsFinal
  VerdictIsFinal
  AuthorizedIsResolved
  SettledIsCharged
