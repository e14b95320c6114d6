SPECIFICATION Spec
CONSTANTS
  Session = {s1, s2, s3, s4}
  d1 = d1
  Driver = {d1}
  DriverOf <- SameDriver
  Courtesy = {s3}
  Minor = {s4}
  Payment = {p1, p2}
  Link = {}
  Reversal = {r1, r2}
  Retries = 0
  BlockOnDebt = TRUE
  None = None
  MayFail = FALSE
  MayOvertake = FALSE
  WaiveDuringCharge = FALSE
  ForceUnblock = FALSE
SYMMETRY BillingSymmetry
INVARIANTS
  BlockedWhileOwing
  CapturedOnce
PROPERTIES
  LedgerSpec
