SPECIFICATION Spec
CONSTANTS
  general = general
  v2 = v2
  v3 = v3
  p1 = p1
  p2 = p2
  None = None
  Tariff = {general}
  Version = {v1, v2, v3}
  TariffOf <- OneTariff
  Base = {v1}
  Publisher = {p1, p2}
  Retirement = {r1}
  MaxTime = 1
  Never = 9
  Assignment = {a1}
  BaseAssignment = {}
  Assigned <- Everywhere
  Segment = {"PUBLIC", "INTERNAL"}
  Session = {s1}
  QuoteValidity = 0
SYMMETRY CallSymmetry
INVARIANTS
  OneInForce
PROPERTIES
  PublishingKeepsPrices
  PriceIsShownOrCurrent
CHECK_DEADLOCK FALSE
