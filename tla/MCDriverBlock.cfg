SPECIFICATION Spec
CONSTANTS
  Call = {k1, k2}
  PayCall = {k1, k2}
INVARIANTS
  BlockIsLifted
CHECK_DEADLOCK FALSE
