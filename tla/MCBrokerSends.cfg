SPECIFICATION Spec
CONSTANTS
  Codes = {c1, c2}
  Limits = {1, 2}
  EventCapacity = 2
  MaxSends = 2
  MaxWaiting = 1
CHECK_DEADLOCK FALSE
INVARIANTS SendsAreTracked SendsAreTrue
PROPERTY SendsSettleOnce
