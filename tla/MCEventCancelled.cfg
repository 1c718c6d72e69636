CONSTANTS
  Members = {m1, m2}
  Checkouts = {1, 2}
  Setups <- MCSetups
  MaxRequests = 1
  MaxChanges = 0
  MaxFaults = 0
SPECIFICATION Spec
CHECK_DEADLOCK FALSE
INVARIANT
  CancelledIsTrue
