CONSTANTS
  Members = {m1}
  Checkouts = {1, 2}
  Setups <- MCSetups
  MaxChanges = 1
  MaxRequests = 2
  MaxFaults = 1
SPECIFICATION Spec
CHECK_DEADLOCK FALSE
INVARIANTS
  RegisteredOnce
  RoomIsChosen
PROPERTIES
  RefusedOnlyIfChanged
  PaidAreRegistered
