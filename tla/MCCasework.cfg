SPECIFICATION Spec
CONSTANTS
  Members = {m1, m2}
  Sends = {s1, s2}
  MaxChanges = 1
  MaxFaults = 1
INVARIANTS
  SentAreCounted
CHECK_DEADLOCK FALSE
