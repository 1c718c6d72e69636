SPECIFICATION Spec
CONSTANTS
  ann = ann
  ben = ben
  p1 = p1
  p2 = p2
  t1 = t1
  t2 = t2
  c1 = c1
  c2 = c2
  None = None
  Users = {ann, ben}
  Phones = {p1}
  Tokens = {t1, t2}
  Calls = {c1, c2}
  MaxFaults = 0
INVARIANTS
  NoIndexConflict
CHECK_DEADLOCK FALSE
