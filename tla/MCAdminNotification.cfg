SPECIFICATION FairSpec
CONSTANTS
  ann = ann
  ben = ben
  s1 = s1
  s2 = s2
  n1 = n1
  NoNotice = NoNotice
  Notices = {n1}
  Members = {ann}
  Senders = {s1, s2}
  MaxRounds = 2
  MaxChanges = 1
  MaxFaults = 1
  MaxStops = 1
INVARIANTS
  OneSender
  RecordsAgree
PROPERTIES
  ScheduledAreSent
CHECK_DEADLOCK FALSE
