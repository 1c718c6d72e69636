SPECIFICATION FairSpec
CONSTANTS
  p1 = p1
  p2 = p2
  ada = ada
  NoPayment = NoPayment
  Members = {ada}
  Payments = {p1, p2}
  Calls = {1, 2}
  Plans <- MCPlans
  MaxFaults = 1
INVARIANTS
  RecordedOnce
  CoveredAreSubscribed
  SubscribedHavePaid
PROPERTIES
  ChargedIsRecorded
CHECK_DEADLOCK FALSE
