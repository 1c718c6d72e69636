SPECIFICATION FairSpec
CONSTANTS
  h1 = h1
  h2 = h2
  k1 = k1
  NoJob = NoJob
  Handlers = {h1, h2}
  Entries = {k1}
  Jobs = {k1}
  MaxAttempts = 2
  SlowDelivery = FALSE
  MaxNotify = 1
  MaxOutages = 1
  MaxFaults = 1
PROPERTIES
  EntriesAreSettled
CHECK_DEADLOCK FALSE
