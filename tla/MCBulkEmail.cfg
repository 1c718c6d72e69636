SPECIFICATION MailFairSpec
CONSTANTS
  NoJob = NoJob
  Handlers = {h1, h2, h3}
  Logs = {k1}
  Jobs = {k1}
  MaxTries = 3
  MaxOutages = 2
  MaxFaults = 1
INVARIANTS
  SentOnce
PROPERTIES
  LogsAreSettled
CHECK_DEADLOCK FALSE
