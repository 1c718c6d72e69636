SPECIFICATION Spec
CONSTANTS
  Services = {"sessions", "accounts", "standing", "billing", "reminders", "volunteering", "chat", "outbox", "push", "emails", "lifetime", "discussion", "casework", "listings", "content", "invoices", "backups", "inbox"}
  A = {a1, a2}
  B = {b1, b2}
  ann = ann
  ben = ben
  admin = admin
  none = none
  hello = hello
  reply = reply
  question = question
  uuid = uuid
  phone = phone
  c1 = c1
  c2 = c2
  web = web
  worker = worker
  r1 = r1
  r2 = r2
  MaxSessions = 1
  MaxRevocations = 1
  MaxSeconds = 1
  MaxExchanges = 2
  MaxCodes = 1
  MaxRemovals = 1
  MaxRequests = 1
  MaxCompletions = 2
  Months = 5
  MonthStart <- MCMonthStart
  Shortest = 2
  Longest = 3
  CycleMonths = 1
  Soon = 1
  ReminderDays = 1
  MaxRenewals = 2
  MaxEdits = 1
  MaxRuns = 2
  Limit = 2
  MaxReminders = 1
  Processes = {web, worker}
  Workers = {worker}
  Leads <- MCLeads
  MaxDay = 1
  MaxForced = 1
  MaxVolunteers = 2
  MaxCalls = 5
  Members = {ann, ben}
  Letters = {hello, reply, question}
  Sender <- MCSender
  Receiver <- MCReceiver
  Key <- MCKey
  MaxSends = 3
  MaxStandings = 2
  RunLength = 1
  MaxAttempts = 2
  SlowDelivery = TRUE
  MaxBreaks = 1
  Devices = {phone}
  Calls = {c1, c2}
  Rows = {r1, r2}
  Sheets <- MCSheets
  Names = {"ada", "ben"}
  Phones = {"p1"}
  MaxRequested = 4
  Totals = {1, 2}
  Amounts = {0, 1}
  PageSize = 1
  Keep = 1
  MaxBackups = 3
  MaxLists = 1
  Keys = {note}
  note = note
  MaxMade = 2
  MaxTouches = 2
  MaxChanges = 1
  MaxFaults = 1
INVARIANTS
  TypeOK
  RevokedStaysRevoked
  MembershipIdsUnique
  PromotedOnce
  RenewalsAdvance
  RemindedOnce
  TakingPartIsTrue
  ChatsAgree
  PushesArrive
  ImportsAreNews
  PagesAreWhole
  CountsAreTrue
  NewestAreKept
PROPERTIES
  OutboxImplementsLedger
  ReadStaysRead
SYMMETRY Symmetry
CHECK_DEADLOCK FALSE
