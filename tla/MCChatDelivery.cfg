SPECIFICATION FairSpec
CONSTANTS
  ann = ann
  ben = ben
  hello = hello
  notice = notice
  uuid = uuid
  c1 = c1
  worker = worker
  Admin = Admin
  NoLetter = NoLetter
  NoKey = NoKey
  NoEntry = NoEntry
  Members = {ann, ben}
  Letters = {hello, notice}
  Calls = {c1}
  Sender <- MCSender
  Receiver <- MCReceiver
  Key <- MCKey
  MaxSends = 2
  MaxChanges = 1
  MaxFaults = 1
  Processors = {worker}
  RunLength = 1
  MaxAttempts = 1
  SlowDelivery = FALSE
  MaxBreaks = 1
INVARIANTS
  RetriesNotifyOnce
PROPERTIES
  MessagesAreNotified
CHECK_DEADLOCK FALSE
