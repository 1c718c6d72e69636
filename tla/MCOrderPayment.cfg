SPECIFICATION FairSpec
CONSTANTS
  o1 = o1
  o2 = o2
  o3 = o3
  shirt = shirt
  book = book
  r1 = r1
  r2 = r2
  NoOrder = NoOrder
  Orders = {o1, o2, o3}
  Products = {shirt, book}
  Requests = {r1, r2}
  Cart <- MCCart
  Channel <- MCChannel
  InitialStock <- MCInitialStock
  EditLevels = {0}
  MaxEdits = 1
  MaxFaults = 1
INVARIANTS
  TypeOK
  StockConserved
  NoOversell
  PaidOrdersHoldTheirStock
  OrphanedClaimNeedsFault
PROPERTIES
  ImplementsReservation
  ClaimIsResolved
CHECK_DEADLOCK FALSE
