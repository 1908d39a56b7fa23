CONSTANTS
  r1 = r1
  i1 = i1
  d1 = d1
  t1 = t1
  g1 = g1
  a1 = a1
  a2 = a2
  p1 = p1
  p2 = p2
  p3 = p3
  RenewOrders = {r1}
  InternalOrders = {}
  DidRenewals = {}
  DidTransfers = {t1}
  RegisterOrders = {g1}
  Accounts = {a1, a2}
  AccountOf <- MCAccountOf
  Pays = {p1, p2, p3}
  OrderOf <- MCRenewTransferRegister
  Limit = 20
  MaxSend = 2
  MaxCell = 1
  Faults = {"crash", "error", "undone", "unrecorded", "reject", "replay", "other", "cross", "unsigned"}
SPECIFICATION Spec
INVARIANTS TypeOK ServedOnce ServedNotRefunded HedgedIsServed HandledIsComplete
PROPERTY ClosedNotSent
CHECK_DEADLOCK FALSE
