CONSTANTS
  r1 = r1
  i1 = i1
  d1 = d1
  t1 = t1
  g1 = g1
  a1 = a1
  a2 = a2
  p1 = p1
  p2 = p2
  p3 = p3
  RenewOrders = {r1}
  InternalOrders = {}
  DidRenewals = {d1}
  DidTransfers = {}
  RegisterOrders = {}
  Accounts = {a1}
  AccountOf <- MCAccountOf
  Pays = {p1, p2}
  OrderOf <- MCRenewDid
  Limit = 20
  MaxSend = 2
  MaxCell = 1
  Faults = {"error", "lost", "other", "cross"}
SPECIFICATION LiveSpec
PROPERTY PaidIsServed
CHECK_DEADLOCK FALSE
