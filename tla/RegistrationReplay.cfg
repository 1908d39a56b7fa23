CONSTANTS
  o1 = o1
  o2 = o2
  g1 = g1
  i1 = i1
  w1 = w1
  p1 = p1
  p2 = p2
  acc = acc
  ua = ua
  ub = ub
  uc = uc
  NoSend = NoSend
  SelfOrders = {o1, o2}
  GiftOrders = {}
  InternalOrders = {}
  OtherPres = {w1}
  Pays = {p1}
  AccountOf <- MCAccountOf
  AddressOf <- MCAddressOf
  OrderOf <- MCOnePay
  MaxSend = 2
  Faults = {"crash", "error", "replay", "unrecorded", "closing", "rejectApply", "rejectPre", "recycle", "age"}
SPECIFICATION Spec
INVARIANTS OneRegistered ParserNeverHalts PreHasApply
PROPERTY RegMonotone
\* An order that is settled, or stuck for want of an operator, ends a behaviour.
CHECK_DEADLOCK FALSE
