CONSTANTS
  o1 = o1
  o2 = o2
  g1 = g1
  i1 = i1
  w1 = w1
  p1 = p1
  p2 = p2
  acc = acc
  ua = ua
  ub = ub
  uc = uc
  NoSend = NoSend
  SelfOrders = {o1}
  GiftOrders = {}
  InternalOrders = {}
  OtherPres = {w1}
  Pays = {p1, p2}
  AccountOf <- MCAccountOf
  AddressOf <- MCAddressOf
  OrderOf <- MCBothPay
  MaxSend = 2
  Faults = {"crash", "error", "lost", "unrecorded", "late", "closing", "rejectApply", "rejectPre", "recycle"}
SPECIFICATION Spec
INVARIANTS TypeOK ServedNotRefunded NoLimbo OneRegistered
PROPERTY PromiseKept
\* An order that is settled, or stuck for want of an operator, ends a behaviour.
CHECK_DEADLOCK FALSE
