CONSTANTS
  r1 = r1
  d1 = d1
  p1 = p1
  p2 = p2
  RegOrders = {r1}
  DidOrders = {d1}
  UniPayOrders = {d1}
  Pays = {p1, p2}
  OrderOf <- MCBothKinds
  Disputable = {p1, p2}
  Faults = {"crash", "error", "age"}
SPECIFICATION Spec
INVARIANTS TypeOK RefundedIsReturned OnlyLostAsked
PROPERTIES NotAskedAgain DisputeIsFinal
