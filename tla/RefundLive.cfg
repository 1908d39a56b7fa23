CONSTANTS
  r1 = r1
  d1 = d1
  p1 = p1
  p2 = p2
  RegOrders = {r1}
  DidOrders = {}
  UniPayOrders = {r1}
  Pays = {p1, p2}
  OrderOf <- MCOneOrder
  Disputable = {p1}
  Faults = {"crash", "error"}
SPECIFICATION LiveSpec
PROPERTIES ConfirmedAtLast ReturnedAtLast
