CONSTANTS
  r1 = r1
  r2 = r2
  ua = ua
  ub = ub
  c1 = c1
  Requests = {r1, r2}
  Users = {ua, ub}
  Coins = {c1}
  OwnerOf <- MCOwnerOf
  Grace = 1
  Auction = 2
  Term = 1
  FirstCell <- MCFirstCell
  Scenarios <- MCScenarios
SPECIFICATION LiveSpec
INVARIANTS TypeOK ConfirmedIsCommitted HandledNotRejected
PROPERTIES CommittedIsPermitted NoLostUpdate PendingEnds
\* When the clock has stopped and every row has ended nothing is left to do.
CHECK_DEADLOCK FALSE
