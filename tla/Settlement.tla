----------------------------- MODULE Settlement -----------------------------
(***************************************************************************)
(* What registration promises its customers, whatever happens inside: an   *)
(* account goes to one order, and the money of an order is kept or         *)
(* returned, never returned for an order that is granted its account.      *)
(***************************************************************************)
CONSTANTS Orders, Pays, OrderOf, Acct(_)

VARIABLES
    granted,      \* the orders that were granted their account
    taken,        \* the payments received
    returned      \* the payments to be returned

settlement == <<granted, taken, returned>>

Init == granted = {} /\ taken = {} /\ returned = {}

Pay(p) ==
    /\ taken' = taken \cup {p}
    /\ UNCHANGED <<granted, returned>>

\* The payments of the orders that lost the account are returned at once.
Grant(x, lost) ==
    /\ \A y \in granted : Acct(y) # Acct(x)
    /\ \A p \in returned \cup lost : OrderOf[p] # x
    /\ granted' = granted \cup {x}
    /\ returned' = returned \cup lost
    /\ UNCHANGED taken

Return(ps) ==
    /\ ps \subseteq taken
    /\ \A p \in ps : OrderOf[p] \notin granted
    /\ returned' = returned \cup ps
    /\ UNCHANGED <<granted, taken>>

Next ==
    \/ \E p \in Pays : Pay(p)
    \/ \E x \in Orders, lost \in SUBSET taken : Grant(x, lost)
    \/ \E ps \in SUBSET taken : Return(ps)

Spec == Init /\ [][Next]_settlement
=============================================================================
