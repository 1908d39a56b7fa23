----------------------------- MODULE MCRenewal -----------------------------
(* Small instances of Renewal: orders of every kind for one account, and a *)
(* registration of another.                                                *)
EXTENDS Renewal, TLC

CONSTANTS r1, i1, d1, t1, g1, a1, a2, p1, p2, p3

MCAccountOf == [o \in Orders |-> IF o \in RegisterOrders THEN a2 ELSE a1]
\* Which orders are paid for.
MCRenewTransferRegister == (p1 :> r1) @@ (p2 :> t1) @@ (p3 :> g1)
MCRenewDid == (p1 :> r1) @@ (p2 :> d1)
MCRenewRegister == (p1 :> r1) @@ (p2 :> g1)
MCRenewOnly == (p1 :> r1)
=============================================================================
