------------------------------ MODULE MCRefund ------------------------------
(* Small instances of Refund: two payments.                                *)
EXTENDS Refund, TLC

CONSTANTS r1, d1, p1, p2

\* Both payments for a registration; one for an older registration, which is
\* not UniPay's, and one for a did-cell order.
MCOneOrder == (p1 :> r1) @@ (p2 :> r1)
MCBothKinds == (p1 :> r1) @@ (p2 :> d1)
=============================================================================
