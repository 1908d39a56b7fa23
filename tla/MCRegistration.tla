--------------------------- MODULE MCRegistration ---------------------------
(* Small instances of Registration: orders competing for one account.      *)
EXTENDS Registration, TLC

CONSTANTS o1, o2, g1, i1, w1, p1, p2, acc, ua, ub, uc

\* o2 replaces o1 of the same address (/order/change); g1 is paid with a gift
\* card, i1 comes from the internal API and w1 is the pre_register transaction
\* of another registrar.
MCAccountOf == (o1 :> acc) @@ (o2 :> acc) @@ (g1 :> acc) @@ (i1 :> acc) @@ (w1 :> acc)
MCAddressOf == (o1 :> ua) @@ (o2 :> ua) @@ (g1 :> ub) @@ (i1 :> uc)

MCOrderOf == (p1 :> o1) @@ (p2 :> o2)
MCOnePay == (p1 :> o1)
MCBothPay == (p1 :> o1) @@ (p2 :> o1)
=============================================================================
