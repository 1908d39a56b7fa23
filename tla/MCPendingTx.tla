---------------------------- MODULE MCPendingTx ----------------------------
(* Small instances of PendingTx.                                           *)
EXTENDS PendingTx, TLC

CONSTANTS r1, r2, ua, ub, c1

MCOwnerOf == [c \in Coins |-> ua]
MCFirstCell == [owner |-> ua, manager |-> ub, expiry |-> Term, status |-> "Normal"]

\* One request of any handler, from the registration to the end of the auction,
\* beside foreign transactions, under every fault.
OneRequest ==
    [calls |-> (r1 :> AllHandlers) @@ (r2 :> {}), faults |-> AllFaults,
     maxTime |-> 3, maxCell |-> 2]

\* Two requests compete for the account cell, or for one coin.
TwoRequests(h1, h2) ==
    [calls |-> (r1 :> {h1}) @@ (r2 :> {h2}), faults |-> AllFaults \ {"other"},
     maxTime |-> 0, maxCell |-> 1]

\* The customer sends another version of what doEditManager built, beside
\* the built one or instead of it.
OwnVersion ==
    [calls |-> (r1 :> {"EditManager"}) @@ (r2 :> {"CKBTx"}),
     faults |-> {"reject"}, maxTime |-> 0, maxCell |-> 1]

MCScenarios ==
    {OneRequest, TwoRequests("EditOwner", "EditRecords"), TwoRequests("Transfer", "Pay"), OwnVersion}
=============================================================================
