---------------------------- MODULE RefundProofs ----------------------------
(***************************************************************************)
(* Theorems about module Refund, for any payments, orders and faults.      *)
(***************************************************************************)
EXTENDS Refund, TLAPS

\* The definitions that only group variables.
USE DEF rowVars, orderVars, refVars, pollVars, uniVars

-----------------------------------------------------------------------------
(* Type correctness.                                                       *)

LEMMA InitType == Init => TypeOK
  BY DEF Init, TypeOK, PayStatus, UniPayRefundStatus

LEMMA UpdateTypes ==
    ASSUME TypeOK, NEW p \in Pays
    PROVE  /\ UpdatePayment(p) => status' \in [Pays -> PayStatus]
           /\ UpdatePayHashStatusToFailByDispute(p) => status' \in [Pays -> PayStatus]
           /\ UpdateUniPayRefundStatusToRefunded(p) => uniRefund' \in [Pays -> UniPayRefundStatus]
  BY DEF TypeOK, PayStatus, UniPayRefundStatus, UpdatePayment,
         UpdatePayHashStatusToFailByDispute, UpdateUniPayRefundStatusToRefunded

LEMMA UniPayType == TypeOK /\ UniPayNext => TypeOK'
  <1> SUFFICES ASSUME TypeOK, NEW p \in Pays, Paid(p) \/ Returned(p) \/ Disputed(p)
               PROVE  TypeOK'
    BY DEF UniPayNext
  <1>1. CASE Paid(p)
    BY <1>1 DEF Paid, TypeOK, EventType
  <1>2. CASE Returned(p)
    BY <1>2 DEF Returned, TypeOK, EventType
  <1>3. CASE Disputed(p)
    BY <1>3 DEF Disputed, TypeOK, EventType
  <1> QED BY <1>1, <1>2, <1>3

LEMMA HttpType == TypeOK /\ HttpNext => TypeOK'
  <1> SUFFICES ASSUME TypeOK, HttpNext PROVE TypeOK'
    OBVIOUS
  <1>1. ASSUME NEW p \in Pays, OrderPayHash(p) PROVE TypeOK'
    BY <1>1 DEF OrderPayHash, TypeOK, PayStatus
  <1>2. ASSUME NEW e \in notices, DoUniPayNotice(e) PROVE TypeOK'
    <2>1. e[2] \in Pays
      BY DEF TypeOK
    <2>2. status' \in [Pays -> PayStatus] /\ uniRefund' \in [Pays -> UniPayRefundStatus]
      BY <1>2, <2>1, UpdateTypes DEF DoUniPayNotice, TypeOK
    <2> QED BY <1>2, <2>2 DEF DoUniPayNotice, TypeOK
  <1> QED BY <1>1, <1>2 DEF HttpNext

LEMMA MarkType == TypeOK /\ MarkNext => TypeOK'
  <1> SUFFICES ASSUME TypeOK, MarkNext PROVE TypeOK'
    OBVIOUS
  <1>1. ASSUME NEW o \in RegOrders, OrderClosed(o) PROVE TypeOK'
    BY <1>1 DEF OrderClosed, TypeOK
  <1>2. ASSUME NEW o \in RegOrders, DoActionConfirmProposal(o) PROVE TypeOK'
    BY <1>2 DEF DoActionConfirmProposal, TypeOK, UniPayRefundStatus
  <1>3. ASSUME NEW o \in RegOrders, UpdatePayToRefund(o) PROVE TypeOK'
    BY <1>3 DEF UpdatePayToRefund, TypeOK, UniPayRefundStatus
  <1>4. ASSUME NEW o \in DidOrders, UpdateDidCellOrderToRefund(o) PROVE TypeOK'
    BY <1>4 DEF UpdateDidCellOrderToRefund, TypeOK, UniPayRefundStatus
  <1>5. ASSUME NEW o \in RegOrders, DoActionPreRegister(o) PROVE TypeOK'
    BY <1>5 DEF DoActionPreRegister, TypeOK
  <1> QED BY <1>1, <1>2, <1>3, <1>4, <1>5 DEF MarkNext

LEMMA RefundType == TypeOK /\ RefundNext => TypeOK'
  <1> SUFFICES ASSUME TypeOK, RefundNext PROVE TypeOK'
    OBVIOUS
  <1>1. CASE DoRefund
    BY <1>1 DEF DoRefund, GetUnRefundList, TypeOK
  <1>2. ASSUME NEW p \in Pays, ResetNotUniPay(p) PROVE TypeOK'
    BY <1>2 DEF ResetNotUniPay, TypeOK, UniPayRefundStatus
  <1>3. CASE RefundOrder
    <2>1. asked' \in [Pays -> 0..2]
      BY <1>3 DEF RefundOrder, TypeOK
    <2> QED BY <1>3, <2>1 DEF RefundOrder, RefundEnds, TypeOK
  <1>4. CASE UpdateRefundStatusToRefundIng
    BY <1>4 DEF UpdateRefundStatusToRefundIng, RefundEnds, TypeOK, UniPayRefundStatus
  <1>5. CASE RefundFails
    BY <1>5 DEF RefundFails, RefundEnds, TypeOK
  <1> QED BY <1>1, <1>2, <1>3, <1>4, <1>5 DEF RefundNext

LEMMA PollType == TypeOK /\ PollNext => TypeOK'
  <1> SUFFICES ASSUME TypeOK, PollNext PROVE TypeOK'
    OBVIOUS
  <1>1. CASE DoConfirmStatus
    BY <1>1, RefundAssumption DEF DoConfirmStatus, TypeOK
  <1>2. CASE GetPaymentInfo
    BY <1>2 DEF GetPaymentInfo, TypeOK
  <1>3. CASE PollDone
    BY <1>3 DEF PollDone, PollEnds, TypeOK
  <1>4. ASSUME NEW p \in Pays, ApplyConfirmed(p) PROVE TypeOK'
    <2>1. status' \in [Pays -> PayStatus]
      BY <1>4, UpdateTypes DEF ApplyConfirmed, TypeOK
    <2> QED BY <1>4, <2>1 DEF ApplyConfirmed, TypeOK
  <1>5. ASSUME NEW p \in Pays, ApplyRefunded(p) PROVE TypeOK'
    <2>1. uniRefund' \in [Pays -> UniPayRefundStatus]
      BY <1>5, UpdateTypes DEF ApplyRefunded, TypeOK
    <2> QED BY <1>5, <2>1 DEF ApplyRefunded, TypeOK
  <1> QED BY <1>1, <1>2, <1>3, <1>4, <1>5 DEF PollNext

LEMMA TypeStep == TypeOK /\ [Next]_vars => TypeOK'
  <1> SUFFICES ASSUME TypeOK, [Next]_vars PROVE TypeOK'
    OBVIOUS
  <1>1. CASE Crash
    BY <1>1 DEF Crash, RefundEnds, PollEnds, TypeOK
  <1>2. ASSUME NEW p \in Pays, Age(p) PROVE TypeOK'
    BY <1>2 DEF Age, TypeOK
  <1>3. CASE UNCHANGED vars
    BY <1>3 DEF vars, TypeOK
  <1> QED BY <1>1, <1>2, <1>3, UniPayType, HttpType, MarkType, RefundType, PollType DEF Next

\* The rows, the lists of the loops and UniPay's records keep their types.
THEOREM TypeCorrect == Spec => []TypeOK
  BY InitType, TypeStep, PTL DEF Spec

-----------------------------------------------------------------------------
(* The inductive invariant of the safety theorems.                         *)

\* What is said of refunds, in notices, answers and rows, is true.
RefundsTrue ==
    /\ \A p \in Pays : <<"ORDER.REFUND", p>> \in notices => uni[p] = "returned"
    /\ polling = "apply" => \A p \in back : uni[p] = "returned"
    /\ \A p \in Pays : uniRefund[p] = "Refunded" => uni[p] = "returned"

\* Only payments of lost orders are marked, listed and asked for.
MarksLost ==
    /\ \A p \in Pays : uniRefund[p] # "Default" => OrderOf[p] \in lost
    /\ \A p \in list : OrderOf[p] \in lost
    /\ \A p \in Pays : asked[p] > 0 => OrderOf[p] \in lost

\* What doRefund has listed is not yet under way.
ListFresh == \A p \in list : uniRefund[p] \in {"Default", "UnRefund"}

IInv == TypeOK /\ RefundsTrue /\ MarksLost /\ ListFresh

LEMMA InitInv == Init => IInv
  BY InitType DEF Init, IInv, RefundsTrue, MarksLost, ListFresh

LEMMA RefundsTrueStep == IInv /\ [Next]_vars => RefundsTrue'
  <1> SUFFICES ASSUME IInv, [Next]_vars PROVE RefundsTrue'
    OBVIOUS
  <1> USE DEF IInv, RefundsTrue
  <1>1. CASE UniPayNext
    <2> SUFFICES ASSUME NEW p \in Pays, Paid(p) \/ Returned(p) \/ Disputed(p) PROVE RefundsTrue'
      BY <1>1 DEF UniPayNext
    <2>1. CASE Paid(p)
      BY <2>1 DEF Paid, TypeOK
    <2>2. CASE Returned(p)
      BY <2>2 DEF Returned, TypeOK
    <2>3. CASE Disputed(p)
      BY <2>3 DEF Disputed, TypeOK
    <2> QED BY <2>1, <2>2, <2>3
  <1>2. ASSUME NEW p \in Pays, OrderPayHash(p) PROVE RefundsTrue'
    BY <1>2 DEF OrderPayHash
  <1>3. ASSUME NEW e \in notices, DoUniPayNotice(e) PROVE RefundsTrue'
    <2>1. e = <<e[1], e[2]>> /\ e[2] \in Pays
      BY DEF TypeOK
    <2>2. CASE e[1] = "ORDER.REFUND"
      <3>1. uni[e[2]] = "returned"
        BY <2>1, <2>2
      <3> QED BY <1>3, <2>1, <2>2, <3>1 DEF DoUniPayNotice, UpdateUniPayRefundStatusToRefunded, TypeOK
    <2>3. CASE e[1] # "ORDER.REFUND"
      BY <1>3, <2>3 DEF DoUniPayNotice
    <2> QED BY <2>2, <2>3
  <1>4. CASE MarkNext
    BY <1>4 DEF MarkNext, OrderClosed, DoActionPreRegister, DoActionConfirmProposal, UpdatePayToRefund,
                UpdateDidCellOrderToRefund, TypeOK
  <1>5. CASE RefundNext
    BY <1>5 DEF RefundNext, DoRefund, ResetNotUniPay, RefundOrder, UpdateRefundStatusToRefundIng,
                RefundFails, RefundEnds, TypeOK
  <1>6. CASE DoConfirmStatus \/ GetPaymentInfo \/ PollDone
    BY <1>6 DEF DoConfirmStatus, GetPaymentInfo, PollDone, PollEnds
  <1>7. ASSUME NEW p \in Pays, ApplyConfirmed(p) PROVE RefundsTrue'
    BY <1>7 DEF ApplyConfirmed
  <1>8. ASSUME NEW p \in Pays, ApplyRefunded(p) PROVE RefundsTrue'
    BY <1>8 DEF ApplyRefunded, UpdateUniPayRefundStatusToRefunded, TypeOK
  <1>9. CASE Crash \/ (\E p \in Pays : Age(p)) \/ UNCHANGED vars
    BY <1>9 DEF Crash, RefundEnds, PollEnds, Age, vars
  <1> QED BY <1>1, <1>2, <1>3, <1>4, <1>5, <1>6, <1>7, <1>8, <1>9 DEF Next, HttpNext, PollNext

\* Only the marks take a refund out of Default, and only doRefund's own mark
\* makes one that is under way.
LEMMA MarksOnly ==
    ASSUME IInv, [Next]_vars, NEW p \in Pays
    PROVE  /\ lost \subseteq lost'
           /\ uniRefund'[p] # "Default" => uniRefund[p] # "Default" \/ OrderOf[p] \in lost'
           /\ uniRefund'[p] \in {"Refunding", "Refunded"} =>
                 uniRefund[p] \in {"Refunding", "Refunded"} \/ list' = {}
  <1>1. CASE UniPayNext
    BY <1>1 DEF UniPayNext, Paid, Returned, Disputed
  <1>2. CASE HttpNext
    BY <1>2 DEF HttpNext, OrderPayHash, DoUniPayNotice, UpdateUniPayRefundStatusToRefunded, IInv, TypeOK
  <1>3. CASE MarkNext
    BY <1>3 DEF MarkNext, OrderClosed, DoActionPreRegister, DoActionConfirmProposal, UpdatePayToRefund,
                UpdateDidCellOrderToRefund, IInv, TypeOK
  <1>4. CASE RefundNext
    BY <1>4 DEF RefundNext, DoRefund, ResetNotUniPay, RefundOrder, UpdateRefundStatusToRefundIng,
                RefundFails, RefundEnds, IInv, TypeOK
  <1>5. CASE PollNext
    BY <1>5 DEF PollNext, DoConfirmStatus, GetPaymentInfo, PollDone, ApplyConfirmed, ApplyRefunded,
                UpdateUniPayRefundStatusToRefunded, IInv, TypeOK
  <1>6. CASE Crash \/ (\E q \in Pays : Age(q)) \/ UNCHANGED vars
    BY <1>6 DEF Crash, Age, vars
  <1> QED BY <1>1, <1>2, <1>3, <1>4, <1>5, <1>6 DEF Next

\* doRefund's list and the requests grow in two steps only.
LEMMA ListsOnly ==
    ASSUME IInv, [Next]_vars, NEW p \in Pays
    PROVE  /\ p \in list' => \/ p \in list
                             \/ status[p] = "Confirm" /\ uniRefund[p] = "UnRefund" /\ uniRefund' = uniRefund
           /\ asked'[p] # asked[p] => p \in list
  <1>1. CASE UniPayNext \/ HttpNext \/ MarkNext
    BY <1>1 DEF UniPayNext, HttpNext, MarkNext, Paid, Returned, Disputed, OrderPayHash, DoUniPayNotice,
                OrderClosed, DoActionPreRegister, DoActionConfirmProposal, UpdatePayToRefund,
                UpdateDidCellOrderToRefund
  <1>2. CASE RefundNext
    BY <1>2 DEF RefundNext, DoRefund, GetUnRefundList, ResetNotUniPay, RefundOrder,
                UpdateRefundStatusToRefundIng, RefundFails, RefundEnds, IInv, TypeOK
  <1>3. CASE PollNext
    BY <1>3 DEF PollNext, DoConfirmStatus, GetPaymentInfo, PollDone, ApplyConfirmed, ApplyRefunded
  <1>4. CASE Crash \/ (\E q \in Pays : Age(q)) \/ UNCHANGED vars
    BY <1>4 DEF Crash, RefundEnds, Age, vars
  <1> QED BY <1>1, <1>2, <1>3, <1>4 DEF Next

LEMMA MarksLostStep == IInv /\ [Next]_vars => MarksLost'
  <1> SUFFICES ASSUME IInv, [Next]_vars PROVE MarksLost'
    OBVIOUS
  <1>1. TypeOK'
    BY TypeStep DEF IInv
  <1>2. ASSUME NEW p \in Pays, uniRefund'[p] # "Default" PROVE OrderOf[p] \in lost'
    BY <1>2, MarksOnly DEF IInv, MarksLost
  <1>3. ASSUME NEW p \in list' PROVE OrderOf[p] \in lost'
    <2>1. p \in Pays
      BY <1>1 DEF TypeOK
    <2> QED BY <1>3, <2>1, MarksOnly, ListsOnly DEF IInv, MarksLost
  <1>4. ASSUME NEW p \in Pays, asked'[p] > 0 PROVE OrderOf[p] \in lost'
    BY <1>4, MarksOnly, ListsOnly DEF IInv, MarksLost
  <1> QED BY <1>2, <1>3, <1>4 DEF MarksLost

LEMMA ListFreshStep == IInv /\ [Next]_vars => ListFresh'
  <1> SUFFICES ASSUME IInv, [Next]_vars, NEW p \in list' PROVE uniRefund'[p] \in {"Default", "UnRefund"}
    BY DEF ListFresh
  <1>1. p \in Pays /\ uniRefund'[p] \in UniPayRefundStatus
    BY TypeStep DEF IInv, TypeOK
  <1>2. uniRefund[p] \in {"Default", "UnRefund"}
    BY <1>1, ListsOnly DEF IInv, ListFresh
  <1> QED BY <1>1, <1>2, MarksOnly DEF UniPayRefundStatus

LEMMA InvStep == IInv /\ [Next]_vars => IInv'
  BY TypeStep, RefundsTrueStep, MarksLostStep, ListFreshStep DEF IInv

LEMMA Invariance == Spec => []IInv
  BY InitInv, InvStep, PTL DEF Spec

\* A payment is Refunded in the database only after UniPay returned it.
THEOREM RefundedOnlyIfReturned == Spec => []RefundedIsReturned
  <1>1. IInv => RefundedIsReturned
    BY DEF IInv, RefundsTrue, RefundedIsReturned
  <1> QED BY <1>1, Invariance, PTL

\* UniPay is asked to return payments of lost orders only.
THEOREM AskedOnlyIfLost == Spec => []OnlyLostAsked
  <1>1. IInv => OnlyLostAsked
    BY DEF IInv, MarksLost, OnlyLostAsked
  <1> QED BY <1>1, Invariance, PTL

\* What is recorded as under way or done is never asked for again.
THEOREM NeverAskedAgain == Spec => NotAskedAgain
  <1>1. IInv /\ [Next]_vars
           => [\A p \in Pays : asked'[p] # asked[p] => uniRefund[p] \notin {"Refunding", "Refunded"}]_vars
    BY ListsOnly DEF IInv, ListFresh
  <1> QED BY <1>1, Invariance, PTL DEF Spec, NotAskedAgain

\* Neither notices nor polls, however late, touch a disputed payment.
THEOREM DisputeStays == Spec => DisputeIsFinal
  <1> DEFINE Final == \A p \in Pays : status[p] = "Dispute" =>
                        /\ status'[p] = "Dispute"
                        /\ uniRefund'[p] = "Refunded" => uniRefund[p] = "Refunded"
  <1>1. ASSUME IInv, Next PROVE Final
    <2> USE DEF IInv, TypeOK
    <2>1. CASE UniPayNext \/ Crash \/ (\E p \in Pays : Age(p))
      BY <1>1, <2>1 DEF UniPayNext, Paid, Returned, Disputed, Crash, Age
    <2>2. CASE HttpNext
      BY <1>1, <2>2 DEF HttpNext, OrderPayHash, DoUniPayNotice, UpdatePayment,
                        UpdateUniPayRefundStatusToRefunded, UpdatePayHashStatusToFailByDispute
    <2>3. CASE MarkNext
      BY <1>1, <2>3 DEF MarkNext, OrderClosed, DoActionPreRegister, DoActionConfirmProposal, UpdatePayToRefund,
                        UpdateDidCellOrderToRefund
    <2>4. CASE RefundNext
      BY <1>1, <2>4 DEF RefundNext, DoRefund, ResetNotUniPay, RefundOrder,
                        UpdateRefundStatusToRefundIng, RefundFails
    <2>5. CASE PollNext
      BY <1>1, <2>5 DEF PollNext, DoConfirmStatus, GetPaymentInfo, PollDone, ApplyConfirmed,
                        ApplyRefunded, UpdatePayment, UpdateUniPayRefundStatusToRefunded
    <2> QED BY <1>1, <2>1, <2>2, <2>3, <2>4, <2>5 DEF Next
  <1>2. IInv /\ [Next]_vars => [Final]_vars
    BY <1>1
  <1> QED BY <1>2, Invariance, PTL DEF Spec, DisputeIsFinal

-----------------------------------------------------------------------------
(* Without crashes and errors a payment is asked for once.                 *)

Quiet == Faults \cap {"crash", "error"} = {}

\* The marks of a registration pass over the payment from now on; those of a
\* did-cell order are over with the order.
Barred(p) == OrderOf[p] \in RegOrders => refundStatus[p] = "Sending"

Once ==
    /\ \A p \in Pays : asked[p] < 2
    /\ \A p \in Pays : uniRefund[p] = "UnRefund" \/ p \in list \/ asked[p] > 0 => Barred(p)
    /\ \A p \in list : status[p] \in {"Confirm", "Dispute"}
    /\ refunding = "idle" => list = {}
    /\ refunding = "reset" => \A p \in list : asked[p] = 0
    /\ \A p \in Pays : asked[p] > 0 => \/ status[p] = "Dispute"
                                       \/ uniRefund[p] # "UnRefund"
                                       \/ refunding = "mark" /\ p \in list

LEMMA OnceStep == Quiet /\ IInv /\ Once /\ [Next]_vars => Once'
  <1> SUFFICES ASSUME Quiet, IInv, Once, [Next]_vars PROVE Once'
    OBVIOUS
  <1> USE DEF Once, Barred, IInv, TypeOK
  <1>1. CASE UniPayNext
    BY <1>1 DEF UniPayNext, Paid, Returned, Disputed
  <1>2. ASSUME NEW p \in Pays, OrderPayHash(p) PROVE Once'
    BY <1>2 DEF OrderPayHash
  <1>3. ASSUME NEW e \in notices, DoUniPayNotice(e) PROVE Once'
    BY <1>3 DEF DoUniPayNotice, UpdatePayment, UpdateUniPayRefundStatusToRefunded,
                UpdatePayHashStatusToFailByDispute
  <1>4. ASSUME NEW o \in RegOrders, OrderClosed(o) \/ DoActionPreRegister(o) PROVE Once'
    BY <1>4 DEF OrderClosed, DoActionPreRegister
  <1>5. ASSUME NEW o \in RegOrders, DoActionConfirmProposal(o) \/ UpdatePayToRefund(o) PROVE Once'
    BY <1>5 DEF DoActionConfirmProposal, UpdatePayToRefund
  <1>6. ASSUME NEW o \in DidOrders, UpdateDidCellOrderToRefund(o) PROVE Once'
    BY <1>6, RefundAssumption DEF UpdateDidCellOrderToRefund, MarksLost
  <1>7. CASE DoRefund
    BY <1>7 DEF DoRefund, GetUnRefundList
  <1>8. ASSUME NEW p \in Pays, ResetNotUniPay(p) PROVE Once'
    BY <1>8 DEF ResetNotUniPay
  <1>9. CASE RefundOrder
    BY <1>9 DEF RefundOrder, Quiet
  <1>10. CASE UpdateRefundStatusToRefundIng
    BY <1>10 DEF UpdateRefundStatusToRefundIng, RefundEnds
  <1>11. CASE RefundFails \/ Crash
    BY <1>11 DEF RefundFails, Crash, Quiet
  <1>12. CASE DoConfirmStatus \/ GetPaymentInfo \/ PollDone \/ UNCHANGED vars
    BY <1>12 DEF DoConfirmStatus, GetPaymentInfo, PollDone, vars
  <1>13. ASSUME NEW p \in Pays, ApplyConfirmed(p) \/ ApplyRefunded(p) \/ Age(p) PROVE Once'
    BY <1>13 DEF ApplyConfirmed, ApplyRefunded, Age, UpdatePayment, UpdateUniPayRefundStatusToRefunded
  <1> QED BY <1>1, <1>2, <1>3, <1>4, <1>5, <1>6, <1>7, <1>8, <1>9, <1>10, <1>11, <1>12, <1>13
          DEF Next, HttpNext, MarkNext, RefundNext, PollNext

\* In a process that neither crashes nor loses an answer, doRefund asks UniPay
\* at most once for each payment.
THEOREM QuietAsksOnce == Quiet => (Spec => []AskedOnce)
  <1> SUFFICES ASSUME Quiet PROVE Spec => []AskedOnce
    OBVIOUS
  <1>1. Init => Once
    BY DEF Init, Once, Barred
  <1>2. IInv /\ Once /\ [Next]_vars => Once'
    BY OnceStep
  <1>3. Once => AskedOnce
    BY DEF Once, AskedOnce
  <1> QED BY <1>1, <1>2, <1>3, Invariance, PTL DEF Spec

=============================================================================
