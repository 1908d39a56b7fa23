------------------------------- MODULE Refund -------------------------------
(***************************************************************************)
(* The payments of t_das_order_pay_info and their way back through UniPay. *)
(* UniPay tells the service of payments, refunds and disputes by notices,  *)
(* which may be lost, late or repeated, and the service polls UniPay for   *)
(* the payments it waits for (doConfirmStatus).  What is marked for refund *)
(* is listed, asked for and marked again by doRefund.  Both loops keep     *)
(* their lists in memory while the notices change the rows.                *)
(*                                                                         *)
(* Which orders are lost, and which get a pre-account cell, is the matter  *)
(* of module Registration and of the did-cell transactions; here both may  *)
(* happen to an order at any time.                                         *)
(***************************************************************************)
EXTENDS Naturals, FiniteSets

CONSTANTS
    RegOrders,      \* orders with action apply_register
    DidOrders,      \* did-cell orders
    UniPayOrders,   \* those of both that were made with UniPay (is_uni_pay)
    Pays,           \* payment hashes
    OrderOf,        \* the order a payment is for
    Disputable,     \* payments that their payer may dispute
    Faults          \* what may fail in this instance

ASSUME RefundAssumption ==
    /\ RegOrders \cap DidOrders = {} /\ UniPayOrders \subseteq RegOrders \cup DidOrders
    /\ OrderOf \in [Pays -> RegOrders \cup DidOrders]
    /\ Disputable \subseteq Pays
    /\ Faults \subseteq {"crash", "error", "age"}

VARIABLES
    status,         \* status of the row, "none" without a row
    refundStatus,   \* refund_status
    uniRefund,      \* uni_pay_refund_status
    age,            \* of the row: 0 within 24 hours, 1 within 3 days, 2 older
    lost,           \* orders closed without their account
    proposed,       \* orders whose register_status has reached Proposal
    uni,            \* UniPay's own record of the payment (external)
    asked,          \* how often UniPay was asked to refund; 2 stands for more
    notices,        \* notices UniPay has sent and may deliver, again and again
    refunding, list, toReset,       \* doRefund: its step and its lists
    polling, pending, confirmed, back  \* doConfirmStatus: its step and its lists

rowVars  == <<status, refundStatus, uniRefund, age>>
refVars  == <<refunding, list, toReset>>
pollVars == <<polling, pending, confirmed, back>>
uniVars  == <<uni, asked, notices>>
orderVars == <<lost, proposed>>
vars == <<rowVars, orderVars, uniVars, refVars, pollVars>>

PayStatus == {"none", "Default", "Confirm", "Dispute"}
UniPayRefundStatus == {"Default", "UnRefund", "Refunding", "Refunded"}
EventType == {"ORDER.PAY", "ORDER.REFUND", "PAYMENT.DISPUTE"}

Init ==
    /\ status = [p \in Pays |-> "none"]
    /\ refundStatus = [p \in Pays |-> "Default"]
    /\ uniRefund = [p \in Pays |-> "Default"]
    /\ age = [p \in Pays |-> 0]
    /\ lost = {} /\ proposed = {}
    /\ uni = [p \in Pays |-> "pending"]
    /\ asked = [p \in Pays |-> 0]
    /\ notices = {}
    /\ refunding = "idle" /\ list = {} /\ toReset = {}
    /\ polling = "idle" /\ pending = {} /\ confirmed = {} /\ back = {}

-----------------------------------------------------------------------------
(* The updates of a row.                                                   *)

\* Broken: without status=Default in the WHERE clause.
UpdatePaymentAnyStatus(p) == status' = [status EXCEPT ![p] = "Confirm"]

\* Broken: INSERT IGNORE without the UPDATE of a row that is there.
UpdatePaymentInsertOnly(p) ==
    status' = IF status[p] = "none" THEN [status EXCEPT ![p] = "Confirm"] ELSE status

\* UpdatePayment: INSERT IGNORE, then an UPDATE of a row in Default.
UpdatePayment(p) ==
    status' = IF status[p] \in {"none", "Default"} THEN [status EXCEPT ![p] = "Confirm"] ELSE status

UpdateUniPayRefundStatusToRefunded(p) ==
    uniRefund' = IF status[p] = "Confirm" /\ uniRefund[p] = "Refunding"
                 THEN [uniRefund EXCEPT ![p] = "Refunded"] ELSE uniRefund

\* Broken: a status the column of payments does not have here.
UpdatePayHashStatusToRejected(p) ==
    status' = IF status[p] = "Confirm" THEN [status EXCEPT ![p] = "Rejected"] ELSE status

UpdatePayHashStatusToFailByDispute(p) ==
    status' = IF status[p] = "Confirm" THEN [status EXCEPT ![p] = "Dispute"] ELSE status

-----------------------------------------------------------------------------
(* UniPay (external).                                                      *)

Paid(p) ==
    /\ uni[p] = "pending"
    /\ uni' = [uni EXCEPT ![p] = "paid"]
    /\ notices' = notices \cup {<<"ORDER.PAY", p>>}
    /\ UNCHANGED <<rowVars, orderVars, asked, refVars, pollVars>>

Returned(p) ==
    /\ uni[p] = "paid" /\ asked[p] > 0
    /\ uni' = [uni EXCEPT ![p] = "returned"]
    /\ notices' = notices \cup {<<"ORDER.REFUND", p>>}
    /\ UNCHANGED <<rowVars, orderVars, asked, refVars, pollVars>>

Disputed(p) ==
    /\ p \in Disputable /\ uni[p] # "pending"
    /\ notices' = notices \cup {<<"PAYMENT.DISPUTE", p>>}
    /\ UNCHANGED <<rowVars, orderVars, uni, asked, refVars, pollVars>>

-----------------------------------------------------------------------------
(* HTTP.                                                                   *)

\* /order/pay/hash announces a payment.
OrderPayHash(p) ==
    /\ status[p] = "none"
    /\ status' = [status EXCEPT ![p] = "Default"]
    /\ UNCHANGED <<refundStatus, uniRefund, age, orderVars, uniVars, refVars, pollVars>>

\* /v1/unipay/notice; the notice may come again.
DoUniPayNotice(e) ==
    LET p == e[2] IN
    /\ e \in notices
    /\ \/ e[1] = "ORDER.PAY" /\ UpdatePayment(p) /\ UNCHANGED uniRefund
       \/ e[1] = "ORDER.REFUND" /\ UpdateUniPayRefundStatusToRefunded(p) /\ UNCHANGED status
       \/ e[1] = "PAYMENT.DISPUTE" /\ UpdatePayHashStatusToFailByDispute(p) /\ UNCHANGED uniRefund
    /\ UNCHANGED <<refundStatus, age, orderVars, uniVars, refVars, pollVars>>

-----------------------------------------------------------------------------
(* Marks for refund.                                                       *)

\* txtool or checkExpired closes an order (module Registration).
OrderClosed(o) ==
    /\ o \in RegOrders \ lost
    /\ lost' = lost \cup {o}
    /\ UNCHANGED <<proposed, rowVars, uniVars, refVars, pollVars>>

\* DoActionConfirmProposal: another order won the account.  The status of
\* the payment does not matter here.
DoActionConfirmProposal(o) ==
    LET marked == {p \in Pays : OrderOf[p] = o /\ status[p] # "none" /\ refundStatus[p] = "Default"} IN
    /\ o \in RegOrders
    /\ lost' = lost \cup {o}
    /\ refundStatus' = [p \in Pays |-> IF p \in marked THEN "Sending" ELSE refundStatus[p]]
    /\ uniRefund' = [p \in Pays |-> IF p \in marked THEN "UnRefund" ELSE uniRefund[p]]
    /\ UNCHANGED <<proposed, status, age, uniVars, refVars, pollVars>>

\* DoActionPreRegister, the handler of pre_register, whether or not the order
\* is closed.
DoActionPreRegister(o) ==
    /\ o \in RegOrders \ proposed
    /\ proposed' = proposed \cup {o}
    /\ UNCHANGED <<rowVars, lost, uniVars, refVars, pollVars>>

\* doCheckClosedAndUnRefund: an order that GetClosedAndUnRefundOrders finds, and
\* its UpdatePayToRefund (module Registration has them as two steps).
UpdatePayToRefund(o) ==
    LET marked == {p \in Pays : OrderOf[p] = o /\ status[p] = "Confirm" /\ refundStatus[p] = "Default"} IN
    /\ o \in (RegOrders \cap lost) \ proposed /\ marked # {}
    /\ refundStatus' = [p \in Pays |-> IF p \in marked THEN "Sending" ELSE refundStatus[p]]
    /\ uniRefund' = [p \in Pays |-> IF p \in marked THEN "UnRefund" ELSE uniRefund[p]]
    /\ UNCHANGED <<status, age, orderVars, uniVars, refVars, pollVars>>

\* doDidCellTx: the cached transaction was refused.
UpdateDidCellOrderToRefund(o) ==
    LET marked == {p \in Pays : OrderOf[p] = o /\ status[p] = "Confirm" /\ uniRefund[p] = "Default"} IN
    /\ o \in DidOrders \ lost
    /\ lost' = lost \cup {o}
    /\ uniRefund' = [p \in Pays |-> IF p \in marked THEN "UnRefund" ELSE uniRefund[p]]
    /\ UNCHANGED <<proposed, status, refundStatus, age, uniVars, refVars, pollVars>>

-----------------------------------------------------------------------------
(* doRefund.                                                               *)

\* Broken: refunds that are under way are asked for again.
GetUnRefundListRetry ==
    {p \in Pays : age[p] < 2 /\ status[p] = "Confirm" /\ uniRefund[p] \in {"UnRefund", "Refunding"}}

\* Broken: the status of the refund is not looked at.
GetUnRefundListAll == {p \in Pays : age[p] < 2 /\ status[p] = "Confirm"}

GetUnRefundList == {p \in Pays : age[p] < 2 /\ status[p] = "Confirm" /\ uniRefund[p] = "UnRefund"}

RefundEnds == refunding' = "idle" /\ list' = {} /\ toReset' = {}

DoRefund ==
    /\ refunding = "idle" /\ GetUnRefundList # {}
    /\ refunding' = "reset"
    /\ list' = GetUnRefundList
    /\ toReset' = {p \in GetUnRefundList : OrderOf[p] \notin UniPayOrders}
    /\ UNCHANGED <<rowVars, orderVars, uniVars, pollVars>>

\* UpdateUniPayRefundStatusToDefaultForNotUniPayOrder; the payment stays in
\* the list.
ResetNotUniPay(p) ==
    /\ refunding = "reset" /\ p \in toReset
    /\ toReset' = toReset \ {p}
    /\ uniRefund' = IF status[p] = "Confirm" THEN [uniRefund EXCEPT ![p] = "Default"] ELSE uniRefund
    /\ UNCHANGED <<status, refundStatus, age, orderVars, uniVars, refunding, list, pollVars>>

\* UniPay takes the list; with "error" its answer may get lost.
RefundOrder ==
    /\ refunding = "reset" /\ toReset = {}
    /\ asked' = [p \in Pays |-> IF p \in list /\ asked[p] < 2 THEN asked[p] + 1 ELSE asked[p]]
    /\ \/ refunding' = "mark" /\ UNCHANGED <<list, toReset>>
       \/ "error" \in Faults /\ RefundEnds
    /\ UNCHANGED <<rowVars, orderVars, uni, notices, pollVars>>

UpdateRefundStatusToRefundIng ==
    /\ refunding = "mark"
    /\ uniRefund' = [p \in Pays |-> IF p \in list /\ status[p] = "Confirm" /\ uniRefund[p] = "UnRefund"
                                    THEN "Refunding" ELSE uniRefund[p]]
    /\ RefundEnds
    /\ UNCHANGED <<status, refundStatus, age, orderVars, uniVars, pollVars>>

\* A call fails before it did anything: doRefund returns.
RefundFails ==
    /\ "error" \in Faults /\ refunding # "idle"
    /\ RefundEnds
    /\ UNCHANGED <<rowVars, orderVars, uniVars, pollVars>>

-----------------------------------------------------------------------------
(* doConfirmStatus.                                                        *)

PollEnds == polling' = "idle" /\ pending' = {} /\ confirmed' = {} /\ back' = {}

\* Broken: refunds are left to the notices.
DoConfirmStatusPaymentsOnly ==
    LET unconfirmed == {OrderOf[p] : p \in {q \in Pays : age[q] = 0 /\ status[q] = "Default"}} IN
    /\ polling = "idle" /\ unconfirmed # {}
    /\ polling' = "ask"
    /\ pending' = unconfirmed
    /\ UNCHANGED <<rowVars, orderVars, uniVars, refVars, confirmed, back>>

\* The two lists it asks UniPay about: orders with a payment that is not
\* confirmed, and payments whose refund is under way.
DoConfirmStatus ==
    LET unconfirmed == {OrderOf[p] : p \in {q \in Pays : age[q] = 0 /\ status[q] = "Default"}}
        underWay == {p \in Pays : age[p] < 2 /\ status[p] = "Confirm" /\ uniRefund[p] = "Refunding"}
    IN
    /\ polling = "idle" /\ (unconfirmed # {} \/ underWay # {})
    /\ polling' = "ask"
    /\ pending' = unconfirmed /\ back' = underWay
    /\ UNCHANGED <<rowVars, orderVars, uniVars, refVars, confirmed>>

\* Broken: the refund status UniPay answers is not looked at.
GetPaymentInfoAnyRefund ==
    /\ polling = "ask"
    /\ polling' = "apply"
    /\ confirmed' = {p \in Pays : OrderOf[p] \in pending /\ uni[p] # "pending"}
    /\ UNCHANGED <<rowVars, orderVars, uniVars, refVars, pending, back>>

\* UniPay answers with all payments of the orders, also those the service
\* has no row of.
GetPaymentInfo ==
    /\ polling = "ask"
    /\ polling' = "apply"
    /\ confirmed' = {p \in Pays : OrderOf[p] \in pending /\ uni[p] # "pending"}
    /\ back' = {p \in back : uni[p] = "returned"}
    /\ UNCHANGED <<rowVars, orderVars, uniVars, refVars, pending>>

\* The answer is applied payment by payment; an error is only logged.
ApplyConfirmed(p) ==
    /\ polling = "apply" /\ p \in confirmed
    /\ confirmed' = confirmed \ {p}
    /\ UpdatePayment(p) \/ ("error" \in Faults /\ UNCHANGED status)
    /\ UNCHANGED <<refundStatus, uniRefund, age, orderVars, uniVars, refVars, polling, pending, back>>

ApplyRefunded(p) ==
    /\ polling = "apply" /\ confirmed = {} /\ p \in back
    /\ back' = back \ {p}
    /\ UpdateUniPayRefundStatusToRefunded(p) \/ ("error" \in Faults /\ UNCHANGED uniRefund)
    /\ UNCHANGED <<status, refundStatus, age, orderVars, uniVars, refVars, polling, pending, confirmed>>

PollDone ==
    /\ \/ polling = "apply" /\ confirmed = {} /\ back = {}
       \/ polling = "ask" /\ "error" \in Faults
    /\ PollEnds
    /\ UNCHANGED <<rowVars, orderVars, uniVars, refVars>>

-----------------------------------------------------------------------------
Crash ==
    /\ "crash" \in Faults /\ (refunding # "idle" \/ polling # "idle")
    /\ RefundEnds /\ PollEnds
    /\ UNCHANGED <<rowVars, orderVars, uniVars>>

\* A day, then two more, pass for a row.
Age(p) ==
    /\ "age" \in Faults /\ status[p] # "none" /\ age[p] < 2
    /\ age' = [age EXCEPT ![p] = age[p] + 1]
    /\ UNCHANGED <<status, refundStatus, uniRefund, orderVars, uniVars, refVars, pollVars>>

UniPayNext == \E p \in Pays : Paid(p) \/ Returned(p) \/ Disputed(p)
HttpNext == (\E p \in Pays : OrderPayHash(p)) \/ (\E e \in notices : DoUniPayNotice(e))
MarkNext ==
    \/ \E o \in RegOrders : \/ OrderClosed(o) \/ DoActionPreRegister(o)
                            \/ DoActionConfirmProposal(o) \/ UpdatePayToRefund(o)
    \/ \E o \in DidOrders : UpdateDidCellOrderToRefund(o)
RefundNext ==
    \/ DoRefund \/ (\E p \in Pays : ResetNotUniPay(p))
    \/ RefundOrder \/ UpdateRefundStatusToRefundIng \/ RefundFails
PollNext ==
    \/ DoConfirmStatus \/ GetPaymentInfo \/ PollDone
    \/ \E p \in Pays : ApplyConfirmed(p) \/ ApplyRefunded(p)

Next == UniPayNext \/ HttpNext \/ MarkNext \/ RefundNext \/ PollNext \/ Crash \/ (\E p \in Pays : Age(p))

Spec == Init /\ [][Next]_vars

\* The loops run on tickers and errors are transient.  Nothing is assumed of
\* the notices: they may all be lost.  UniPay returns what it is asked for.
LiveSpec ==
    /\ Spec
    /\ \A o \in RegOrders : WF_vars(UpdatePayToRefund(o))
    /\ WF_vars(DoRefund) /\ SF_vars(RefundOrder /\ refunding' = "mark")
    /\ SF_vars(UpdateRefundStatusToRefundIng)
    /\ WF_vars(DoConfirmStatus) /\ SF_vars(GetPaymentInfo) /\ WF_vars(PollDone)
    /\ \A p \in Pays :
         /\ WF_vars(Returned(p)) /\ WF_vars(ResetNotUniPay(p))
         /\ WF_vars(ApplyConfirmed(p)) /\ SF_vars(ApplyConfirmed(p) /\ UpdatePayment(p))
         /\ WF_vars(ApplyRefunded(p)) /\ SF_vars(ApplyRefunded(p) /\ UpdateUniPayRefundStatusToRefunded(p))

-----------------------------------------------------------------------------
(* Properties.                                                             *)

\* Rows, lists and UniPay's records keep their types.
TypeOK ==
    /\ status \in [Pays -> PayStatus]
    /\ refundStatus \in [Pays -> {"Default", "Sending"}]
    /\ uniRefund \in [Pays -> UniPayRefundStatus]
    /\ age \in [Pays -> 0..2]
    /\ lost \subseteq RegOrders \cup DidOrders /\ proposed \subseteq RegOrders
    /\ uni \in [Pays -> {"pending", "paid", "returned"}]
    /\ asked \in [Pays -> 0..2]
    /\ notices \subseteq EventType \X Pays
    /\ refunding \in {"idle", "reset", "mark"} /\ list \subseteq Pays /\ toReset \subseteq list
    /\ polling \in {"idle", "ask", "apply"} /\ pending \subseteq RegOrders \cup DidOrders
    /\ confirmed \subseteq Pays /\ back \subseteq Pays

\* The database never claims a refund that did not happen: a payment is
\* Refunded only after UniPay returned it, whichever notices and polls raced.
RefundedIsReturned == \A p \in Pays : uniRefund[p] = "Refunded" => uni[p] = "returned"

\* UniPay is asked only for payments of orders that were lost: the customer of
\* an order that may still be served keeps paying for it.
OnlyLostAsked == \A p \in Pays : asked[p] > 0 => OrderOf[p] \in lost

\* A refund that is recorded as under way or done is never asked for again,
\* also when the process crashed in the middle of doRefund.
NotAskedAgain ==
    [][\A p \in Pays : asked'[p] # asked[p] => uniRefund[p] \notin {"Refunding", "Refunded"}]_vars

\* Without crashes and errors UniPay is asked once for a payment, whatever
\* notices, disputes and marks arrive while doRefund is at work.
AskedOnce == \A p \in Pays : asked[p] < 2

\* A disputed payment stays disputed: neither a repeated notice nor a poll
\* that was answered before the dispute confirms it again or has it Refunded.
DisputeIsFinal ==
    [][\A p \in Pays : status[p] = "Dispute" => /\ status'[p] = "Dispute"
                                                /\ uniRefund'[p] = "Refunded" => uniRefund[p] = "Refunded"]_vars

\* A payment that was announced and made is confirmed by the poll, even if all
\* notices are lost.
ConfirmedAtLast ==
    \A p \in Pays : status[p] = "Default" /\ uni[p] # "pending" ~> status[p] # "Default"

\* The confirmed payment of a registration that was lost before it had a
\* pre-account cell, and any payment that was marked, is returned, and the
\* database comes to know of it, unless it is disputed.  A payment confirmed
\* after its order was lost in Proposal or later is marked by nobody: the
\* handler of confirm_proposal has come too early for it, and
\* GetClosedAndUnRefundOrders asks for register_status<Proposal.  The same
\* happens when a late pre_register overtakes doCheckClosedAndUnRefund.
ReturnedAtLast ==
    \A p \in Pays : OrderOf[p] \in UniPayOrders =>
        (/\ status[p] = "Confirm"
         /\ OrderOf[p] \in (RegOrders \cap lost) \ proposed \/ uniRefund[p] = "UnRefund")
            ~> (\/ uniRefund[p] = "Refunded" \/ status[p] = "Dispute"
                \/ OrderOf[p] \in proposed /\ uniRefund[p] = "Default")

=============================================================================
