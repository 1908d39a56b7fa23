---------------------------- MODULE Registration ----------------------------
(***************************************************************************)
(* The life of a .bit registration order: from the order placed over HTTP, *)
(* through the payment, the apply_register and pre_register transactions   *)
(* sent by txtool, and the proposals of the keepers, until block_parser    *)
(* sees the account confirmed or the timers send the payment back.         *)
(*                                                                         *)
(* The MySQL columns of t_das_order_info, t_das_order_tx_info and          *)
(* t_das_order_pay_info are variables; each DAO call is one atomic update. *)
(* The actors (HTTP handlers, UniPay notices, txtool, block_parser, timer) *)
(* interleave between their DAO calls.  The CKB chain and its keepers are  *)
(* external and are modelled by what the code can see of them.             *)
(***************************************************************************)
EXTENDS Naturals, Sequences, FiniteSets

CONSTANTS
    SelfOrders,   \* orders placed here (OrderTypeSelf, action apply_register)
    GiftOrders,   \* those of them that are paid with a gift card
    InternalOrders, \* those placed over the internal API, without a payment
    OtherPres,    \* pre_register transactions of other registrars
    Pays,         \* payment hashes known to UniPay
    AccountOf,    \* the account a self order or a foreign pre_register is for
    AddressOf,    \* the address that places a self order
    OrderOf,      \* the order a payment is for
    MaxSend,      \* bound: how often each transaction of an order is sent
    Faults,       \* what may fail in this instance
    NoSend        \* no transaction between marking its order and sending it

\* A transaction sent for order o is identified by the order and the number
\* of the attempt; a pre_register transaction unknown to the database makes
\* block_parser create an OrderTypeOther order, identified by the transaction.
Own    == SelfOrders \X (1..MaxSend)
PreTxs == Own \cup OtherPres
Orders == SelfOrders \cup PreTxs

AllFaults == {"crash", "replay", "error", "lost", "unrecorded", "late", "closing",
              "rejectApply", "rejectPre", "recycle", "recyclePre", "age"}

ASSUME RegistrationAssumption ==
    /\ MaxSend \in Nat \ {0}
    /\ Faults \subseteq AllFaults
    /\ GiftOrders \subseteq SelfOrders /\ InternalOrders \subseteq SelfOrders \ GiftOrders
    /\ SelfOrders \cap PreTxs = {} /\ Own \cap OtherPres = {}
    /\ SelfOrders \cup OtherPres \subseteq DOMAIN AccountOf
    /\ SelfOrders \subseteq DOMAIN AddressOf
    /\ OrderOf \in [Pays -> SelfOrders \ (GiftOrders \cup InternalOrders)]
    /\ NoSend \notin SelfOrders \X (0..MaxSend)

Acct(x) == IF x \in SelfOrders \cup OtherPres THEN AccountOf[x] ELSE AccountOf[x[1]]

VARIABLES
    placing,      \* orders whose checks passed and whose row is not written yet
    orderStatus, payStatus, preStatus, hedgeStatus, regStatus,
    old,          \* orders older than 30 days
    payRow, refund,
    applyRow, preRow, proposeRow,
    applyTx, preTx, spends, blocks,
    job, todo, sending,
    sent,         \* a transaction the node took and whose row is not written yet
    unrefund      \* orders listed by doCheckClosedAndUnRefund, not yet handled

orderVars == <<orderStatus, payStatus, preStatus, hedgeStatus, regStatus, old>>
payVars   == <<payRow, refund>>
rowVars   == <<applyRow, preRow, proposeRow>>
chainVars == <<applyTx, preTx, spends, blocks>>
toolVars  == <<job, todo, sending, sent>>
vars == <<placing, orderVars, payVars, rowVars, chainVars, toolVars, unrefund>>

TxStatus  == {"Default", "Sending", "Ok"}
RowStatus == {"none", "Default", "Confirm", "Rejected"}

\* The register_status column, tables.RegisterStatus.
RegDefault == 0
ConfirmPayment == 1
ApplyRegister == 2
PreRegister == 3
Proposal == 4
ConfirmProposal == 5
Registered == 6

\* What block_parser finds in a block: <<kind, transaction>>.
Events == ({"apply"} \X Own) \cup ({"pre", "propose", "confirm"} \X PreTxs)

Init ==
    /\ placing = {}
    /\ orderStatus = [x \in Orders |-> "none"]
    /\ payStatus = [o \in SelfOrders |-> "Default"]
    /\ preStatus = [o \in SelfOrders |-> "Default"]
    /\ hedgeStatus = [o \in SelfOrders |-> "Default"]
    /\ regStatus = [x \in Orders |-> RegDefault]
    /\ old = {}
    /\ payRow = [p \in Pays |-> "none"]
    /\ refund = [p \in Pays |-> FALSE]
    /\ applyRow = [h \in Own |-> "none"]
    /\ preRow = [h \in Own |-> "none"]
    /\ proposeRow = [h \in PreTxs |-> {}]
    /\ applyTx = [h \in Own |-> "none"]
    /\ preTx = [h \in PreTxs |-> "none"]
    /\ spends = [h \in Own |-> 0]
    /\ blocks = <<>>
    /\ job = "idle" /\ todo = {} /\ sending = NoSend /\ sent = NoSend
    /\ unrefund = {}

\* The account cell exists on chain: some proposal with the account's
\* pre-account cell was confirmed.
OnChain(a) == \E h \in PreTxs : Acct(h) = a /\ preTx[h] = "confirmed"

Exists(x) == orderStatus[x] # "none"
Open(x)   == orderStatus[x] = "open"

\* An UPDATE ... WHERE col = old; RowsAffected is never looked at.
CAS(f, o, before, after) == IF f[o] = before THEN [f EXCEPT ![o] = after] ELSE f
Close(o) == orderStatus' = [orderStatus EXCEPT ![o] = "closed"]

-----------------------------------------------------------------------------
(* HTTP handlers.  The checks read the database; the row is written later. *)

CheckAccountBase(o) == ~OnChain(AccountOf[o])

\* The address has no order for the account, or only closed and lost ones.
CheckAddressOrder(o) ==
    \A x \in SelfOrders :
        (AccountOf[x] = AccountOf[o] /\ AddressOf[x] = AddressOf[o] /\ Exists(x))
            => ~Open(x) /\ regStatus[x] # Registered

CheckOtherAddressOrder(o) ==
    \A x \in Orders : Acct(x) = AccountOf[o] /\ Open(x) => regStatus[x] < PreRegister

RegisterChecks(o) == CheckAccountBase(o) /\ CheckAddressOrder(o) /\ CheckOtherAddressOrder(o)

\* The address's open orders for the account await payment.
OldOrderCheck(o) ==
    LET mine == {x \in SelfOrders : AccountOf[x] = AccountOf[o] /\ AddressOf[x] = AddressOf[o] /\ Open(x)}
    IN  /\ \E x \in mine : regStatus[x] = ConfirmPayment
        /\ \A x \in mine : regStatus[x] <= ConfirmPayment

\* /order/register, /account/register (internal) and /order/change up to
\* where the row is written.
DoOrderRegister(o) == o \notin InternalOrders /\ RegisterChecks(o)
DoAccountRegister(o) == o \in InternalOrders /\ RegisterChecks(o)
DoOrderChange(o) == o \notin GiftOrders \cup InternalOrders /\ OldOrderCheck(o)

CheckOrder(o) ==
    /\ ~Exists(o) /\ o \notin placing
    /\ DoOrderRegister(o) \/ DoAccountRegister(o) \/ DoOrderChange(o)
    /\ placing' = placing \cup {o}
    /\ UNCHANGED <<orderVars, payVars, rowVars, chainVars, toolVars, unrefund>>

NewRow(o, pay, reg) ==
    /\ payStatus' = [payStatus EXCEPT ![o] = pay]
    /\ regStatus' = [regStatus EXCEPT ![o] = reg]

\* A card payment (Stripe) has its hash, and so its pending pay row, before it
\* is made.
DoRegisterOrder(o) ==
    /\ o \notin GiftOrders \cup InternalOrders
    /\ NewRow(o, "Default", ConfirmPayment)
    /\ \/ UNCHANGED payRow
       \/ \E p \in Pays : OrderOf[p] = o /\ payRow' = [payRow EXCEPT ![p] = "Default"]

\* A gift card is as good as a confirmed payment.
DoRegisterCouponOrder(o) ==
    o \in GiftOrders /\ NewRow(o, "Sending", ApplyRegister) /\ UNCHANGED payRow

\* To be served as well, but left in ConfirmPayment.
DoInternalRegisterOrder(o) ==
    o \in InternalOrders /\ NewRow(o, "Sending", ConfirmPayment) /\ UNCHANGED payRow

CreateOrder(o) ==
    /\ o \in placing
    /\ placing' = placing \ {o}
    /\ orderStatus' = [orderStatus EXCEPT ![o] = "open"]
    /\ DoRegisterOrder(o) \/ DoRegisterCouponOrder(o) \/ DoInternalRegisterOrder(o)
    /\ UNCHANGED <<preStatus, hedgeStatus, old, refund, rowVars, chainVars, toolVars, unrefund>>

\* /order/pay/hash: a pending pay row, for an order in any state.
OrderPayHash(p) ==
    /\ Exists(OrderOf[p]) /\ payRow[p] = "none"
    /\ payRow' = [payRow EXCEPT ![p] = "Default"]
    /\ UNCHANGED <<placing, orderVars, refund, rowVars, chainVars, toolVars, unrefund>>

\* Broken: the status of the payment is written to the order's pay_status.
DoPaymentConfirmWrongColumn(p) ==
    LET o == OrderOf[p] IN
    /\ Exists(o)
    /\ payStatus' = CAS(payStatus, o, "Default", "Confirm")
    /\ regStatus' = IF payStatus[o] = "Default" THEN [regStatus EXCEPT ![o] = ApplyRegister] ELSE regStatus
    /\ payRow' = [payRow EXCEPT ![p] = "Confirm"]
    /\ UNCHANGED <<placing, orderStatus, preStatus, hedgeStatus, old, refund,
                   rowVars, chainVars, toolVars, unrefund>>

\* Broken: without pay_status=Default in the WHERE clause.
DoPaymentConfirmAnyTime(p) ==
    LET o == OrderOf[p] IN
    /\ Exists(o)
    /\ payStatus' = [payStatus EXCEPT ![o] = "Sending"]
    /\ regStatus' = [regStatus EXCEPT ![o] = ApplyRegister]
    /\ payRow' = [payRow EXCEPT ![p] = "Confirm"]
    /\ UNCHANGED <<placing, orderStatus, preStatus, hedgeStatus, old, refund,
                   rowVars, chainVars, toolVars, unrefund>>

\* UpdatePayment, from a UniPay notice or from the poll of doConfirmStatus;
\* UniPay may send the notice again.
DoPaymentConfirm(p) ==
    LET o == OrderOf[p] IN
    /\ Exists(o)
    /\ payStatus' = CAS(payStatus, o, "Default", "Sending")
    /\ regStatus' = IF payStatus[o] = "Default" THEN [regStatus EXCEPT ![o] = ApplyRegister] ELSE regStatus
    /\ payRow' = [payRow EXCEPT ![p] = "Confirm"]
    /\ UNCHANGED <<placing, orderStatus, preStatus, hedgeStatus, old, refund,
                   rowVars, chainVars, toolVars, unrefund>>

-----------------------------------------------------------------------------
(* txtool: one goroutine lists the orders to serve, then serves them one   *)
(* by one.  An order is marked Ok before its transaction is sent.          *)

Finish(o) ==
    /\ todo' = todo \ {o}
    /\ job' = IF todo \subseteq {o} THEN "idle" ELSE job
    /\ sending' = NoSend /\ sent' = NoSend
AbortBatch == todo' = {} /\ job' = "idle" /\ sending' = NoSend /\ sent' = NoSend

DoOrderApplyTxList ==
    LET list == {o \in SelfOrders : Open(o) /\ payStatus[o] = "Sending"} IN
    /\ job = "idle" /\ list # {}
    /\ job' = "apply" /\ todo' = list
    /\ UNCHANGED <<placing, orderVars, payVars, rowVars, chainVars, sending, sent, unrefund>>

DoOrderPreRegisterTxList ==
    LET list == {o \in SelfOrders : Open(o) /\ preStatus[o] = "Sending"} IN
    /\ job = "idle" /\ list # {}
    /\ job' = "pre" /\ todo' = list
    /\ UNCHANGED <<placing, orderVars, payVars, rowVars, chainVars, sending, sent, unrefund>>

\* GetPreRegisteredOrderByAccountId: LIMIT 1 without an order, then an age test.
PreRegisteredOrders(o) == {x \in Orders : Acct(x) = AccountOf[o] /\ Exists(x) /\ regStatus[x] > PreRegister}
HasPreTx(o) == \E x \in PreRegisteredOrders(o) : x \notin old
HasNoPreTx(o) == PreRegisteredOrders(o) = {} \/ PreRegisteredOrders(o) \cap old # {}

\* UpdateOrderToRefund: another order of the account is already pre-registered.
CloseForRefund(o) ==
    /\ HasPreTx(o)
    /\ Close(o)
    /\ Finish(o)
    /\ UNCHANGED <<placing, payStatus, preStatus, hedgeStatus, regStatus, old,
                   payVars, rowVars, chainVars, unrefund>>

\* A call to the node or the database fails before the order is marked.
BuildError ==
    /\ "error" \in Faults
    /\ AbortBatch
    /\ UNCHANGED <<placing, orderVars, payVars, rowVars, chainVars, unrefund>>

MarkApply(o) ==
    /\ HasNoPreTx(o)
    /\ payStatus' = CAS(payStatus, o, "Sending", "Ok")
    /\ sending' = <<o, 0>>
    /\ UNCHANGED <<placing, orderStatus, preStatus, hedgeStatus, regStatus, old,
                   payVars, rowVars, chainVars, job, todo, sent, unrefund>>

\* DoOrderApplyTx up to the mark.
DoOrderApplyTx(o) ==
    /\ job = "apply" /\ o \in todo /\ sending = NoSend /\ sent = NoSend
    /\ BuildError \/ CloseForRefund(o) \/ MarkApply(o)

NextSend(tx, o) == {h \in Own : h[1] = o /\ tx[h] = "none" /\ \A n \in 1..(h[2] - 1) : tx[<<o, n>>] # "none"}

\* The node took the transaction and said so: its row is written next.
AwaitRow(h) == sent' = h /\ sending' = NoSend /\ UNCHANGED <<job, todo>>

SendApplyAccepted(h) ==
    /\ applyTx' = [applyTx EXCEPT ![h] = "pool"]
    /\ UNCHANGED <<placing, orderStatus, preStatus, hedgeStatus, regStatus, old, payVars,
                   rowVars, preTx, spends, blocks, unrefund>>

\* SendTransaction of DoOrderApplyTx; on an error, also after the node took
\* the transaction, the mark is taken back.
SendApplyTx(o) ==
    /\ job = "apply" /\ sending = <<o, 0>>
    /\ \/ \E h \in NextSend(applyTx, o) :
            /\ SendApplyAccepted(h)
            /\ \/ AwaitRow(h) /\ UNCHANGED payStatus
               \/ /\ "lost" \in Faults
                  /\ payStatus' = CAS(payStatus, o, "Ok", "Sending")
                  /\ AbortBatch
       \/ /\ "error" \in Faults
          /\ payStatus' = CAS(payStatus, o, "Ok", "Sending")
          /\ AbortBatch
          /\ UNCHANGED <<placing, orderStatus, preStatus, hedgeStatus, regStatus, old,
                         payVars, rowVars, chainVars, unrefund>>

\* The row is written; an error is only logged.
CreateOrderTx(rows) ==
    \/ rows' = [rows EXCEPT ![sent] = "Default"]
    \/ "unrecorded" \in Faults /\ UNCHANGED rows

\* CreateOrderTx of DoOrderApplyTx, after the send.
RecordApplyTx(o) ==
    /\ job = "apply" /\ sent # NoSend /\ sent[1] = o
    /\ CreateOrderTx(applyRow)
    /\ Finish(o)
    /\ UNCHANGED <<placing, orderVars, payVars, preRow, proposeRow, chainVars, unrefund>>

\* GetOrderTxByAction: the newest confirmed apply row of the order.
ConfirmedApply(o) ==
    {h \in Own : /\ h[1] = o /\ applyRow[h] = "Confirm"
                 /\ \A k \in Own : k[1] = o /\ applyRow[k] = "Confirm" => k[2] <= h[2]}

\* UpdateOrderRedoApply: the apply cell is gone, apply again.
RedoApply(o) ==
    /\ IF Open(o) /\ payStatus[o] = "Ok" /\ preStatus[o] = "Sending"
       THEN /\ payStatus' = [payStatus EXCEPT ![o] = "Sending"]
            /\ preStatus' = [preStatus EXCEPT ![o] = "Default"]
       ELSE UNCHANGED <<payStatus, preStatus>>
    /\ Finish(o)
    /\ UNCHANGED <<placing, orderStatus, hedgeStatus, regStatus, old,
                   payVars, rowVars, chainVars, unrefund>>

MarkPre(o, h) ==
    /\ HasNoPreTx(o)
    /\ preStatus' = CAS(preStatus, o, "Sending", "Ok")
    /\ sending' = <<o, h[2]>>
    /\ UNCHANGED <<placing, orderStatus, payStatus, hedgeStatus, regStatus, old,
                   payVars, rowVars, chainVars, job, todo, sent, unrefund>>

\* DoOrderPreRegisterTx up to the mark.
DoOrderPreRegisterTx(o) ==
    /\ job = "pre" /\ o \in todo /\ sending = NoSend /\ sent = NoSend
    /\ \/ /\ ConfirmedApply(o) = {}      \* "order apply register tx is nil"
          /\ AbortBatch
          /\ UNCHANGED <<placing, orderVars, payVars, rowVars, chainVars, unrefund>>
       \/ BuildError
       \/ \E h \in ConfirmedApply(o) :
            \/ applyTx[h] # "live" /\ RedoApply(o)
            \/ /\ applyTx[h] = "live"    \* ApplyMinWaitingBlockNumber not reached
               /\ Finish(o)
               /\ UNCHANGED <<placing, orderVars, payVars, rowVars, chainVars, unrefund>>
            \/ applyTx[h] = "live" /\ (CloseForRefund(o) \/ MarkPre(o, h))

\* The node takes a transaction whose input cell is live and unclaimed.
Spendable(o, n) ==
    /\ applyTx[<<o, n>>] = "live"
    /\ \A h \in Own : h[1] = o /\ spends[h] = n => preTx[h] # "pool"

SendPreAccepted(h, n) ==
    /\ preTx' = [preTx EXCEPT ![h] = "pool"]
    /\ spends' = [spends EXCEPT ![h] = n]
    /\ UNCHANGED <<placing, orderStatus, payStatus, hedgeStatus, regStatus, old, payVars,
                   rowVars, applyTx, blocks, unrefund>>

\* The outcomes of SendTransaction; a refusal with error code 35 or 53 closes
\* the order (UpdateOrderToClosedAndRefund), any other one is retried.
SendPreTx(o) ==
    /\ job = "pre" /\ sending # NoSend /\ sending[1] = o
    /\ \/ \E h \in NextSend(preTx, o) :
            /\ Spendable(o, sending[2]) /\ ~OnChain(AccountOf[o])
            /\ SendPreAccepted(h, sending[2])
            /\ \/ AwaitRow(h) /\ UNCHANGED preStatus
               \/ /\ "lost" \in Faults
                  /\ preStatus' = CAS(preStatus, o, "Ok", "Sending")
                  /\ Finish(o) \/ AbortBatch
       \/ /\ "error" \in Faults \/ ~Spendable(o, sending[2])
          /\ preStatus' = CAS(preStatus, o, "Ok", "Sending")
          /\ Finish(o) \/ AbortBatch
          /\ UNCHANGED <<placing, orderStatus, payStatus, hedgeStatus, regStatus, old,
                         payVars, rowVars, chainVars, unrefund>>
       \/ /\ "closing" \in Faults \/ OnChain(AccountOf[o])
          /\ orderStatus' = CAS(orderStatus, o, "open", "closed")
          /\ Finish(o)
          /\ UNCHANGED <<placing, payStatus, preStatus, hedgeStatus, regStatus, old,
                         payVars, rowVars, chainVars, unrefund>>

\* CreateOrderTx of DoOrderPreRegisterTx, after the send.
RecordPreTx(o) ==
    /\ job = "pre" /\ sent # NoSend /\ sent[1] = o
    /\ CreateOrderTx(preRow)
    /\ Finish(o)
    /\ UNCHANGED <<placing, orderVars, payVars, applyRow, proposeRow, chainVars, unrefund>>

\* The process stops; the batch and the lists of the timers are gone.
Crash ==
    /\ "crash" \in Faults
    /\ job # "idle" \/ unrefund # {} \/ placing # {}
    /\ AbortBatch
    /\ unrefund' = {} /\ placing' = {}
    /\ UNCHANGED <<orderVars, payVars, rowVars, chainVars>>

-----------------------------------------------------------------------------
(* The chain and the keepers (external).                                   *)

CommitApply(h) ==
    /\ applyTx[h] = "pool"
    /\ applyTx' = [applyTx EXCEPT ![h] = "live"]
    /\ blocks' = Append(blocks, <<"apply", h>>)
    /\ UNCHANGED <<placing, orderVars, payVars, rowVars, preTx, spends, toolVars, unrefund>>

RejectApply(h) ==
    /\ "rejectApply" \in Faults /\ applyTx[h] = "pool"
    /\ applyTx' = [applyTx EXCEPT ![h] = "rejected"]
    /\ UNCHANGED <<placing, orderVars, payVars, rowVars, preTx, spends, blocks, toolVars, unrefund>>

CommitPre(h) ==
    LET a == <<h[1], spends[h]>> IN
    /\ preTx[h] = "pool" /\ applyTx[a] = "live" /\ ~OnChain(Acct(h))
    /\ preTx' = [preTx EXCEPT ![h] = "live"]
    /\ applyTx' = [applyTx EXCEPT ![a] = "dead"]
    /\ blocks' = Append(blocks, <<"pre", h>>)
    /\ UNCHANGED <<placing, orderVars, payVars, rowVars, spends, toolVars, unrefund>>

RejectPre(h) ==
    /\ preTx[h] = "pool"
    /\ \/ "rejectPre" \in Faults /\ h[2] < MaxSend
       \/ applyTx[<<h[1], spends[h]>>] = "dead" \/ OnChain(Acct(h))
    /\ preTx' = [preTx EXCEPT ![h] = "rejected"]
    /\ UNCHANGED <<placing, orderVars, payVars, rowVars, applyTx, spends, blocks, toolVars, unrefund>>

OtherPre(h) ==
    /\ preTx[h] = "none" /\ ~OnChain(Acct(h))
    /\ preTx' = [preTx EXCEPT ![h] = "live"]
    /\ blocks' = Append(blocks, <<"pre", h>>)
    /\ UNCHANGED <<placing, orderVars, payVars, rowVars, applyTx, spends, toolVars, unrefund>>

Propose(h) ==
    /\ preTx[h] = "live" /\ ~OnChain(Acct(h))
    /\ preTx' = [preTx EXCEPT ![h] = "proposed"]
    /\ blocks' = Append(blocks, <<"propose", h>>)
    /\ UNCHANGED <<placing, orderVars, payVars, rowVars, applyTx, spends, toolVars, unrefund>>

Confirm(h) ==
    /\ preTx[h] = "proposed" /\ ~OnChain(Acct(h))
    /\ preTx' = [preTx EXCEPT ![h] = "confirmed"]
    /\ blocks' = Append(blocks, <<"confirm", h>>)
    /\ UNCHANGED <<placing, orderVars, payVars, rowVars, applyTx, spends, toolVars, unrefund>>

\* doRecycleApply takes back an apply cell older than ApplyMaxWaitingBlockNumber.
DoRecycleApply(h) ==
    /\ "recycle" \in Faults /\ h[2] < MaxSend
    /\ applyTx[h] = "live"
    /\ applyTx' = [applyTx EXCEPT ![h] = "dead"]
    /\ UNCHANGED <<placing, orderVars, payVars, rowVars, preTx, spends, blocks, toolVars, unrefund>>

\* doRecyclePre, if configured, takes back a pre-account cell after a day.
DoRecyclePre(h) ==
    /\ "recyclePre" \in Faults
    /\ preTx[h] = "live"
    /\ preTx' = [preTx EXCEPT ![h] = "dead"]
    /\ UNCHANGED <<placing, orderVars, payVars, rowVars, applyTx, spends, blocks, toolVars, unrefund>>

-----------------------------------------------------------------------------
(* block_parser: the transactions of the chain, in order.  The cursor is   *)
(* saved after the block is handled, so a crash makes it handle it again.  *)

ActionApplyRegister(h) ==
    LET o == h[1] IN
    /\ IF applyRow[h] = "none" THEN UNCHANGED <<applyRow, preStatus, regStatus>>
       ELSE /\ applyRow' = [applyRow EXCEPT ![h] = "Confirm"]
            /\ preStatus' = IF Open(o) THEN CAS(preStatus, o, "Default", "Sending") ELSE preStatus
            /\ regStatus' = IF regStatus[o] < PreRegister
                            THEN [regStatus EXCEPT ![o] = PreRegister] ELSE regStatus
    /\ UNCHANGED <<orderStatus, payStatus, hedgeStatus, refund, preRow, proposeRow>>

\* The orders with a pre_register row for the transaction.
PreOrders(h) == {x \in Orders : \/ x = h /\ Exists(x)
                                \/ h \in Own /\ x = h[1] /\ preRow[h] # "none"}

\* Broken: a transaction that is not ours is skipped.
ActionPreRegisterOwnOnly(h) ==
    /\ regStatus' = [x \in Orders |-> IF x \in PreOrders(h) /\ regStatus[x] < Proposal
                                      THEN Proposal ELSE regStatus[x]]
    /\ UNCHANGED <<orderStatus, payStatus, preStatus, hedgeStatus, refund, applyRow, preRow, proposeRow>>

ActionPreRegister(h) ==
    /\ \/ /\ PreOrders(h) # {}       \* DoActionPreRegister
          /\ \E x \in PreOrders(h) :
                /\ regStatus' = IF regStatus[x] < Proposal
                                THEN [regStatus EXCEPT ![x] = Proposal] ELSE regStatus
                /\ preRow' = IF x = h THEN preRow ELSE [preRow EXCEPT ![h] = "Confirm"]
          /\ UNCHANGED orderStatus
       \/ /\ PreOrders(h) = {}       \* CreateOrderAndOrderTxs
          /\ \E s \in {"open"} \cup (IF OnChain(Acct(h)) THEN {"closed"} ELSE {}) :
                orderStatus' = [orderStatus EXCEPT ![h] = s]
          /\ regStatus' = [regStatus EXCEPT ![h] = Proposal]
          /\ UNCHANGED preRow
    /\ UNCHANGED <<payStatus, preStatus, hedgeStatus, refund, applyRow, proposeRow>>

\* gorm refuses to create an empty list of rows: the block would be retried
\* for ever, so the guard is the one on which the parser halts.
ActionPropose(h) ==
    /\ PreOrders(h) # {}
    /\ regStatus' = [x \in Orders |-> IF x \in PreOrders(h) /\ regStatus[x] = Proposal
                                      THEN ConfirmProposal ELSE regStatus[x]]
    /\ proposeRow' = [proposeRow EXCEPT ![h] = @ \cup PreOrders(h)]
    /\ UNCHANGED <<orderStatus, payStatus, preStatus, hedgeStatus, refund, applyRow, preRow>>

\* Broken: okOrderIds without the orders of the proposal.
OkOrdersHistoryOnly(h) ==
    {o \in SelfOrders : AccountOf[o] = Acct(h) /\ payStatus[o] # "Default" /\ orderStatus[o] = "closed"}

\* GetHistoryOkOrders and the orders of the proposal.
OkOrders(h) ==
    proposeRow[h] \cup {o \in SelfOrders : /\ AccountOf[o] = Acct(h) /\ payStatus[o] # "Default"
                                           /\ orderStatus[o] = "closed"}

\* Broken: every order of the account becomes Registered.
ActionConfirmProposalByAccount(h) ==
    /\ proposeRow[h] # {}
    /\ regStatus' = [x \in Orders |-> IF Acct(x) = Acct(h) /\ Exists(x) THEN Registered ELSE regStatus[x]]
    /\ orderStatus' = [x \in Orders |-> IF Acct(x) = Acct(h) /\ Exists(x) THEN "closed" ELSE orderStatus[x]]
    /\ UNCHANGED <<payStatus, preStatus, hedgeStatus, refund, applyRow, preRow, proposeRow>>

ActionConfirmProposal(h) ==
    /\ proposeRow[h] # {}
    /\ regStatus' = [x \in Orders |-> IF x \in proposeRow[h] THEN Registered ELSE regStatus[x]]
    /\ orderStatus' = [x \in Orders |-> IF Acct(x) = Acct(h) /\ Exists(x) THEN "closed" ELSE orderStatus[x]]
    /\ hedgeStatus' = [o \in SelfOrders |-> IF o \in proposeRow[h] /\ hedgeStatus[o] = "Default"
                                            THEN "Sending" ELSE hedgeStatus[o]]
    /\ refund' = [p \in Pays |-> \/ refund[p]
                                 \/ /\ payRow[p] # "none" /\ AccountOf[OrderOf[p]] = Acct(h)
                                    /\ OrderOf[p] \notin OkOrders(h)]
    /\ UNCHANGED <<payStatus, preStatus, applyRow, preRow, proposeRow>>

Handle(e) ==
    \/ e[1] = "apply"   /\ ActionApplyRegister(e[2])
    \/ e[1] = "pre"     /\ ActionPreRegister(e[2])
    \/ e[1] = "propose" /\ ActionPropose(e[2])
    \/ e[1] = "confirm" /\ ActionConfirmProposal(e[2])

\* Unless something is late, txtool has written the row of a transaction
\* before the block with it is old enough (ConfirmNum) to be handled.
InTime(e) == "late" \in Faults \/ e # <<job, sent>>

ParseBlock ==
    /\ blocks # <<>> /\ InTime(Head(blocks))
    /\ Handle(Head(blocks))
    /\ blocks' = Tail(blocks) \/ ("replay" \in Faults /\ blocks' = blocks)
    /\ UNCHANGED <<placing, old, payRow, applyTx, preTx, spends, toolVars, unrefund>>

-----------------------------------------------------------------------------
(* Timers.                                                                 *)

\* Broken: without register_status in the WHERE clause of DoExpiredOrder.
CheckExpiredAnyStatus(o) ==
    /\ Open(o)
    /\ Close(o)
    /\ UNCHANGED <<placing, payStatus, preStatus, hedgeStatus, regStatus, old,
                   payVars, rowVars, chainVars, toolVars, unrefund>>

\* checkExpired: GetNeedExpiredOrders, GetNeedExpiredOrders2, DoExpiredOrder.
CheckExpired(o) ==
    /\ Open(o) /\ regStatus[o] \in {RegDefault, ConfirmPayment}
    /\ Close(o)
    /\ UNCHANGED <<placing, payStatus, preStatus, hedgeStatus, regStatus, old,
                   payVars, rowVars, chainVars, toolVars, unrefund>>

\* doTxRejected, UpdateRejectedTx.  For apply_register the UPDATE of the
\* orders table is not valid SQL, so the transaction is rolled back.
DoTxRejectedApply(h) ==
    /\ applyRow[h] = "Default" /\ applyTx[h] = "rejected"
    /\ UNCHANGED vars

\* Broken: a transaction still in the pool is taken for a rejected one.
DoTxRejectedPreTooEarly(h) ==
    LET o == h[1] IN
    /\ preRow[h] = "Default" /\ preTx[h] \in {"pool", "rejected"}
    /\ preRow' = [k \in Own |-> IF k[1] = o /\ preRow[k] = "Default" THEN "Rejected" ELSE preRow[k]]
    /\ preStatus' = IF Open(o) THEN CAS(preStatus, o, "Ok", "Sending") ELSE preStatus
    /\ UNCHANGED <<placing, orderStatus, payStatus, hedgeStatus, regStatus, old, payVars,
                   applyRow, proposeRow, chainVars, toolVars, unrefund>>

\* Broken: without status=Default the confirmed apply row is rejected, too.
DoTxRejectedPreAllRows(h) ==
    LET o == h[1] IN
    /\ preRow[h] = "Default" /\ preTx[h] = "rejected"
    /\ preRow' = [k \in Own |-> IF k[1] = o /\ preRow[k] # "none" THEN "Rejected" ELSE preRow[k]]
    /\ applyRow' = [k \in Own |-> IF k[1] = o /\ applyRow[k] # "none" THEN "Rejected" ELSE applyRow[k]]
    /\ preStatus' = IF Open(o) THEN CAS(preStatus, o, "Ok", "Sending") ELSE preStatus
    /\ UNCHANGED <<placing, orderStatus, payStatus, hedgeStatus, regStatus, old, payVars,
                   proposeRow, chainVars, toolVars, unrefund>>

DoTxRejectedPre(h) ==
    LET o == h[1] IN
    /\ preRow[h] = "Default" /\ preTx[h] = "rejected"
    /\ preRow' = [k \in Own |-> IF k[1] = o /\ preRow[k] = "Default" THEN "Rejected" ELSE preRow[k]]
    /\ applyRow' = [k \in Own |-> IF k[1] = o /\ applyRow[k] = "Default" THEN "Rejected" ELSE applyRow[k]]
    /\ preStatus' = IF Open(o) THEN CAS(preStatus, o, "Ok", "Sending") ELSE preStatus
    /\ UNCHANGED <<placing, orderStatus, payStatus, hedgeStatus, regStatus, old, payVars,
                   proposeRow, chainVars, toolVars, unrefund>>

\* Broken: an order whose apply cell was confirmed is not looked at.
ClosedAndUnRefundEarly ==
    {o \in SelfOrders : /\ orderStatus[o] = "closed" /\ regStatus[o] < PreRegister
                        /\ \E p \in Pays : OrderOf[p] = o /\ payRow[p] = "Confirm" /\ ~refund[p]}

\* GetClosedAndUnRefundOrders.
ClosedAndUnRefund ==
    {o \in SelfOrders : /\ orderStatus[o] = "closed" /\ regStatus[o] < Proposal
                        /\ \E p \in Pays : OrderOf[p] = o /\ payRow[p] = "Confirm" /\ ~refund[p]}

DoCheckClosedAndUnRefund ==
    /\ unrefund = {} /\ ClosedAndUnRefund # {}
    /\ unrefund' = ClosedAndUnRefund
    /\ UNCHANGED <<placing, orderVars, payVars, rowVars, chainVars, toolVars>>

UpdatePayToRefund(o) ==
    /\ o \in unrefund
    /\ unrefund' = unrefund \ {o}
    /\ refund' = [p \in Pays |-> refund[p] \/ (OrderOf[p] = o /\ payRow[p] = "Confirm")]
    /\ UNCHANGED <<placing, orderVars, payRow, rowVars, chainVars, toolVars>>

\* doOrderHedge marks the order before it calls the hedge service.
DoOrderHedge(o) ==
    /\ hedgeStatus[o] = "Sending"
    /\ hedgeStatus' = [hedgeStatus EXCEPT ![o] = "Ok"]
    /\ UNCHANGED <<placing, orderStatus, payStatus, preStatus, regStatus, old,
                   payVars, rowVars, chainVars, toolVars, unrefund>>

\* Thirty days pass.
Age ==
    /\ "age" \in Faults
    /\ old' = {x \in Orders : Exists(x)} /\ old' # old
    /\ UNCHANGED <<placing, orderStatus, payStatus, preStatus, hedgeStatus, regStatus,
                   payVars, rowVars, chainVars, toolVars, unrefund>>

-----------------------------------------------------------------------------
HttpNext ==
    \/ \E o \in SelfOrders : CheckOrder(o) \/ CreateOrder(o)
    \/ \E p \in Pays : OrderPayHash(p) \/ DoPaymentConfirm(p)

TxToolNext ==
    \/ DoOrderApplyTxList \/ DoOrderPreRegisterTxList
    \/ \E o \in SelfOrders : \/ DoOrderApplyTx(o) \/ SendApplyTx(o) \/ RecordApplyTx(o)
                             \/ DoOrderPreRegisterTx(o) \/ SendPreTx(o) \/ RecordPreTx(o)

ChainNext ==
    \/ \E h \in Own : \/ CommitApply(h) \/ RejectApply(h)
                      \/ CommitPre(h) \/ RejectPre(h) \/ DoRecycleApply(h)
    \/ \E h \in OtherPres : OtherPre(h)
    \/ \E h \in PreTxs : Propose(h) \/ Confirm(h) \/ DoRecyclePre(h)

TimerNext ==
    \/ \E o \in SelfOrders : CheckExpired(o) \/ UpdatePayToRefund(o) \/ DoOrderHedge(o)
    \/ \E h \in Own : DoTxRejectedApply(h) \/ DoTxRejectedPre(h)
    \/ DoCheckClosedAndUnRefund

Next == HttpNext \/ TxToolNext \/ ChainNext \/ ParseBlock \/ TimerNext \/ Crash \/ Age

Spec == Init /\ [][Next]_vars

\* txtool's select picks among the tickers that are due, so each list is
\* served again and again (SF); errors of the node and the database are
\* transient: an order listed over and over is at last served without one.
TxToolFairness ==
    /\ SF_vars(DoOrderApplyTxList) /\ SF_vars(DoOrderPreRegisterTxList)
    /\ \A o \in SelfOrders :
         /\ SF_vars(DoOrderApplyTx(o) /\ (CloseForRefund(o) \/ MarkApply(o)))
         /\ SF_vars(SendApplyTx(o) /\ sent' # NoSend) /\ WF_vars(RecordApplyTx(o))
         /\ SF_vars(DoOrderPreRegisterTx(o) /\ <<orderStatus, preStatus>>' # <<orderStatus, preStatus>>)
         /\ SF_vars(SendPreTx(o) /\ <<orderStatus, sent>>' # <<orderStatus, sent>>) /\ WF_vars(RecordPreTx(o))
         /\ WF_vars(DoOrderApplyTx(o)) /\ WF_vars(SendApplyTx(o))
         /\ WF_vars(DoOrderPreRegisterTx(o)) /\ WF_vars(SendPreTx(o))

\* The node commits or rejects what is in its pool and the keepers go on.
ChainFairness ==
    /\ \A h \in Own : /\ WF_vars(CommitApply(h) \/ RejectApply(h))
                      /\ WF_vars(CommitPre(h) \/ RejectPre(h))
    /\ \A h \in PreTxs : WF_vars(Propose(h)) /\ WF_vars(Confirm(h))

\* The loops of block_parser and of the timers.
LoopFairness ==
    /\ WF_vars(ParseBlock /\ blocks' # blocks)
    /\ WF_vars(DoCheckClosedAndUnRefund)
    /\ \A o \in SelfOrders : WF_vars(UpdatePayToRefund(o))
    /\ \A h \in Own : WF_vars(DoTxRejectedPre(h))

LiveSpec == Spec /\ TxToolFairness /\ ChainFairness /\ LoopFairness

-----------------------------------------------------------------------------
(* Properties.                                                             *)

\* The columns, the transactions on chain and txtool's list keep their types:
\* no UPDATE writes a status of another column.
TypeOK ==
    /\ placing \subseteq SelfOrders /\ todo \subseteq SelfOrders /\ unrefund \subseteq SelfOrders
    /\ old \subseteq Orders
    /\ orderStatus \in [Orders -> {"none", "open", "closed"}]
    /\ payStatus \in [SelfOrders -> TxStatus]
    /\ preStatus \in [SelfOrders -> TxStatus]
    /\ hedgeStatus \in [SelfOrders -> TxStatus]
    /\ regStatus \in [Orders -> 0..6]
    /\ payRow \in [Pays -> RowStatus]
    /\ refund \in [Pays -> BOOLEAN]
    /\ applyRow \in [Own -> RowStatus] /\ preRow \in [Own -> RowStatus]
    /\ proposeRow \in [PreTxs -> SUBSET Orders]
    /\ applyTx \in [Own -> {"none", "pool", "rejected", "live", "dead"}]
    /\ preTx \in [PreTxs -> {"none", "pool", "rejected", "live", "dead", "proposed", "confirmed"}]
    /\ spends \in [Own -> 0..MaxSend]
    /\ blocks \in Seq(Events)
    /\ job \in {"idle", "apply", "pre"}
    /\ sending \in (SelfOrders \X (0..MaxSend)) \cup {NoSend}
    /\ sent \in Own \cup {NoSend}

\* The order block_parser made of a transaction of ours, granted together with
\* the order it was sent for: the row was written after the block was handled,
\* and both orders have a row of the transaction.
Twin(x) == x \in Own /\ regStatus[x[1]] = Registered

\* The promise of module Settlement is kept: one order of an account is
\* granted it, and no payment of that order is returned, before or after.
Promise == INSTANCE Settlement
    WITH granted  <- {x \in Orders : regStatus[x] = Registered /\ ~Twin(x)},
         taken    <- {p \in Pays : payRow[p] # "none"},
         returned <- {p \in Pays : refund[p]}
PromiseKept == Promise!Spec

\* A customer is not both served and paid back: once a pre_register
\* transaction that txtool recorded, and recorded before block_parser took it
\* for a foreign one, wins the account on chain, no payment of its order is
\* ever marked for refund.
ServedNotRefunded ==
    \A h \in Own : preTx[h] = "confirmed" /\ preRow[h] # "none" /\ ~Exists(h)
                      => \A p \in Pays : OrderOf[p] = h[1] => ~refund[p]

\* At most one order of an account is Registered, whichever orders, blocks
\* and replays competed for it; only when the row of a pre_register was written
\* too late are there two, and both are of that transaction.
OneRegistered ==
    \A x, y \in Orders :
        regStatus[x] = Registered /\ regStatus[y] = Registered /\ Acct(x) = Acct(y) /\ x # y
            => \E h \in Own : "late" \in Faults /\ preTx[h] = "confirmed" /\ {x, y} = {h, h[1]}

\* A self order that got as far as its pre-account cell is only closed by the
\* confirmation of its account: a closed order in Proposal or ConfirmProposal
\* would be refunded by nobody (doCheckClosedAndUnRefund asks for less).  It
\* does not hold when the parser replays the block of an apply transaction
\* after its cell was recycled, or spent by a transaction whose answer was
\* lost: the order applies again while its pre_register goes on, and then
\* meets itself as a pre-registered order.
NoLimbo ==
    \A o \in SelfOrders : orderStatus[o] = "closed" /\ regStatus[o] \in {Proposal, ConfirmProposal}
                             => OnChain(AccountOf[o])

\* A closed order that is not Registered never becomes Registered.  The timer
\* DoResetCoupon gives the gift card of such an order back, on columns it read
\* earlier, and doCheckClosedAndUnRefund the payment: it would be too soon.
\* Not with such replays of apply transactions either, as for NoLimbo.
ClosedIsFinal ==
    [][\A o \in SelfOrders : (orderStatus[o] = "closed" /\ regStatus[o] # Registered)
                                 => regStatus'[o] # Registered]_vars

\* block_parser never meets a proposal none of whose orders it knows, so the
\* handlers never hand gorm an empty list and never halt the parser.
ParserNeverHalts ==
    blocks # <<>> => LET e == Head(blocks) IN
        /\ e[1] = "propose" => PreOrders(e[2]) # {}
        /\ e[1] = "confirm" => proposeRow[e[2]] # {}

\* The error "order apply register tx is nil" of DoOrderPreRegisterTx, which
\* aborts the whole batch, never happens.
PreHasApply ==
    \A o \in SelfOrders : preStatus[o] = "Sending"
                             => \E h \in Own : h[1] = o /\ applyRow[h] = "Confirm"

\* Money does not get stuck: whatever competes with its order, a payment that
\* is confirmed while its order is open, or was closed before it had a
\* pre-account cell, ends in a registered account or is marked for refund.
PaidIsSettled ==
    \A p \in Pays : LET o == OrderOf[p] IN
        payRow[p] = "Confirm" /\ (Open(o) \/ regStatus[o] < Proposal) ~> (regStatus[o] = Registered \/ refund[p])

\* register_status never goes back, whatever is replayed or paid late.
RegMonotone == [][\A x \in Orders : regStatus'[x] >= regStatus[x]]_vars

=============================================================================
