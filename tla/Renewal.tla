------------------------------ MODULE Renewal ------------------------------
(***************************************************************************)
(* Orders that change an existing account: renewals, which txtool builds   *)
(* and sends, and did-cell orders, whose transaction the customer signed   *)
(* when placing the order and Redis keeps for a day.                       *)
(*                                                                         *)
(* All of them spend the current cell of the account.  The database follows *)
(* the chain with a delay, so a transaction may be built on a cell that is *)
(* spent when it is sent.  block_parser closes a renewal with three        *)
(* separate updates.  Orders for a registration are here as far as they    *)
(* share the expiry and the refund of late payments; module Registration   *)
(* has the rest of their life.                                             *)
(***************************************************************************)
EXTENDS Naturals, FiniteSets

CONSTANTS
    RenewOrders,    \* renew_account, paid by the customer
    InternalOrders, \* renew_account, over the internal API
    DidRenewals,    \* renew_account of an upgraded account (is_did_cell)
    DidTransfers,   \* transfer_account to a did cell (is_did_cell)
    RegisterOrders, \* apply_register
    Accounts, AccountOf,
    Pays, OrderOf,  \* payments and the orders they are for
    Limit,          \* length of the lists of txtool
    MaxSend,        \* bound: transactions the node accepts for one order
    MaxCell,        \* bound: foreign transactions end at this cell
    Faults          \* what may fail in this instance

DidOrders == DidRenewals \cup DidTransfers
TxtoolOrders == RenewOrders \cup InternalOrders
Orders == TxtoolOrders \cup DidOrders \cup RegisterOrders
Txs == Orders \X (1..MaxSend)

AllFaults == {"crash", "error", "undone", "lost", "unrecorded", "reject",
              "replay", "other", "cross", "unsigned"}

ASSUME RenewalAssumption ==
    /\ RenewOrders \cap (InternalOrders \cup DidOrders) = {}
    /\ InternalOrders \cap DidOrders = {} /\ DidRenewals \cap DidTransfers = {}
    /\ RegisterOrders \cap (TxtoolOrders \cup DidOrders) = {}
    /\ AccountOf \in [Orders -> Accounts]
    /\ OrderOf \in [Pays -> Orders \ InternalOrders]
    /\ IsFiniteSet(Orders)
    /\ Limit \in Nat /\ MaxSend \in Nat /\ MaxCell \in Nat
    /\ Faults \subseteq AllFaults

VARIABLES
    id,             \* id of the row, 0 without a row
    orderStatus, payStatus, regStatus, hedgeStatus,
    paid, refund,   \* confirmed payments; payments marked for refund
    cache,          \* the signed transaction of a did-cell order in Redis
    built,          \* the cell a transaction of the order was built on
    row,            \* rows of t_das_order_tx_info
    foreign,        \* rows that belong to an OrderTypeOther order
    todo, sending,  \* of the two goroutines of txtool: list, marked order
    cell, seen,     \* the current cell of an account on chain, in the database
    cross,          \* accounts on cross
    pool, sent,     \* transactions the node holds; how many it took
    committed, blocks, \* on chain; not handled by block_parser yet
    parsing         \* block_parser: transaction and steps done

orderVars == <<id, orderStatus, payStatus, regStatus, hedgeStatus>>
rowVars   == <<row, foreign>>
payVars   == <<paid, refund>>
didVars   == <<cache, built>>
toolVars  == <<todo, sending>>
chainVars == <<cell, seen, cross, pool, sent, committed>>
parseVars == <<blocks, parsing>>
vars == <<orderVars, payVars, didVars, rowVars, toolVars, chainVars, parseVars>>

Loops == {"renew", "did"}
Acct(o) == AccountOf[o]
PaidFor(o) == {p \in paid : OrderOf[p] = o}

Init ==
    /\ id = [o \in Orders |-> 0]
    /\ orderStatus = [o \in Orders |-> "none"]
    /\ payStatus = [o \in Orders |-> "Default"]
    /\ regStatus = [o \in Orders |-> "Default"]
    /\ hedgeStatus = [o \in Orders |-> "Default"]
    /\ paid = {} /\ refund = {}
    /\ cache = [o \in Orders |-> "none"]
    /\ built = [o \in Orders |-> 0]
    /\ row = [t \in Txs |-> "none"] /\ foreign = {}
    /\ todo = [l \in Loops |-> {}] /\ sending = [l \in Loops |-> {}]
    /\ cell = [a \in Accounts |-> 0] /\ seen = [a \in Accounts |-> 0]
    /\ cross = {}
    /\ pool = [a \in Accounts |-> {}] /\ sent = [o \in Orders |-> 0]
    /\ committed = {} /\ blocks = {} /\ parsing = <<>>

-----------------------------------------------------------------------------
(* HTTP and UniPay.                                                        *)

\* The row of a new order.
CreateOrder(o, pay, reg) ==
    /\ orderStatus[o] = "none"
    /\ id' = [id EXCEPT ![o] = 1 + Cardinality({q \in Orders : orderStatus[q] # "none"})]
    /\ orderStatus' = [orderStatus EXCEPT ![o] = "open"]
    /\ payStatus' = [payStatus EXCEPT ![o] = pay]
    /\ regStatus' = [regStatus EXCEPT ![o] = reg]
    /\ UNCHANGED <<hedgeStatus, payVars, rowVars, toolVars, chainVars, parseVars>>

CheckRenewOrder(o) == Acct(o) \notin cross

DoRenewOrder(o) ==
    /\ o \in RenewOrders /\ CheckRenewOrder(o)
    /\ CreateOrder(o, "Default", "Default") /\ UNCHANGED didVars

DoInternalRenewOrder(o) ==
    /\ o \in InternalOrders /\ Acct(o) \notin cross
    /\ CreateOrder(o, "Sending", "ConfirmPayment") /\ UNCHANGED didVars

\* The transaction of a did-cell order is built on the cell the database knows.
CreateDidCellOrder(o) ==
    /\ built' = [built EXCEPT ![o] = seen[Acct(o)]]
    /\ CreateOrder(o, "Default", "Default") /\ UNCHANGED cache

DoDidCellRenew(o) ==
    /\ o \in DidRenewals /\ Acct(o) \notin cross
    /\ CreateDidCellOrder(o)

\* Only a transfer of an account cell to a did cell costs and has an order.
DoDidCellEditOwner(o) ==
    /\ o \in DidTransfers /\ Acct(o) \notin cross
    /\ CreateDidCellOrder(o)

DoRegisterOrder(o) ==
    /\ o \in RegisterOrders
    /\ CreateOrder(o, "Default", "ConfirmPayment") /\ UNCHANGED didVars

\* TransactionSend of a did-cell order: the signed transaction goes to Redis.
TransactionSend(o) ==
    /\ o \in DidOrders /\ orderStatus[o] # "none" /\ cache[o] = "none"
    /\ cache' = [cache EXCEPT ![o] = "signed"]
    /\ UNCHANGED <<orderVars, payVars, built, rowVars, toolVars, chainVars, parseVars>>

\* The sign key lives ten minutes, the signed transaction a day.
CacheExpires(o) ==
    /\ "unsigned" \in Faults /\ o \in DidOrders
    /\ orderStatus[o] # "none" /\ cache[o] # "gone"
    /\ cache' = [cache EXCEPT ![o] = "gone"]
    /\ UNCHANGED <<orderVars, payVars, built, rowVars, toolVars, chainVars, parseVars>>

\* Broken: pay_status is given a value of register_status.
UpdatePaymentWrongColumn(p) ==
    LET o == OrderOf[p] IN
    /\ orderStatus[o] # "none" /\ p \notin paid
    /\ paid' = paid \cup {p}
    /\ payStatus' = IF payStatus[o] = "Default" THEN [payStatus EXCEPT ![o] = "ApplyRegister"] ELSE payStatus
    /\ UNCHANGED <<id, orderStatus, regStatus, hedgeStatus, refund, didVars, rowVars, toolVars, chainVars, parseVars>>

\* Broken: register_status is left alone.
UpdatePaymentPayStatusOnly(p) ==
    LET o == OrderOf[p] IN
    /\ orderStatus[o] # "none" /\ p \notin paid
    /\ o \in DidOrders /\ "unsigned" \notin Faults => cache[o] = "signed"
    /\ paid' = paid \cup {p}
    /\ payStatus' = IF payStatus[o] = "Default" THEN [payStatus EXCEPT ![o] = "Sending"] ELSE payStatus
    /\ UNCHANGED <<id, orderStatus, regStatus, hedgeStatus, refund, didVars, rowVars, toolVars, chainVars, parseVars>>

\* A payment is confirmed.  Without "unsigned" customers sign before they pay.
UpdatePayment(p) ==
    LET o == OrderOf[p] IN
    /\ orderStatus[o] # "none" /\ p \notin paid
    /\ o \in DidOrders /\ "unsigned" \notin Faults => cache[o] = "signed"
    /\ paid' = paid \cup {p}
    /\ IF payStatus[o] = "Default"
       THEN /\ payStatus' = [payStatus EXCEPT ![o] = "Sending"]
            /\ regStatus' = [regStatus EXCEPT ![o] = "ApplyRegister"]
       ELSE UNCHANGED <<payStatus, regStatus>>
    /\ UNCHANGED <<id, orderStatus, hedgeStatus, refund, didVars, rowVars, toolVars, chainVars, parseVars>>

-----------------------------------------------------------------------------
(* txtool: doOrderRenewTx and doDidCellTx, a goroutine each.               *)

Close(o) == orderStatus' = IF orderStatus[o] = "open" THEN [orderStatus EXCEPT ![o] = "closed"] ELSE orderStatus
UpdatePayStatus(o, old, new) ==
    payStatus' = IF payStatus[o] = old THEN [payStatus EXCEPT ![o] = new] ELSE payStatus

\* GetNeedSendPayOrderList, GetNeedSendDidCellOrderList without their LIMIT.
LoopOrders(l) == IF l = "renew" THEN TxtoolOrders ELSE DidOrders
NeedSend(l) == {o \in LoopOrders(l) : payStatus[o] = "Sending" /\ orderStatus[o] = "open"}

List(l) ==
    /\ todo[l] = {} /\ sending[l] = {} /\ NeedSend(l) # {}
    /\ todo' = [todo EXCEPT ![l] = {o \in NeedSend(l) :
                    Cardinality({q \in NeedSend(l) : id[q] < id[o]}) < Limit}]
    /\ UNCHANGED <<orderVars, payVars, didVars, rowVars, sending, chainVars, parseVars>>

Head(l, o) == sending[l] = {} /\ o \in todo[l] /\ \A q \in todo[l] : id[o] <= id[q]
Served(l, o) == todo' = [todo EXCEPT ![l] = todo[l] \ {o}]
Abort(l) == todo' = [todo EXCEPT ![l] = {}]

\* A query, the build or the mark fails: the batch is given up.
BatchFails(l) ==
    /\ "error" \in Faults /\ todo[l] # {} /\ sending[l] = {}
    /\ Abort(l)
    /\ UNCHANGED <<orderVars, payVars, didVars, rowVars, sending, chainVars, parseVars>>

OrderOnCross(o) ==
    /\ Head("renew", o) /\ Acct(o) \in cross
    /\ Close(o) /\ Served("renew", o)
    /\ UNCHANGED <<id, payStatus, regStatus, hedgeStatus, payVars, didVars, rowVars, sending, chainVars, parseVars>>

\* Broken: the order is not marked before the transaction is sent.
DoOrderRenewTxUnmarked(o) ==
    /\ Head("renew", o) /\ Acct(o) \notin cross /\ sent[o] < MaxSend
    /\ built' = [built EXCEPT ![o] = seen[Acct(o)]]
    /\ sending' = [sending EXCEPT !["renew"] = {o}]
    /\ UNCHANGED <<orderVars, payVars, cache, rowVars, todo, chainVars, parseVars>>

\* The transaction is built on the cell the database knows, then the order is
\* marked; the mark looks neither at order_status nor at RowsAffected.
DoOrderRenewTx(o) ==
    /\ Head("renew", o) /\ Acct(o) \notin cross /\ sent[o] < MaxSend
    /\ built' = [built EXCEPT ![o] = seen[Acct(o)]]
    /\ UpdatePayStatus(o, "Sending", "Ok")
    /\ sending' = [sending EXCEPT !["renew"] = {o}]
    /\ UNCHANGED <<id, orderStatus, regStatus, hedgeStatus, payVars, cache, rowVars, todo, chainVars, parseVars>>

\* Without the cached transaction the whole batch is given up.
DidCellNoCache(o) ==
    /\ Head("did", o) /\ cache[o] # "signed"
    /\ Abort("did")
    /\ UNCHANGED <<orderVars, payVars, didVars, rowVars, sending, chainVars, parseVars>>

\* Broken: the order is not marked before the transaction is sent.
DoDidCellTxUnmarked(o) ==
    /\ Head("did", o) /\ cache[o] = "signed" /\ sent[o] < MaxSend
    /\ sending' = [sending EXCEPT !["did"] = {o}]
    /\ UNCHANGED <<orderVars, payVars, didVars, rowVars, todo, chainVars, parseVars>>

DoDidCellTx(o) ==
    /\ Head("did", o) /\ cache[o] = "signed" /\ sent[o] < MaxSend
    /\ UpdatePayStatus(o, "Sending", "Ok")
    /\ sending' = [sending EXCEPT !["did"] = {o}]
    /\ UNCHANGED <<id, orderStatus, regStatus, hedgeStatus, payVars, didVars, rowVars, todo, chainVars, parseVars>>

\* The node takes a transaction that spends the current cell (external).
Spendable(o) == built[o] = cell[Acct(o)] /\ pool[Acct(o)] = {}
NodeTakes(o) ==
    /\ Spendable(o)
    /\ sent' = [sent EXCEPT ![o] = sent[o] + 1]
    /\ pool' = [pool EXCEPT ![Acct(o)] = {<<o, sent[o] + 1>>}]
    /\ UNCHANGED <<cell, seen, cross, committed>>

\* Broken: the order is handed to hedging when its transaction is sent.
SentHedges(l, o) ==
    /\ o \in sending[l] /\ NodeTakes(o)
    /\ row' = [row EXCEPT ![<<o, sent[o] + 1>>] = "Default"]
    /\ hedgeStatus' = [hedgeStatus EXCEPT ![o] = "Sending"]
    /\ Served(l, o) /\ sending' = [sending EXCEPT ![l] = {}]
    /\ UNCHANGED <<id, orderStatus, payStatus, regStatus, payVars, didVars, foreign, parseVars>>

\* SendTransaction and CreateOrderTx, whose error is only logged.
Sent(l, o) ==
    /\ o \in sending[l] /\ NodeTakes(o)
    /\ \/ row' = [row EXCEPT ![<<o, sent[o] + 1>>] = "Default"]
       \/ "unrecorded" \in Faults /\ UNCHANGED row
    /\ Served(l, o) /\ sending' = [sending EXCEPT ![l] = {}]
    /\ UNCHANGED <<orderVars, payVars, didVars, foreign, parseVars>>

\* The node refuses, or cannot be reached, or only its answer is lost.
SendError(o) ==
    \/ ~Spendable(o) /\ UNCHANGED chainVars
    \/ "error" \in Faults /\ UNCHANGED chainVars
    \/ "lost" \in Faults /\ NodeTakes(o)

\* Broken: the mark stays although nothing was sent.
RenewSendFailsKeepsMark(o) ==
    /\ o \in sending["renew"] /\ SendError(o)
    /\ Abort("renew") /\ sending' = [sending EXCEPT !["renew"] = {}]
    /\ UNCHANGED <<orderVars, payVars, didVars, rowVars, parseVars>>

\* The mark is taken back, if that succeeds.
RenewSendFails(o) ==
    /\ o \in sending["renew"] /\ SendError(o)
    /\ UpdatePayStatus(o, "Ok", "Sending") \/ ("undone" \in Faults /\ UNCHANGED payStatus)
    /\ Abort("renew") /\ sending' = [sending EXCEPT !["renew"] = {}]
    /\ UNCHANGED <<id, orderStatus, regStatus, hedgeStatus, payVars, didVars, rowVars, parseVars>>

\* UpdateDidCellOrderToRefund, if that succeeds.
DidCellSendFails(o) ==
    /\ o \in sending["did"] /\ SendError(o)
    /\ \/ Close(o) /\ refund' = refund \cup PaidFor(o)
       \/ "undone" \in Faults /\ UNCHANGED <<orderStatus, refund>>
    /\ Abort("did") /\ sending' = [sending EXCEPT !["did"] = {}]
    /\ UNCHANGED <<id, payStatus, regStatus, hedgeStatus, paid, didVars, rowVars, parseVars>>

-----------------------------------------------------------------------------
(* The chain (external) and the database that follows it.                  *)

Commit(t) ==
    LET a == Acct(t[1]) IN
    /\ t \in pool[a]
    /\ pool' = [pool EXCEPT ![a] = {}]
    /\ cell' = [cell EXCEPT ![a] = cell[a] + 1]
    /\ committed' = committed \cup {t} /\ blocks' = blocks \cup {t}
    /\ UNCHANGED <<orderVars, payVars, didVars, rowVars, toolVars, seen, cross, sent, parsing>>

Reject(t) ==
    LET a == Acct(t[1]) IN
    /\ "reject" \in Faults /\ t \in pool[a]
    /\ pool' = [pool EXCEPT ![a] = {}]
    /\ UNCHANGED <<orderVars, payVars, didVars, rowVars, toolVars, cell, seen, cross, sent, committed, parseVars>>

\* Another transaction spends the cell of the account.
OtherTx(a) ==
    /\ "other" \in Faults /\ cell[a] < MaxCell /\ pool[a] = {}
    /\ cell' = [cell EXCEPT ![a] = cell[a] + 1]
    /\ UNCHANGED <<orderVars, payVars, didVars, rowVars, toolVars, seen, cross, pool, sent, committed, parseVars>>

\* t_account_info is brought up to date.
SyncAccount(a) ==
    /\ seen[a] # cell[a]
    /\ seen' = [seen EXCEPT ![a] = cell[a]]
    /\ UNCHANGED <<orderVars, payVars, didVars, rowVars, toolVars, cell, cross, pool, sent, committed, parseVars>>

OnCross(a) ==
    /\ "cross" \in Faults /\ a \in {Acct(o) : o \in Orders \ RegisterOrders} \ cross
    /\ cross' = cross \cup {a}
    /\ UNCHANGED <<orderVars, payVars, didVars, rowVars, toolVars, cell, seen, pool, sent, committed, parseVars>>

-----------------------------------------------------------------------------
(* block_parser.  The updates of DoActionRenewAccount are steps of their   *)
(* own: two of them bypass its database transaction.                       *)

Parsed(t) == parsing' = <<>> /\ (blocks' = blocks \ {t} \/ ("replay" \in Faults /\ UNCHANGED blocks))

\* ActionTransferAccount knows nothing of orders.
ActionTransferAccount(t) ==
    /\ parsing = <<>> /\ t \in blocks /\ t[1] \in DidTransfers
    /\ Parsed(t)
    /\ UNCHANGED <<orderVars, payVars, didVars, rowVars, toolVars, chainVars>>

\* A renewal without a row becomes the OrderTypeOther order of somebody else.
ActionRenewUnknown(t) ==
    /\ parsing = <<>> /\ t \in blocks /\ t[1] \notin DidTransfers
    /\ row[t] = "none" \/ t \in foreign
    /\ row' = [row EXCEPT ![t] = "Confirm"] /\ foreign' = foreign \cup {t}
    /\ Parsed(t)
    /\ UNCHANGED <<orderVars, payVars, didVars, toolVars, chainVars>>

RenewClose(t) ==
    /\ parsing = <<>> /\ t \in blocks /\ t[1] \notin DidTransfers
    /\ row[t] # "none" /\ t \notin foreign
    /\ Close(t[1]) /\ parsing' = <<t, "hedge">>
    /\ UNCHANGED <<id, payStatus, regStatus, hedgeStatus, payVars, didVars, rowVars, toolVars, chainVars, blocks>>

RenewHedge(t) ==
    /\ parsing = <<t, "hedge">>
    /\ hedgeStatus' = IF hedgeStatus[t[1]] = "Default" THEN [hedgeStatus EXCEPT ![t[1]] = "Sending"] ELSE hedgeStatus
    /\ parsing' = <<t, "confirm">>
    /\ UNCHANGED <<id, orderStatus, payStatus, regStatus, payVars, didVars, rowVars, toolVars, chainVars, blocks>>

RenewConfirm(t) ==
    /\ parsing = <<t, "confirm">>
    /\ row' = [row EXCEPT ![t] = "Confirm"]
    /\ Parsed(t)
    /\ UNCHANGED <<orderVars, payVars, didVars, foreign, toolVars, chainVars>>

\* Broken: an error after the first updates counts the block as handled.
ParseFailsSkips(t) ==
    /\ "error" \in Faults /\ parsing # <<>> /\ parsing[1] = t
    /\ parsing' = <<>> /\ blocks' = blocks \ {t}
    /\ UNCHANGED <<orderVars, payVars, didVars, rowVars, toolVars, chainVars>>

\* An update fails: the block is tried again from its start.
ParseFails(t) ==
    /\ "error" \in Faults /\ parsing # <<>> /\ parsing[1] = t
    /\ parsing' = <<>>
    /\ UNCHANGED <<orderVars, payVars, didVars, rowVars, toolVars, chainVars, blocks>>

-----------------------------------------------------------------------------
(* Timers.                                                                 *)

\* checkExpired; its lists ask for a day without payment or for a week.
CheckExpired(o) ==
    /\ orderStatus[o] = "open" /\ regStatus[o] \in {"Default", "ConfirmPayment"}
    /\ Close(o)
    /\ UNCHANGED <<id, payStatus, regStatus, hedgeStatus, payVars, didVars, rowVars, toolVars, chainVars, parseVars>>

Dropped(t) == t[2] <= sent[t[1]] /\ t \notin committed /\ t \notin pool[Acct(t[1])]

\* doTxRejected.  For a renewal the second UPDATE of UpdateRejectedTx fails
\* and the first is rolled back.
DoTxRejected(t) ==
    /\ row[t] = "Default" /\ Dropped(t)
    /\ t[1] \in DidTransfers
    /\ row' = [u \in Txs |-> IF u[1] = t[1] /\ row[u] = "Default" THEN "Rejected" ELSE row[u]]
    /\ UNCHANGED <<orderVars, payVars, didVars, foreign, toolVars, chainVars, parseVars>>

\* GetClosedAndUnRefundOrders asks for apply_register.
ClosedAndUnRefund ==
    {o \in RegisterOrders : orderStatus[o] = "closed" /\ PaidFor(o) \ refund # {}}

DoCheckClosedAndUnRefund(o) ==
    /\ o \in ClosedAndUnRefund
    /\ refund' = refund \cup PaidFor(o)
    /\ UNCHANGED <<orderVars, paid, didVars, rowVars, toolVars, chainVars, parseVars>>

DoOrderHedge(o) ==
    /\ hedgeStatus[o] = "Sending"
    /\ hedgeStatus' = [hedgeStatus EXCEPT ![o] = "Ok"]
    /\ UNCHANGED <<id, orderStatus, payStatus, regStatus, payVars, didVars, rowVars, toolVars, chainVars, parseVars>>

Crash ==
    /\ "crash" \in Faults
    /\ todo' = [l \in Loops |-> {}] /\ sending' = [l \in Loops |-> {}] /\ parsing' = <<>>
    /\ <<todo, sending, parsing>>' # <<todo, sending, parsing>>
    /\ UNCHANGED <<orderVars, payVars, didVars, rowVars, chainVars, blocks>>

-----------------------------------------------------------------------------
HttpNext ==
    \/ \E o \in Orders : \/ DoRenewOrder(o) \/ DoInternalRenewOrder(o)
                         \/ DoDidCellRenew(o) \/ DoDidCellEditOwner(o)
                         \/ DoRegisterOrder(o)
                         \/ TransactionSend(o) \/ CacheExpires(o)
    \/ \E p \in Pays : UpdatePayment(p)
TxToolNext ==
    \/ \E l \in Loops : List(l) \/ BatchFails(l) \/ (\E o \in Orders : Sent(l, o))
    \/ \E o \in Orders : \/ OrderOnCross(o) \/ DoOrderRenewTx(o) \/ RenewSendFails(o)
                         \/ DidCellNoCache(o) \/ DoDidCellTx(o) \/ DidCellSendFails(o)
ChainNext ==
    \/ \E t \in Txs : Commit(t) \/ Reject(t)
    \/ \E a \in Accounts : OtherTx(a) \/ SyncAccount(a) \/ OnCross(a)
ParserNext ==
    \E t \in Txs : \/ ActionTransferAccount(t) \/ ActionRenewUnknown(t)
                   \/ RenewClose(t) \/ RenewHedge(t) \/ RenewConfirm(t) \/ ParseFails(t)
TimerNext ==
    \/ \E o \in Orders : CheckExpired(o) \/ DoCheckClosedAndUnRefund(o) \/ DoOrderHedge(o)
    \/ \E t \in Txs : DoTxRejected(t)

Next == HttpNext \/ TxToolNext \/ ChainNext \/ ParserNext \/ TimerNext \/ Crash

Spec == Init /\ [][Next]_vars

\* Goroutines, timers and block_parser run for ever and errors are transient;
\* the node commits what it took and the database follows (external).
LiveSpec ==
    /\ Spec
    /\ \A l \in Loops : WF_vars(List(l))
    /\ \A o \in Orders :
         /\ WF_vars(OrderOnCross(o)) /\ SF_vars(DoOrderRenewTx(o)) /\ SF_vars(DoDidCellTx(o))
         /\ SF_vars(Sent("renew", o)) /\ SF_vars(Sent("did", o))
         /\ WF_vars(RenewSendFails(o)) /\ WF_vars(DidCellSendFails(o))
         /\ WF_vars(DidCellNoCache(o)) /\ WF_vars(DoCheckClosedAndUnRefund(o))
    /\ \A t \in Txs : WF_vars(Commit(t))
    /\ \A a \in Accounts : WF_vars(SyncAccount(a))

-----------------------------------------------------------------------------
(* Properties.                                                             *)

\* Columns, lists, cells and transactions keep their types.
TypeOK ==
    /\ id \in [Orders -> Nat]
    /\ orderStatus \in [Orders -> {"none", "open", "closed"}]
    /\ payStatus \in [Orders -> {"Default", "Sending", "Ok"}]
    /\ regStatus \in [Orders -> {"Default", "ConfirmPayment", "ApplyRegister"}]
    /\ hedgeStatus \in [Orders -> {"Default", "Sending", "Ok"}]
    /\ paid \subseteq Pays /\ refund \subseteq Pays
    /\ cache \in [Orders -> {"none", "signed", "gone"}]
    /\ built \in [Orders -> Nat]
    /\ row \in [Txs -> {"none", "Default", "Confirm", "Rejected"}]
    /\ foreign \subseteq Txs
    /\ todo \in [Loops -> SUBSET Orders] /\ sending \in [Loops -> SUBSET Orders]
    /\ cell \in [Accounts -> Nat] /\ seen \in [Accounts -> Nat]
    /\ cross \subseteq Accounts
    /\ pool \in [Accounts -> SUBSET Txs] /\ sent \in [Orders -> 0..MaxSend]
    /\ committed \subseteq Txs /\ blocks \subseteq committed
    /\ parsing \in {<<>>} \cup (Txs \X {"hedge", "confirm"})

\* An account is changed at most once for an order: lists that are read again,
\* refused transactions, crashes and a database behind the chain do not make
\* txtool serve it twice.
ServedOnce ==
    \A o \in Orders : \A t, u \in committed : t[1] = o /\ u[1] = o => t = u

\* The payment of an order whose transaction is on its way or on chain is not
\* sent back, and nothing is sent for an order that was paid back.
ServedNotRefunded ==
    \A p \in refund : \A t \in committed \cup pool[Acct(OrderOf[p])] : t[1] # OrderOf[p]

\* Hedging starts only for what was really renewed.
HedgedIsServed == \A o \in Orders : hedgeStatus[o] # "Default" => \E t \in committed : t[1] = o

\* A customer's order that is closed is not sent afterwards: expiry, the
\* cross check and the refund leave alone what txtool has in its hands.
ClosedNotSent ==
    [][\A o \in Orders \ InternalOrders : sent'[o] # sent[o] => orderStatus[o] = "open"]_vars

\* What block_parser is done with is complete, although two updates are
\* outside the transaction: closed, handed to hedging, and confirmed.
HandledIsComplete ==
    \A t \in committed \ blocks : t[1] \notin DidTransfers =>
        /\ row[t] = "Confirm"
        /\ t \notin foreign => orderStatus[t[1]] = "closed" /\ hedgeStatus[t[1]] # "Default"

\* The payment of an open order ends in the change of the account or a refund,
\* unless the account leaves for another chain first.
PaidIsServed ==
    \A p \in Pays : (p \in paid /\ orderStatus[OrderOf[p]] = "open" /\ OrderOf[p] \notin RegisterOrders)
        ~> \/ \E t \in committed : t[1] = OrderOf[p]
           \/ p \in refund
           \/ Acct(OrderOf[p]) \in cross

\* What the query in the comment of doCheckClosedAndUnRefund looks for, a
\* closed renewal whose payment is confirmed and whose pay_status is Sending,
\* is refunded.
ClosedRenewalRefunded ==
    \A p \in Pays : (/\ p \in paid /\ OrderOf[p] \in RenewOrders
                     /\ orderStatus[OrderOf[p]] = "closed" /\ payStatus[OrderOf[p]] = "Sending")
        ~> p \in refund

=============================================================================
