-------------------------- MODULE SettlementProofs --------------------------
(***************************************************************************)
(* Theorems about what module Registration promises: that it implements    *)
(* Settlement, that nobody is served and paid back, that no order is       *)
(* closed where no timer looks and that a closed order stays lost.         *)
(***************************************************************************)
EXTENDS RegistrationProofs

\* The parser handles no block twice, or an order applies only once: no apply
\* cell is recycled and no answer of the node to a transaction is lost.
AppliesInTurn == "replay" \notin Faults \/ {"recycle", "lost"} \cap Faults = {}

Closed(o)    == orderStatus[o] = "closed"
Applying(o)  == job = "apply" /\ o \in todo
SendingOf(o) == sending # NoSend /\ sending[1] = o
SentOf(o)    == sent # NoSend /\ sent[1] = o
Marked(o)    == SendingOf(o) \/ SentOf(o)

\* txtool serves one batch: what it has marked it sends and records, and what
\* it has not yet marked is as it was listed.
BatchOK ==
    /\ job = "idle" => todo = {}
    /\ sending # NoSend => sending[1] \in todo /\ sent = NoSend
    /\ sent # NoSend => sent[1] \in todo
    /\ job = "apply" => \A o \in todo : payStatus[o] = IF Marked(o) THEN "Ok" ELSE "Sending"
    /\ job = "pre" => \A o \in todo : /\ preStatus[o] = IF Marked(o) THEN "Ok" ELSE "Sending"
                                      /\ Open(o) \/ OnChain(AccountOf[o])

\* A pre_register transaction that has its row, or awaits it, and may still win
\* its account, or whose failure the timer has not seen.  Transactions without
\* a row count as long as no answer of the node is lost.
Flying(h) ==
    /\ preRow[h] # "none" \/ AwaitsRow(h) \/ "lost" \notin Faults
    /\ preRow[h] = "Default" \/ AwaitsRow(h) \/ preTx[h] \notin {"none", "rejected"}

\* One at a time, and only after its order is marked.
OneFlight ==
    /\ \A h \in Own : Flying(h) => preStatus[h[1]] = "Ok" /\ ~(job = "pre" /\ SendingOf(h[1]))
    /\ \A h, k \in Own : Flying(h) /\ Flying(k) /\ h[1] = k[1] => h = k

InBlocks(e) == \E i \in 1..Len(blocks) : blocks[i] = e

\* A recorded apply_register transaction that the parser is still to handle;
\* with replays it may always handle it again.
Owed(h) ==
    /\ applyRow[h] # "none"
    /\ "replay" \in Faults \/ applyTx[h] = "pool" \/ InBlocks(<<"apply", h>>)

\* An order is applied for or pre-registered, never both.
OneStage ==
    /\ \A o \in SelfOrders : preStatus[o] # "Default"
          => payStatus[o] = "Ok" /\ ~Applying(o) /\ regStatus[o] >= PreRegister
    /\ \A h \in Own : Owed(h) => /\ payStatus[h[1]] = "Ok" /\ ~Applying(h[1])
                                 /\ "replay" \notin Faults => preStatus[h[1]] = "Default"
    /\ \A h, k \in Own : Owed(h) /\ Owed(k) /\ h[1] = k[1] => h = k

\* An apply transaction is committed once, and its cell is only spent.
ApplyOnce ==
    /\ \A i, j \in 1..Len(blocks) : blocks[i][1] = "apply" /\ blocks[i] = blocks[j] => i = j
    /\ \A i \in 1..Len(blocks) : blocks[i][1] = "apply" => applyTx[blocks[i][2]] \in {"live", "dead"}
    /\ \A h \in Own : applyRow[h] = "Confirm" => applyTx[h] \in {"live", "dead"}
    /\ "recycle" \notin Faults
          => \A h \in Own : applyTx[h] = "dead" => \E k \in Own : k[1] = h[1] /\ OnLedger(k)

Recorded(o, h) == h[1] = o /\ preRow[h] # "none"
Claims(o, h)   == h[1] = o /\ (preRow[h] # "none" \/ AwaitsRow(h))

\* The row came after the proposal: only the parser's own order is Registered.
Forfeited(h) == regStatus[h] = Registered /\ h[1] \notin proposeRow[h]

Won(o)      == \E h \in Own : Claims(o, h) /\ preTx[h] = "confirmed" /\ ~Forfeited(h)
Grounded(o) == \A h \in Own : Claims(o, h) => preTx[h] = "rejected"
Lost(o)     == ~Won(o) /\ (OnChain(AccountOf[o]) \/ Grounded(o))

\* The parser is done with the proposal of a transaction when it confirms it.
Sequenced ==
    /\ \A h \in Own : \A i, j \in 1..Len(blocks) :
          blocks[i] = <<"confirm", h>> /\ blocks[j] = <<"propose", h>> => j < i
    /\ \A h \in Own : regStatus[h] = Registered
          => ~InBlocks(<<"propose", h>>) /\ (h[1] \in proposeRow[h] => regStatus[h[1]] = Registered)

\* The columns follow the ledger.
Follows ==
    /\ \A o \in SelfOrders : regStatus[o] > PreRegister => \E h \in Own : Recorded(o, h) /\ OnLedger(h)
    /\ \A p \in Pays : payRow[p] # "none" => Exists(OrderOf[p])

\* An order is closed when it is Registered or cannot be any more, and only
\* payments of the latter go back.
ClosedIsOver ==
    /\ \A o \in SelfOrders : Closed(o) => regStatus[o] = Registered \/ Lost(o)
    /\ \A p \in Pays : refund[p] => Closed(OrderOf[p]) /\ regStatus[OrderOf[p]] # Registered
    /\ \A o \in unrefund : Closed(o) /\ regStatus[o] # Registered

SInv == BatchOK /\ OneFlight /\ OneStage /\ ApplyOnce /\ Sequenced /\ Follows /\ ClosedIsOver

-----------------------------------------------------------------------------
(* Facts about orders and their transactions.                              *)

LEMMA OwnFacts ==
    ASSUME NEW h \in Own
    PROVE  /\ h[1] \in SelfOrders /\ h[1] \in Orders /\ h \in PreTxs /\ h \in Orders
           /\ h \notin SelfOrders /\ Acct(h) = AccountOf[h[1]]
  <1>1. h[1] \in SelfOrders /\ h \in PreTxs
    BY DEF Own, PreTxs
  <1>2. h \notin SelfOrders /\ h \notin OtherPres
    BY <1>1, RegistrationAssumption DEF PreTxs
  <1> QED BY <1>1, <1>2 DEF Orders, Acct

LEMMA PayFacts == \A p \in Pays : OrderOf[p] \in SelfOrders /\ OrderOf[p] \in Orders
  BY RegistrationAssumption DEF Orders

LEMMA AcctFacts == \A o \in SelfOrders : Acct(o) = AccountOf[o] /\ o \notin PreTxs /\ o \in Orders
  BY RegistrationAssumption DEF Acct, Orders

LEMMA RegFacts == IInv => \A x \in Orders : regStatus[x] \in 0..6
  BY DEF IInv, TypeOK

\* The self order of a pre_register transaction is the one it was sent for.
LEMMA OwnPreOrder ==
    ASSUME NEW h \in PreTxs, NEW o \in SelfOrders, o \in PreOrders(h)
    PROVE  h \in Own /\ Recorded(o, h)
  BY AcctFacts DEF PreOrders, Recorded

\* What is Registered has won its account on chain.
LEMMA RegisteredWon ==
    ASSUME IInv, NEW o \in SelfOrders, regStatus[o] = Registered
    PROVE  \E h \in Own : Recorded(o, h) /\ preTx[h] = "confirmed" /\ o \in proposeRow[h]
  <1>1. PICK h \in PreTxs : preTx[h] = "confirmed" /\ o \in proposeRow[h]
    BY AcctFacts DEF IInv, OneOrderPerPre
  <1>2. o \in PreOrders(h)
    BY <1>1 DEF IInv, OneOrderPerPre
  <1> QED BY <1>1, <1>2, OwnPreOrder

LEMMA RegisteredOwn ==
    ASSUME IInv, NEW h \in Own, regStatus[h] = Registered
    PROVE  preTx[h] = "confirmed" /\ h \in proposeRow[h]
  <1>1. PICK k \in PreTxs : preTx[k] = "confirmed" /\ h \in proposeRow[k]
    BY OwnFacts DEF IInv, OneOrderPerPre
  <1>2. h \in PreOrders(k)
    BY <1>1 DEF IInv, OneOrderPerPre
  <1> QED BY <1>1, <1>2, OwnFacts DEF PreOrders

\* An order that txtool is not waiting for has no transaction that could win.
LEMMA NotWaiting ==
    ASSUME IInv, OneFlight, NEW o \in SelfOrders, preStatus[o] # "Ok" \/ (job = "pre" /\ SendingOf(o))
    PROVE  Grounded(o) /\ ~Won(o)
  <1>1. ASSUME NEW h \in Own, Claims(o, h) PROVE preTx[h] = "rejected"
    <2>1. ~Flying(h)
      BY <1>1 DEF OneFlight, Claims
    <2>2. ~AwaitsRow(h)
      BY <2>1 DEF Flying
    <2>3. preTx[h] # "none"
      BY <1>1, <2>2 DEF IInv, RowsFollow, Claims
    <2> QED BY <1>1, <2>1, <2>2, <2>3 DEF Flying, Claims
  <1> QED BY <1>1 DEF Grounded, Won

LEMMA OnChainStable ==
    ASSUME IInv, [Next]_vars, NEW a, OnChain(a)
    PROVE  OnChain(a)'
  BY TxsStep DEF OnChain, TxsStable, Acct

LEMMA InitSettled == Init => SInv
  <1> SUFFICES ASSUME Init PROVE SInv
    OBVIOUS
  <1>1. BatchOK /\ OneFlight /\ ApplyOnce
    BY OwnFacts DEF Init, BatchOK, OneFlight, ApplyOnce, Flying, AwaitsRow
  <1>2. OneStage /\ Follows /\ ClosedIsOver
    BY OwnFacts, PayFacts, AcctFacts, RegistrationAssumption
       DEF Init, OneStage, Follows, ClosedIsOver, Owed, Closed, RegDefault, PreRegister
  <1>3. Sequenced
    BY OwnFacts DEF Init, Sequenced, RegDefault, Registered
  <1> QED BY <1>1, <1>2, <1>3 DEF SInv

-----------------------------------------------------------------------------
(* HTTP handlers.                                                          *)

\* The handlers leave a paid order alone.
LEMMA HttpEffect ==
    ASSUME IInv, HttpNext
    PROVE  /\ \A o \in SelfOrders : Paid(o) => payStatus'[o] = payStatus[o]
           /\ \A o \in SelfOrders : Exists(o) => orderStatus'[o] = orderStatus[o]
           /\ \A o \in SelfOrders : Closed(o)' => Closed(o)
           /\ \A o \in SelfOrders : regStatus'[o] = regStatus[o] \/ (regStatus'[o] < PreRegister /\ ~Paid(o))
           /\ \A p \in Pays : payRow'[p] # "none" => payRow[p] # "none" \/ Exists(OrderOf[p])'
  <1> USE DEF IInv, TypeOK, Exists, Closed
  <1> DEFINE Goal == /\ \A o \in SelfOrders : Paid(o) => payStatus'[o] = payStatus[o]
                     /\ \A o \in SelfOrders : Exists(o) => orderStatus'[o] = orderStatus[o]
                     /\ \A o \in SelfOrders : Closed(o)' => Closed(o)
                     /\ \A o \in SelfOrders : regStatus'[o] = regStatus[o] \/ (regStatus'[o] < PreRegister /\ ~Paid(o))
                     /\ \A p \in Pays : payRow'[p] # "none" => payRow[p] # "none" \/ Exists(OrderOf[p])'
  <1>1. ASSUME NEW q \in SelfOrders, CheckOrder(q) PROVE Goal
    BY <1>1 DEF CheckOrder, orderVars, payVars
  <1>2. ASSUME NEW q \in SelfOrders, CreateOrder(q) PROVE Goal
    <2>1. ~Exists(q) /\ ~Paid(q)
      BY <1>2, NewOrder DEF Unborn
    <2>2. /\ orderStatus' = [orderStatus EXCEPT ![q] = "open"]
          /\ \A o \in SelfOrders : o # q => payStatus'[o] = payStatus[o] /\ regStatus'[o] = regStatus[o]
          /\ regStatus'[q] < PreRegister
      BY <1>2, NewOrder, AcctFacts DEF ApplyRegister, ConfirmPayment, PreRegister
    <2>3. \A p \in Pays : payRow'[p] = payRow[p] \/ OrderOf[p] = q
      BY <1>2 DEF CreateOrder, DoRegisterOrder, DoRegisterCouponOrder, DoInternalRegisterOrder
    <2> QED BY <2>1, <2>2, <2>3, AcctFacts, PayFacts
  <1>3. ASSUME NEW p \in Pays, OrderPayHash(p) PROVE Goal
    BY <1>3 DEF OrderPayHash, orderVars
  <1>4. ASSUME NEW p \in Pays, DoPaymentConfirm(p) PROVE Goal
    <2> DEFINE q == OrderOf[p]
    <2>1. q \in SelfOrders /\ q \in Orders /\ Exists(q) /\ UNCHANGED orderStatus
      BY <1>4, PayFacts DEF DoPaymentConfirm
    <2>2. \A o \in SelfOrders : Paid(o) => payStatus'[o] = payStatus[o]
      BY <1>4 DEF DoPaymentConfirm, CAS, Paid
    <2>3. \A o \in SelfOrders : regStatus'[o] = regStatus[o] \/ (regStatus'[o] < PreRegister /\ ~Paid(o))
      BY <1>4, <2>1, AcctFacts DEF DoPaymentConfirm, Paid, ApplyRegister, PreRegister
    <2>4. \A r \in Pays : payRow'[r] = payRow[r] \/ r = p
      BY <1>4 DEF DoPaymentConfirm
    <2> QED BY <2>1, <2>2, <2>3, <2>4
  <1> QED BY <1>1, <1>2, <1>3, <1>4 DEF HttpNext

\* HTTP handlers make no order Registered and undo none.
LEMMA HttpGrants ==
    ASSUME IInv, HttpNext
    PROVE  \A x \in Orders : regStatus'[x] = Registered <=> regStatus[x] = Registered
  <1>1. \A x \in Orders : x \notin SelfOrders => regStatus'[x] = regStatus[x]
    BY NewOrder, PayFacts DEF HttpNext, CheckOrder, OrderPayHash, DoPaymentConfirm, orderVars, IInv, TypeOK
  <1>2. \A x \in SelfOrders : regStatus'[x] = Registered <=> regStatus[x] = Registered
    <2>1. \A x \in SelfOrders : regStatus[x] = Registered => Paid(x)
      BY DEF IInv, PaidFirst, Registered
    <2> QED BY <2>1, HttpEffect DEF Registered, PreRegister
  <1> QED BY <1>1, <1>2

-----------------------------------------------------------------------------
(* What keeps each part of the invariant.                                  *)

\* txtool is done with an order or with its batch.
ToolShrinks ==
    /\ todo' \subseteq todo /\ sending' = NoSend /\ sent' = NoSend /\ job' \in {job, "idle"}
    /\ job' = "idle" => todo' = {}
    /\ \A q \in todo' : ~Marked(q)

LEMMA FinishShrinks ==
    ASSUME BatchOK, NEW o, Finish(o), sending = NoSend \/ sending[1] = o, sent = NoSend \/ sent[1] = o
    PROVE  ToolShrinks /\ o \notin todo' /\ \A q \in todo' : q \in todo /\ q # o
  BY DEF BatchOK, Finish, ToolShrinks, Marked, SendingOf, SentOf

LEMMA AbortShrinks == AbortBatch => ToolShrinks /\ todo' = {}
  BY DEF AbortBatch, ToolShrinks

LEMMA AwaitsKept ==
    ASSUME ToolShrinks \/ UNCHANGED <<job, sent>>, NEW h \in Own
    PROVE  AwaitsRow(h)' => AwaitsRow(h)
  <1>1. h # NoSend
    BY RegistrationAssumption DEF Own
  <1> QED BY <1>1 DEF ToolShrinks, AwaitsRow

LEMMA BatchKept ==
    ASSUME IInv, [Next]_vars, BatchOK, ToolShrinks \/ UNCHANGED <<job, todo, sending, sent>>,
           \A q \in todo' : /\ job = "apply" => payStatus'[q] = payStatus[q]
                            /\ job = "pre" => preStatus'[q] = preStatus[q]
                            /\ job = "pre" /\ Open(q) => Open(q)' \/ OnChain(AccountOf[q])'
    PROVE  BatchOK'
  <1>1. \A q \in todo' : q \in todo /\ (OnChain(AccountOf[q]) => OnChain(AccountOf[q])')
    BY OnChainStable DEF ToolShrinks
  <1>2. CASE ToolShrinks
    BY <1>1, <1>2 DEF BatchOK, ToolShrinks, Marked, SendingOf, SentOf
  <1>3. CASE UNCHANGED <<job, todo, sending, sent>>
    BY <1>1, <1>3 DEF BatchOK, Marked, SendingOf, SentOf
  <1> QED BY <1>2, <1>3

LEMMA FlightKept ==
    ASSUME OneFlight, ToolShrinks \/ UNCHANGED <<job, sending>>,
           \A h \in Own : /\ Flying(h)' => Flying(h)
                          /\ Flying(h)' /\ preStatus[h[1]] = "Ok" => preStatus'[h[1]] = "Ok"
    PROVE  OneFlight'
  <1>1. \A h \in Own : SendingOf(h[1])' /\ job' = "pre" => SendingOf(h[1]) /\ job = "pre"
    BY DEF ToolShrinks, SendingOf
  <1> QED BY <1>1 DEF OneFlight

LEMMA StageKept ==
    ASSUME OneStage, ToolShrinks \/ UNCHANGED <<job, todo>>,
           \A o \in SelfOrders : /\ preStatus'[o] # "Default" => preStatus[o] # "Default"
                                 /\ preStatus[o] = "Default" => preStatus'[o] = "Default"
                                 /\ payStatus[o] = "Ok" => payStatus'[o] = "Ok"
                                 /\ regStatus[o] >= PreRegister => regStatus'[o] >= PreRegister,
           \A h \in Own : Owed(h)' => Owed(h)
    PROVE  OneStage'
  <1>1. \A o \in SelfOrders : Applying(o)' => Applying(o)
    BY DEF Applying, ToolShrinks
  <1> QED BY <1>1, OwnFacts DEF OneStage

LEMMA ApplyKept ==
    ASSUME IInv, [Next]_vars, ApplyOnce, UNCHANGED <<applyTx, blocks>>,
           \A h \in Own : applyRow'[h] = "Confirm" => applyRow[h] = "Confirm"
    PROVE  ApplyOnce'
  <1>1. \A k \in Own : OnLedger(k) => OnLedger(k)'
    BY TxsStep, OwnFacts DEF TxsStable
  <1> QED BY <1>1 DEF ApplyOnce

LEMMA SequencedKept ==
    ASSUME Sequenced, UNCHANGED <<blocks, proposeRow>>,
           \A x \in Orders : regStatus'[x] = Registered <=> regStatus[x] = Registered
    PROVE  Sequenced'
  BY OwnFacts DEF Sequenced, InBlocks

LEMMA FollowsKept ==
    ASSUME IInv, [Next]_vars, Follows, UNCHANGED <<regStatus, payRow>>
    PROVE  Follows'
  <1>1. TxsStable /\ RowsStable /\ OrdersStable
    BY TxsStep, RowsStep, OrdersStep
  <1>2. \A o \in SelfOrders, h \in Own : Recorded(o, h) /\ OnLedger(h) => Recorded(o, h)' /\ OnLedger(h)'
    BY <1>1, OwnFacts DEF TxsStable, RowsStable, Recorded
  <1>3. \A p \in Pays : Exists(OrderOf[p]) => Exists(OrderOf[p])'
    BY <1>1, PayFacts DEF OrdersStable
  <1> QED BY <1>2, <1>3 DEF Follows

LEMMA OverKept ==
    ASSUME IInv, ClosedIsOver, UNCHANGED <<regStatus, refund, unrefund>>,
           \A o \in SelfOrders : /\ Closed(o) => Closed(o)'
                                 /\ Closed(o)' => Closed(o) \/ Lost(o)'
                                 /\ Closed(o) /\ Lost(o) => Lost(o)'
    PROVE  ClosedIsOver'
  <1>1. unrefund \subseteq SelfOrders
    BY DEF IInv, TypeOK
  <1> QED BY <1>1, PayFacts DEF ClosedIsOver

LEMMA LostKept ==
    ASSUME UNCHANGED preTx, NEW o \in SelfOrders,
           \A h \in Own : (Claims(o, h)' => Claims(o, h)) /\ (Forfeited(h) => Forfeited(h)')
    PROVE  /\ Lost(o) => Lost(o)'
           /\ Grounded(o) /\ ~Won(o) => Lost(o)'
  <1>1. (Won(o)' => Won(o)) /\ (Grounded(o) => Grounded(o)')
    BY DEF Won, Grounded
  <1> QED BY <1>1 DEF Lost, OnChain, Acct

\* A step that records nothing and sends nothing.
LEMMA LostSame ==
    ASSUME UNCHANGED <<preTx, proposeRow>>, ToolShrinks \/ UNCHANGED <<job, sent>>,
           \A h \in Own : /\ preRow'[h] = "none" <=> preRow[h] = "none"
                          /\ regStatus[h] = Registered => regStatus'[h] = Registered,
           NEW o \in SelfOrders
    PROVE  /\ Lost(o) => Lost(o)'
           /\ Grounded(o) /\ ~Won(o) => Lost(o)'
  <1>1. \A h \in Own : (Claims(o, h)' => Claims(o, h)) /\ (Forfeited(h) => Forfeited(h)')
    BY AwaitsKept DEF Claims, Forfeited
  <1> QED BY <1>1, LostKept

LEMMA HttpSettled == IInv /\ SInv /\ HttpNext => SInv'
  <1> SUFFICES ASSUME IInv, SInv, HttpNext PROVE SInv'
    OBVIOUS
  <1>1. UNCHANGED <<preStatus, refund, applyRow, preRow, proposeRow, applyTx, preTx, blocks,
                    job, todo, sending, sent, unrefund>>
    BY HttpFrame DEF rowVars, chainVars, toolVars
  <1>2. \A o \in SelfOrders :
           /\ regStatus[o] >= PreRegister \/ preStatus[o] # "Default" \/ o \in todo => Paid(o)
           /\ Paid(o) => Exists(o)
    <2>1. \A o \in SelfOrders : regStatus[o] >= PreRegister => regStatus[o] > 1
      <3>1. \A o \in SelfOrders : regStatus[o] \in 0..6
        BY AcctFacts, RegFacts
      <3> QED BY ONLY <3>1 DEF PreRegister
    <2> QED BY <2>1 DEF IInv, PaidFirst, Unborn
  <1>3. \A h \in Own : applyRow[h] # "none" => Paid(h[1])
    BY DEF IInv, PaidFirst
  <1>4. BatchOK'
    <2>1. todo \subseteq SelfOrders
      BY DEF IInv, TypeOK
    <2>2. \A o \in todo : payStatus'[o] = payStatus[o] /\ (Open(o) => Open(o)')
      BY <1>2, <2>1, HttpEffect DEF Open
    <2>3. \A o \in todo : OnChain(AccountOf[o]) => OnChain(AccountOf[o])'
      BY <1>1 DEF OnChain, Acct
    <2> QED BY <1>1, <2>2, <2>3 DEF SInv, BatchOK, Marked, SendingOf, SentOf
  <1>5. OneFlight' /\ ApplyOnce' /\ Sequenced'
    <2>1. OneFlight' /\ ApplyOnce'
      BY <1>1 DEF SInv, OneFlight, Flying, AwaitsRow, SendingOf, ApplyOnce, OnLedger
    <2> QED BY <1>1, <2>1, HttpGrants, SequencedKept DEF SInv
  <1>6. OneStage'
    BY <1>1, <1>2, <1>3, OwnFacts, HttpEffect DEF SInv, OneStage, Owed, Applying, InBlocks
  <1>7. Follows'
    <2>1. \A o \in SelfOrders : regStatus'[o] > PreRegister => regStatus[o] > PreRegister
      <3>1. \A o \in SelfOrders : /\ regStatus[o] \in 0..6 /\ regStatus'[o] \in 0..6
                                  /\ regStatus'[o] = regStatus[o] \/ regStatus'[o] < PreRegister
        <4>1. IInv'
          BY InvStep DEF Next
        <4> QED BY <4>1, AcctFacts, RegFacts, HttpEffect DEF IInv, TypeOK
      <3> QED BY ONLY <3>1 DEF PreRegister
    <2>2. \A p \in Pays : Exists(OrderOf[p]) => Exists(OrderOf[p])'
      BY HttpEffect, PayFacts DEF Exists
    <2> QED BY <1>1, <2>1, <2>2, HttpEffect DEF SInv, Follows, Recorded, OnLedger
  <1>8. ClosedIsOver'
    <2>1. \A o \in SelfOrders : Lost(o) => Lost(o)'
      BY <1>1, HttpGrants, OwnFacts, LostSame
    <2>2. \A o \in SelfOrders : /\ regStatus'[o] = Registered <=> regStatus[o] = Registered
                                /\ Closed(o)' <=> Closed(o)
      BY <1>2, HttpEffect DEF Registered, PreRegister, Closed, Exists
    <2> QED BY <1>1, <2>1, <2>2, PayFacts DEF SInv, ClosedIsOver, IInv, TypeOK
  <1> QED BY <1>4, <1>5, <1>6, <1>7, <1>8 DEF SInv

-----------------------------------------------------------------------------
(* txtool.                                                                 *)

\* No column or transaction changes: a batch is listed or over.
LEMMA ToolOnlySettled ==
    ASSUME IInv, SInv, TxToolNext \/ Crash, ToolShrinks,
           UNCHANGED <<orderVars, payVars, rowVars, chainVars>>, unrefund' \in {unrefund, {}}
    PROVE  SInv'
  <1> USE DEF orderVars, payVars, rowVars, chainVars
  <1>0. [Next]_vars
    BY DEF Next
  <1>1. BatchOK'
    BY <1>0, BatchKept DEF SInv, Open
  <1>2. OneFlight'
    BY FlightKept, AwaitsKept DEF SInv, Flying, toolVars
  <1>3. OneStage'
    BY StageKept DEF SInv, Owed, InBlocks
  <1>4. ApplyOnce' /\ Sequenced' /\ Follows'
    BY <1>0, ApplyKept, SequencedKept, FollowsKept DEF SInv
  <1>5. ClosedIsOver'
    BY LostSame, PayFacts DEF SInv, ClosedIsOver, Closed, IInv, TypeOK
  <1> QED BY <1>1, <1>2, <1>3, <1>4, <1>5 DEF SInv

LEMMA ListSettled ==
    ASSUME IInv, SInv, DoOrderApplyTxList \/ DoOrderPreRegisterTxList
    PROVE  SInv'
  <1> USE DEF orderVars, payVars, rowVars, chainVars
  <1>0. /\ UNCHANGED <<orderVars, payVars, rowVars, chainVars, sending, sent, unrefund>>
        /\ job = "idle" /\ todo = {} /\ sending = NoSend /\ sent = NoSend /\ [Next]_vars
    BY DEF DoOrderApplyTxList, DoOrderPreRegisterTxList, Next, TxToolNext, SInv, BatchOK
  <1>1. \/ /\ job' = "apply"
           /\ \A o \in todo' : o \in SelfOrders /\ payStatus[o] = "Sending"
        \/ /\ job' = "pre"
           /\ \A o \in todo' : o \in SelfOrders /\ preStatus[o] = "Sending" /\ Open(o)
    BY DEF DoOrderApplyTxList, DoOrderPreRegisterTxList
  <1>2. BatchOK'
    BY <1>0, <1>1 DEF BatchOK, Marked, SendingOf, SentOf, Open
  <1>02. \A h \in Own : ~AwaitsRow(h)'
    <2>1. \A h \in Own : h # NoSend
      BY RegistrationAssumption DEF Own
    <2> QED BY <1>0, <2>1 DEF AwaitsRow
  <1>3. OneFlight'
    BY <1>0, <1>02 DEF SInv, OneFlight, Flying, SendingOf
  <1>4. OneStage'
    BY <1>0, <1>1 DEF SInv, OneStage, Owed, InBlocks, Applying
  <1>5. ApplyOnce' /\ Sequenced' /\ Follows'
    BY <1>0, ApplyKept, SequencedKept, FollowsKept DEF SInv
  <1>6. ClosedIsOver'
    <2>1. ASSUME NEW o \in SelfOrders, Lost(o) PROVE Lost(o)'
      <3>1. \A h \in Own : (Claims(o, h)' => Claims(o, h)) /\ (Forfeited(h) => Forfeited(h)')
        BY <1>0, <1>02 DEF Claims, Forfeited
      <3>2. (Won(o)' => Won(o)) /\ (Grounded(o) => Grounded(o)')
        BY <1>0, <3>1 DEF Won, Grounded
      <3> QED BY <1>0, <2>1, <3>2 DEF Lost, OnChain, Acct
    <2> QED BY <1>0, <2>1, OverKept DEF SInv, Closed
  <1> QED BY <1>2, <1>3, <1>4, <1>5, <1>6 DEF SInv

\* An order is closed for refund when no transaction of it could win.
LEMMA CloseSettled ==
    ASSUME IInv, SInv, TxToolNext, NEW o \in SelfOrders, ToolShrinks, o \notin todo',
           orderStatus' = [orderStatus EXCEPT ![o] = "closed"] \/ UNCHANGED orderStatus,
           UNCHANGED <<payStatus, preStatus, regStatus, payVars, rowVars, chainVars, unrefund>>,
           preStatus[o] # "Ok" \/ (job = "pre" /\ SendingOf(o))
    PROVE  SInv'
  <1> USE DEF payVars, rowVars, chainVars
  <1>0. [Next]_vars /\ todo' \subseteq SelfOrders
    BY DEF Next, ToolShrinks, IInv, TypeOK
  <1>1. BatchOK'
    <2>1. \A q \in todo' : orderStatus'[q] = orderStatus[q]
      BY <1>0, AcctFacts DEF IInv, TypeOK
    <2> QED BY <1>0, <2>1, BatchKept DEF SInv, Open
  <1>2. OneFlight'
    BY FlightKept, AwaitsKept DEF SInv, Flying, toolVars
  <1>3. OneStage'
    BY StageKept DEF SInv, Owed, InBlocks
  <1>4. ApplyOnce' /\ Sequenced' /\ Follows'
    BY <1>0, ApplyKept, SequencedKept, FollowsKept DEF SInv
  <1>5. ClosedIsOver'
    <2>1. Lost(o)'
      BY NotWaiting, LostSame DEF SInv
    <2>2. \A q \in SelfOrders : /\ Closed(q) => Closed(q)'
                                /\ Closed(q)' => Closed(q) \/ q = o
      BY AcctFacts DEF Closed, IInv, TypeOK
    <2> QED BY <2>1, <2>2, LostSame, OverKept DEF SInv
  <1> QED BY <1>1, <1>2, <1>3, <1>4, <1>5 DEF SInv

LEMMA ApplyTxSettled ==
    ASSUME IInv, SInv, NEW o \in SelfOrders, DoOrderApplyTx(o)
    PROVE  SInv'
  <1> USE DEF orderVars, payVars, rowVars, chainVars
  <1>0. /\ job = "apply" /\ o \in todo /\ sending = NoSend /\ sent = NoSend /\ TxToolNext /\ [Next]_vars
        /\ preStatus[o] = "Default" /\ payStatus[o] = "Sending" /\ \A h \in Own : Owed(h) => h[1] # o
    BY DEF DoOrderApplyTx, TxToolNext, Next, SInv, BatchOK, OneStage, Applying, Marked, SendingOf, SentOf
  <1>1. CASE BuildError
    BY <1>0, <1>1, AbortShrinks, ToolOnlySettled DEF BuildError
  <1>2. CASE CloseForRefund(o)
    <2>1. ToolShrinks /\ o \notin todo'
      BY <1>0, <1>2, FinishShrinks DEF CloseForRefund, SInv
    <2> QED BY <1>0, <1>2, <2>1, CloseSettled DEF CloseForRefund, Close
  <1>3. CASE MarkApply(o)
    <2>1. /\ UNCHANGED <<orderStatus, preStatus, regStatus, payVars, rowVars, chainVars, job, todo, sent, unrefund>>
          /\ payStatus' = [payStatus EXCEPT ![o] = "Ok"]
          /\ sending' = <<o, 0>> /\ sending'[1] = o /\ sending' # NoSend
      BY <1>0, <1>3, RegistrationAssumption DEF MarkApply, CAS
    <2>2. BatchOK'
      BY <1>0, <2>1 DEF SInv, BatchOK, Marked, SendingOf, SentOf, IInv, TypeOK
    <2>3. OneFlight'
      BY <1>0, <2>1 DEF SInv, OneFlight, Flying, AwaitsRow
    <2>4. OneStage'
      BY <1>0, <2>1, StageKept DEF SInv, Owed, InBlocks, IInv, TypeOK
    <2>5. ApplyOnce' /\ Sequenced' /\ Follows'
      BY <1>0, <2>1, ApplyKept, SequencedKept, FollowsKept DEF SInv
    <2>6. ClosedIsOver'
      BY <2>1, LostSame, OverKept DEF SInv, Closed
    <2> QED BY <2>2, <2>3, <2>4, <2>5, <2>6 DEF SInv
  <1> QED BY <1>1, <1>2, <1>3, <1>0 DEF DoOrderApplyTx

\* The apply transaction of the order is sent and awaits its row, or the order
\* is unmarked.
LEMMA SendApplySettled ==
    ASSUME IInv, SInv, NEW o \in SelfOrders, SendApplyTx(o)
    PROVE  SInv'
  <1> USE DEF orderVars, payVars, rowVars, chainVars
  <1>0. /\ job = "apply" /\ sending = <<o, 0>> /\ sending # NoSend /\ o \in todo /\ SendingOf(o)
        /\ TxToolNext /\ [Next]_vars /\ payStatus[o] = "Ok"
        /\ preStatus[o] = "Default" /\ \A h \in Own : Owed(h) => h[1] # o
    <2>1. job = "apply" /\ sending = <<o, 0>> /\ TxToolNext /\ [Next]_vars
      BY DEF SendApplyTx, TxToolNext, Next
    <2>2. sending # NoSend /\ sending[1] = o
      BY <2>1, RegistrationAssumption
    <2> QED BY <2>1, <2>2 DEF SInv, BatchOK, OneStage, Applying, Marked, SendingOf
  <1>1. UNCHANGED <<orderStatus, preStatus, regStatus, payVars, rowVars, preTx, blocks, unrefund>>
    BY DEF SendApplyTx, SendApplyAccepted
  <1>2. \/ AbortBatch /\ payStatus' = [payStatus EXCEPT ![o] = "Sending"]
        \/ /\ UNCHANGED <<payStatus, job, todo>> /\ sending' = NoSend
           /\ sent' \in Own /\ sent'[1] = o
    BY <1>0 DEF SendApplyTx, NextSend, AwaitRow, CAS
  <1>3. \/ UNCHANGED applyTx
        \/ \E h \in Own : /\ h[1] = o /\ applyTx[h] = "none" /\ applyTx' = [applyTx EXCEPT ![h] = "pool"]
    BY DEF SendApplyTx, SendApplyAccepted, NextSend
  <1>4. \A h \in Own : ~AwaitsRow(h)' /\ ~AwaitsRow(h)
    BY <1>0, <1>2 DEF AbortBatch, AwaitsRow
  <1>5. BatchOK'
    <2>1. CASE AbortBatch
      BY <1>0, <1>1, <2>1, AbortShrinks, BatchKept DEF SInv
    <2>2. CASE UNCHANGED <<payStatus, job, todo>> /\ sending' = NoSend /\ sent' \in Own /\ sent'[1] = o
      <3>1. sent' # NoSend
        BY <2>2, RegistrationAssumption DEF Own
      <3>2. \A q \in todo : Marked(q)' <=> Marked(q)
        BY <1>0, <2>2, <3>1 DEF Marked, SendingOf, SentOf, SInv, BatchOK
      <3> QED BY <1>0, <2>2, <3>1, <3>2 DEF SInv, BatchOK
    <2> QED BY <1>2, <2>1, <2>2
  <1>6. OneFlight'
    <2>1. \A h \in Own : Flying(h)' => Flying(h)
      BY <1>1, <1>4 DEF Flying
    <2>2. \A q : ~SendingOf(q)'
      BY <1>2 DEF SendingOf, AbortBatch
    <2> QED BY <1>1, <2>1, <2>2 DEF SInv, OneFlight
  <1>7. Sequenced' /\ Follows' /\ ClosedIsOver'
    <2>1. \A q \in SelfOrders, h \in Own : (Claims(q, h)' => Claims(q, h)) /\ (Forfeited(h) => Forfeited(h)')
      BY <1>1, <1>4 DEF Claims, Forfeited
    <2>2. \A q \in SelfOrders : Lost(q) => Lost(q)'
      BY <1>1, <2>1, LostKept
    <2> QED BY <1>0, <1>1, <2>2, SequencedKept, FollowsKept, OverKept DEF SInv, Closed
  <1>8. OneStage'
    <2>1. \A h \in Own : Owed(h)' => Owed(h)
      BY <1>1, <1>3 DEF Owed, InBlocks, IInv, TypeOK, RowsFollow
    <2>2. CASE AbortBatch /\ payStatus' = [payStatus EXCEPT ![o] = "Sending"]
      <3>1. \A q \in SelfOrders : ~Applying(q)' /\ (q # o => payStatus'[q] = payStatus[q])
        BY <2>2 DEF Applying, AbortBatch, IInv, TypeOK
      <3> QED BY <1>0, <1>1, <2>1, <3>1, OwnFacts DEF SInv, OneStage
    <2>3. CASE UNCHANGED <<payStatus, job, todo>>
      BY <1>1, <2>1, <2>3, StageKept DEF SInv
    <2> QED BY <1>2, <2>2, <2>3
  <1>9. ApplyOnce'
    <2>1. CASE UNCHANGED applyTx
      BY <1>0, <1>1, <2>1, ApplyKept DEF SInv
    <2>2. ASSUME NEW h \in Own, applyTx[h] = "none", applyTx' = [applyTx EXCEPT ![h] = "pool"]
          PROVE  ApplyOnce'
      <3>1. \A k \in Own : k # h => applyTx'[k] = applyTx[k]
        BY <2>2 DEF IInv, TypeOK
      <3>2. \A i \in 1..Len(blocks) : blocks[i][1] = "apply" => blocks[i][2] \in Own /\ blocks[i][2] # h
        <4>1. \A i \in 1..Len(blocks) : blocks[i] \in Events
          BY DEF IInv, TypeOK
        <4> QED BY <2>2, <4>1 DEF SInv, ApplyOnce, Events
      <3>3. \A k \in Own : /\ applyTx'[k] = "dead" => applyTx[k] = "dead"
                           /\ applyRow[k] = "Confirm" => k # h
        BY <2>2, <3>1 DEF IInv, TypeOK, RowsFollow
      <3> QED BY <1>1, <3>1, <3>2, <3>3 DEF SInv, ApplyOnce, OnLedger
    <2> QED BY <1>3, <2>1, <2>2
  <1> QED BY <1>5, <1>6, <1>7, <1>8, <1>9 DEF SInv

\* The row of an apply transaction is written, before or after the parser saw
\* its block, or is not.
LEMMA RecordApplySettled ==
    ASSUME IInv, SInv, NEW o \in SelfOrders, RecordApplyTx(o)
    PROVE  SInv'
  <1> USE DEF orderVars, payVars, rowVars, chainVars
  <1>0. /\ job = "apply" /\ sent # NoSend /\ sent[1] = o /\ sending = NoSend /\ o \in todo /\ Finish(o)
        /\ TxToolNext /\ [Next]_vars /\ payStatus[o] = "Ok" /\ sent \in Own /\ applyRow[sent] = "none"
        /\ preStatus[o] = "Default" /\ \A h \in Own : Owed(h) => h[1] # o
    <2>1. job = "apply" /\ sent # NoSend /\ sent[1] = o /\ Finish(o) /\ TxToolNext /\ [Next]_vars
      BY DEF RecordApplyTx, TxToolNext, Next
    <2>2. sending = NoSend /\ o \in todo /\ payStatus[o] = "Ok" /\ Applying(o)
      BY <2>1 DEF SInv, BatchOK, Marked, SentOf, Applying
    <2>3. sent \in Own /\ applyRow[sent] = "none"
      BY <2>1 DEF IInv, TypeOK, RowsFollow
    <2> QED BY <2>1, <2>2, <2>3 DEF SInv, OneStage
  <1>1. UNCHANGED <<orderVars, payVars, preRow, proposeRow, chainVars, unrefund>>
    BY DEF RecordApplyTx
  <1>2. ToolShrinks /\ o \notin todo' /\ \A q \in todo' : q \in todo /\ q # o
    BY <1>0, FinishShrinks DEF SInv
  <1>3. CASE UNCHANGED applyRow
    BY <1>0, <1>1, <1>2, <1>3, ToolOnlySettled
  <1>4. CASE applyRow' = [applyRow EXCEPT ![sent] = "Default"]
    <2>1. \A k \in Own : /\ applyRow'[k] = "Confirm" => applyRow[k] = "Confirm"
                         /\ Owed(k)' => Owed(k) \/ k = sent
      BY <1>0, <1>1, <1>4 DEF Owed, InBlocks, IInv, TypeOK
    <2>2. BatchOK'
      BY <1>0, <1>1, <1>2, BatchKept DEF SInv, Open
    <2>3. OneFlight'
      BY <1>1, <1>2, FlightKept, AwaitsKept DEF SInv, Flying
    <2>4. OneStage'
      <3>1. \A q \in SelfOrders : (Applying(q)' => Applying(q)) /\ ~Applying(o)'
        BY <1>2 DEF Applying, ToolShrinks
      <3> QED BY <1>0, <1>1, <2>1, <3>1, OwnFacts DEF SInv, OneStage
    <2>5. ApplyOnce' /\ Sequenced' /\ Follows'
      BY <1>0, <1>1, <2>1, ApplyKept, SequencedKept, FollowsKept DEF SInv
    <2>6. ClosedIsOver'
      BY <1>1, <1>2, LostSame, OverKept DEF SInv, Closed
    <2> QED BY <2>2, <2>3, <2>4, <2>5, <2>6 DEF SInv
  <1> QED BY <1>3, <1>4 DEF RecordApplyTx, CreateOrderTx

\* UpdateOrderRedoApply finds no transaction of the order under way.  The
\* confirmed apply cell was recycled, or spent by a transaction whose answer
\* was lost, and then the parser is done with it.
LEMMA RedoSettled ==
    ASSUME AppliesInTurn, IInv, SInv, TxToolNext, NEW o \in SelfOrders, job = "pre", o \in todo,
           sending = NoSend, sent = NoSend, NEW h \in ConfirmedApply(o), applyTx[h] # "live", RedoApply(o)
    PROVE  SInv'
  <1> USE DEF orderVars, payVars, rowVars, chainVars
  <1>0. /\ [Next]_vars /\ preStatus[o] = "Sending"
        /\ UNCHANGED <<orderStatus, regStatus, payVars, rowVars, chainVars, unrefund>>
        /\ ToolShrinks /\ \A q \in todo' : q \in SelfOrders /\ q # o
    BY FinishShrinks DEF Next, SInv, BatchOK, Marked, SendingOf, SentOf, RedoApply, IInv, TypeOK, ToolShrinks
  <1>1. CASE UNCHANGED <<payStatus, preStatus>>
    <2>1. BatchOK'
      BY <1>0, <1>1, BatchKept DEF SInv, Open
    <2>2. OneFlight'
      BY <1>0, <1>1, FlightKept, AwaitsKept DEF SInv, Flying
    <2>3. OneStage'
      BY <1>0, <1>1, StageKept DEF SInv, Owed, InBlocks
    <2>4. ApplyOnce' /\ Sequenced' /\ Follows' /\ ClosedIsOver'
      BY <1>0, ApplyKept, SequencedKept, FollowsKept, LostSame, OverKept DEF SInv, Closed
    <2> QED BY <2>1, <2>2, <2>3, <2>4 DEF SInv
  <1>2. CASE /\ payStatus' = [payStatus EXCEPT ![o] = "Sending"]
             /\ preStatus' = [preStatus EXCEPT ![o] = "Default"]
    <2>1. \A q \in SelfOrders : q # o => payStatus'[q] = payStatus[q] /\ preStatus'[q] = preStatus[q]
      BY <1>2 DEF IInv, TypeOK
    <2>2. \A k \in Own : k[1] = o => ~Flying(k)
      BY <1>0 DEF SInv, OneFlight
    <2>3. \A k \in Own : k[1] = o => ~Owed(k)
      <3>1. CASE "replay" \notin Faults
        BY <1>0, <3>1 DEF SInv, OneStage
      <3>2. CASE {"recycle", "lost"} \cap Faults = {}
        <4>1. h \in Own /\ h[1] = o /\ applyTx[h] = "dead" /\ "recycle" \notin Faults /\ "lost" \notin Faults
          BY <3>2 DEF ConfirmedApply, SInv, ApplyOnce
        <4>2. PICK k \in Own : k[1] = o /\ OnLedger(k)
          BY <4>1 DEF SInv, ApplyOnce
        <4>3. Flying(k)
          BY <4>1, <4>2 DEF Flying, OnLedger, LedgerStates
        <4> QED BY <2>2, <4>2, <4>3
      <3> QED BY <3>1, <3>2 DEF AppliesInTurn
    <2>4. BatchOK'
      BY <1>0, <2>1, BatchKept DEF SInv, Open
    <2>5. OneFlight'
      <3>1. \A k \in Own : Flying(k)' => Flying(k) /\ k[1] # o
        BY <1>0, <2>2, AwaitsKept DEF Flying
      <3> QED BY <1>0, <2>1, <3>1, FlightKept, OwnFacts DEF SInv
    <2>6. OneStage'
      <3>1. \A k \in Own : Owed(k)' => Owed(k) /\ k[1] # o
        BY <1>0, <2>3 DEF Owed, InBlocks
      <3>2. \A q \in SelfOrders : Applying(q)' => Applying(q)
        BY <1>0 DEF Applying, ToolShrinks
      <3>3. preStatus'[o] = "Default"
        BY <1>2 DEF IInv, TypeOK
      <3> QED BY <1>0, <2>1, <3>1, <3>2, <3>3, OwnFacts DEF SInv, OneStage
    <2>7. ApplyOnce' /\ Sequenced' /\ Follows' /\ ClosedIsOver'
      BY <1>0, ApplyKept, SequencedKept, FollowsKept, LostSame, OverKept DEF SInv, Closed
    <2> QED BY <2>4, <2>5, <2>6, <2>7 DEF SInv
  <1> QED BY <1>1, <1>2 DEF RedoApply

LEMMA PreTxSettled ==
    ASSUME AppliesInTurn, IInv, SInv, NEW o \in SelfOrders, DoOrderPreRegisterTx(o)
    PROVE  SInv'
  <1> USE DEF orderVars, payVars, rowVars, chainVars
  <1>0. /\ job = "pre" /\ o \in todo /\ sending = NoSend /\ sent = NoSend /\ TxToolNext /\ [Next]_vars
        /\ preStatus[o] = "Sending"
    BY DEF DoOrderPreRegisterTx, TxToolNext, Next, SInv, BatchOK, Marked, SendingOf, SentOf
  <1>1. ASSUME AbortBatch \/ Finish(o), UNCHANGED <<orderVars, payVars, rowVars, chainVars, unrefund>>
        PROVE  SInv'
    BY <1>0, <1>1, AbortShrinks, FinishShrinks, ToolOnlySettled DEF SInv
  <1>2. CASE BuildError
    BY <1>1, <1>2 DEF BuildError
  <1>3. CASE CloseForRefund(o)
    <2>1. ToolShrinks /\ o \notin todo'
      BY <1>0, <1>3, FinishShrinks DEF CloseForRefund, SInv
    <2> QED BY <1>0, <1>3, <2>1, CloseSettled DEF CloseForRefund, Close
  <1>4. ASSUME NEW h \in ConfirmedApply(o), MarkPre(o, h) PROVE SInv'
    <2>1. /\ UNCHANGED <<orderStatus, payStatus, regStatus, payVars, rowVars, chainVars, job, todo, sent, unrefund>>
          /\ preStatus' = [preStatus EXCEPT ![o] = "Ok"]
      BY <1>0, <1>4 DEF MarkPre, CAS
    <2>2. sending'[1] = o /\ sending' # NoSend
      <3>1. h \in Own
        BY DEF ConfirmedApply
      <3>2. h[2] \in 0..MaxSend
        BY <3>1, RegistrationAssumption DEF Own
      <3> QED BY <1>4, <3>2, RegistrationAssumption DEF MarkPre
    <2>3. \A k \in Own : Flying(k) => k[1] # o
      BY <1>0 DEF SInv, OneFlight
    <2>4. BatchOK'
      <3>1. \A q \in todo : q \in SelfOrders /\ (OnChain(AccountOf[q]) => OnChain(AccountOf[q])')
        BY <1>0, OnChainStable DEF IInv, TypeOK
      <3> QED BY <1>0, <2>1, <2>2, <3>1 DEF SInv, BatchOK, Marked, SendingOf, SentOf, Open, IInv, TypeOK
    <2>5. OneFlight'
      BY <1>0, <2>1, <2>2, <2>3, OwnFacts DEF SInv, OneFlight, Flying, AwaitsRow, SendingOf, IInv, TypeOK
    <2>6. OneStage'
      BY <1>0, <2>1, StageKept DEF SInv, Owed, InBlocks, IInv, TypeOK
    <2>7. ApplyOnce' /\ Sequenced' /\ Follows' /\ ClosedIsOver'
      BY <1>0, <2>1, ApplyKept, SequencedKept, FollowsKept, LostSame, OverKept DEF SInv, Closed
    <2> QED BY <2>4, <2>5, <2>6, <2>7 DEF SInv
  <1>5. ASSUME NEW h \in ConfirmedApply(o), applyTx[h] # "live", RedoApply(o) PROVE SInv'
    BY <1>0, <1>5, RedoSettled
  <1> QED BY <1>1, <1>2, <1>3, <1>4, <1>5 DEF DoOrderPreRegisterTx

\* The pre_register transaction h of the order is sent and awaits its row, or
\* the answer of the node is lost and the order is unmarked.
LEMMA PreSentSettled ==
    ASSUME IInv, SInv, TxToolNext, NEW o \in SelfOrders, job = "pre", SendingOf(o), ~OnChain(AccountOf[o]),
           NEW h \in NextSend(preTx, o), SendPreAccepted(h, sending[2]),
           \/ AwaitRow(h) /\ UNCHANGED preStatus
           \/ /\ "lost" \in Faults /\ preStatus' = CAS(preStatus, o, "Ok", "Sending")
              /\ ToolShrinks /\ o \notin todo'
    PROVE  SInv'
  <1> USE DEF payVars, rowVars, chainVars
  <1>0. /\ [Next]_vars /\ o \in todo /\ h \in Own /\ h # NoSend /\ h[1] = o /\ preTx[h] = "none" /\ preRow[h] = "none"
        /\ preStatus[o] = "Ok" /\ Open(o) /\ sent = NoSend /\ \A k \in Own : k[1] = o => ~Flying(k)
    <2>1. [Next]_vars /\ o \in todo /\ h \in Own /\ h[1] = o /\ preTx[h] = "none" /\ sent = NoSend
      BY DEF Next, SInv, BatchOK, SendingOf, NextSend
    <2>2. preRow[h] = "none" /\ h # NoSend
      BY <2>1, RegistrationAssumption DEF IInv, RowsFollow, Own
    <2> QED BY <2>1, <2>2 DEF SInv, BatchOK, OneFlight, Marked
  <1>1. /\ UNCHANGED <<orderStatus, payStatus, regStatus, payVars, rowVars, applyTx, blocks, unrefund>>
        /\ preTx'[h] = "pool"
        /\ \A k \in PreTxs : k # h => preTx'[k] = preTx[k]
    BY <1>0, OwnFacts DEF SendPreAccepted, IInv, TypeOK
  <1>2. /\ \A q \in SelfOrders : q # o => preStatus'[q] = preStatus[q]
        /\ preStatus'[o] # "Default"
        /\ (preStatus'[o] = "Ok" /\ AwaitRow(h)) \/ ("lost" \in Faults /\ ToolShrinks /\ o \notin todo')
    BY <1>0 DEF CAS, IInv, TypeOK
  <1>3. BatchOK'
    <2>1. CASE AwaitRow(h) /\ UNCHANGED preStatus
      <3>1. \A q \in todo : Marked(q)' <=> Marked(q)
        BY <1>0, <2>1 DEF AwaitRow, Marked, SendingOf, SentOf
      <3>2. \A q \in todo : Open(q) \/ OnChain(AccountOf[q]) => (Open(q) \/ OnChain(AccountOf[q]))'
        BY <1>0, <1>1, OnChainStable DEF Open
      <3> QED BY <1>0, <1>1, <2>1, <3>1, <3>2 DEF AwaitRow, SInv, BatchOK
    <2>2. CASE ToolShrinks /\ o \notin todo'
      <3>1. \A q \in todo' : q \in SelfOrders /\ q # o
        BY <2>2 DEF ToolShrinks, IInv, TypeOK
      <3> QED BY <1>0, <1>1, <1>2, <2>2, <3>1, BatchKept DEF SInv, Open
    <2> QED BY <1>2, <2>1, <2>2
  <1>4. \A k \in Own : k # h => ~AwaitsRow(k)' /\ preTx'[k] = preTx[k]
    <2>1. \A k \in Own : k # NoSend
      BY RegistrationAssumption DEF Own
    <2> QED BY <1>0, <1>1, <1>2, <2>1, OwnFacts DEF AwaitsRow, AwaitRow, ToolShrinks
  <1>5. OneFlight'
    <2>1. \A k \in Own : k # h => (Flying(k)' => Flying(k) /\ k[1] # o)
      BY <1>0, <1>1, <1>4 DEF Flying
    <2>2. Flying(h)' => preStatus'[o] = "Ok"
      <3>1. CASE "lost" \in Faults /\ ToolShrinks
        BY <1>0, <1>1, <3>1, AwaitsKept DEF Flying, AwaitsRow
      <3> QED BY <1>2, <3>1
    <2>3. \A q : ~SendingOf(q)'
      BY <1>2 DEF ToolShrinks, AwaitRow, SendingOf
    <2> QED BY <1>0, <1>2, <2>1, <2>2, <2>3, OwnFacts DEF SInv, OneFlight
  <1>6. OneStage'
    <2>1. ToolShrinks \/ UNCHANGED <<job, todo>>
      BY <1>2 DEF AwaitRow
    <2> QED BY <1>0, <1>1, <1>2, <2>1, StageKept DEF SInv, Owed, InBlocks
  <1>7. ApplyOnce' /\ Sequenced' /\ Follows'
    BY <1>0, <1>1, ApplyKept, SequencedKept, FollowsKept DEF SInv
  <1>8. ClosedIsOver'
    <2>1. ASSUME NEW q \in SelfOrders, q # o, Lost(q) PROVE Lost(q)'
      <3>1. \A k \in Own : Claims(q, k)' => Claims(q, k) /\ preTx'[k] = preTx[k] /\ (Forfeited(k) => Forfeited(k)')
        BY <1>0, <1>1, <1>4, <2>1 DEF Claims, Forfeited
      <3>2. OnChain(AccountOf[q]) => OnChain(AccountOf[q])'
        BY <1>0, OnChainStable
      <3> QED BY <2>1, <3>1, <3>2 DEF Lost, Won, Grounded
    <2>2. ~Closed(o)
      BY <1>0 DEF Closed, Open
    <2> QED BY <1>1, <2>1, <2>2, OverKept DEF SInv, Closed
  <1> QED BY <1>3, <1>5, <1>6, <1>7, <1>8 DEF SInv

LEMMA SendPreSettled ==
    ASSUME IInv, SInv, NEW o \in SelfOrders, SendPreTx(o)
    PROVE  SInv'
  <1> USE DEF payVars, rowVars, chainVars
  <1>0. /\ job = "pre" /\ SendingOf(o) /\ o \in todo /\ sent = NoSend /\ TxToolNext /\ [Next]_vars
        /\ preStatus[o] = "Ok"
    BY DEF SendPreTx, TxToolNext, Next, SInv, BatchOK, Marked, SendingOf
  <1>1. Finish(o) \/ AbortBatch => ToolShrinks /\ o \notin todo'
    BY <1>0, FinishShrinks, AbortShrinks DEF SInv, SendingOf
  <1>2. CASE \E h \in NextSend(preTx, o) :
                /\ ~OnChain(AccountOf[o])
                /\ SendPreAccepted(h, sending[2])
                /\ \/ AwaitRow(h) /\ UNCHANGED preStatus
                   \/ /\ "lost" \in Faults
                      /\ preStatus' = CAS(preStatus, o, "Ok", "Sending")
                      /\ Finish(o) \/ AbortBatch
    BY <1>0, <1>1, <1>2, PreSentSettled
  <1>3. CASE /\ preStatus' = CAS(preStatus, o, "Ok", "Sending")
             /\ Finish(o) \/ AbortBatch
             /\ UNCHANGED <<placing, orderStatus, payStatus, hedgeStatus, regStatus, old,
                            payVars, rowVars, chainVars, unrefund>>
    <2>1. /\ \A q \in SelfOrders : q # o => preStatus'[q] = preStatus[q]
          /\ preStatus'[o] # "Default" /\ preStatus[o] # "Default"
          /\ \A q \in todo' : q \in SelfOrders /\ q # o
      BY <1>0, <1>1, <1>3 DEF CAS, IInv, TypeOK, ToolShrinks
    <2>2. BatchOK'
      BY <1>0, <1>1, <1>3, <2>1, BatchKept DEF SInv, Open
    <2>3. OneFlight'
      <3>1. \A k \in Own : Flying(k)' => Flying(k) /\ k[1] # o
        BY <1>0, <1>1, <1>3, AwaitsKept DEF Flying, SInv, OneFlight
      <3> QED BY <1>1, <1>3, <2>1, <3>1, FlightKept, OwnFacts DEF SInv
    <2>4. OneStage'
      BY <1>1, <1>3, <2>1, StageKept DEF SInv, Owed, InBlocks
    <2>5. ApplyOnce' /\ Sequenced' /\ Follows' /\ ClosedIsOver'
      BY <1>0, <1>1, <1>3, ApplyKept, SequencedKept, FollowsKept, LostSame, OverKept DEF SInv, Closed
    <2> QED BY <2>2, <2>3, <2>4, <2>5 DEF SInv
  <1>4. CASE /\ orderStatus' = CAS(orderStatus, o, "open", "closed")
             /\ Finish(o)
             /\ UNCHANGED <<placing, payStatus, preStatus, hedgeStatus, regStatus, old,
                            payVars, rowVars, chainVars, unrefund>>
    BY <1>0, <1>1, <1>4, CloseSettled DEF CAS
  <1> QED BY <1>2, <1>3, <1>4 DEF SendPreTx

\* The row of a pre_register transaction is written, before or after the parser
\* saw its block, or is not.
LEMMA RecordPreSettled ==
    ASSUME IInv, SInv, NEW o \in SelfOrders, RecordPreTx(o)
    PROVE  SInv'
  <1> USE DEF orderVars, payVars, rowVars, chainVars
  <1>0. /\ job = "pre" /\ sent # NoSend /\ sent[1] = o /\ sending = NoSend /\ Finish(o)
        /\ TxToolNext /\ [Next]_vars /\ sent \in Own /\ AwaitsRow(sent)
    BY DEF RecordPreTx, TxToolNext, Next, SInv, BatchOK, IInv, TypeOK, AwaitsRow
  <1>1. UNCHANGED <<orderVars, payVars, applyRow, proposeRow, chainVars, unrefund>>
    BY DEF RecordPreTx
  <1>2. ToolShrinks
    BY <1>0, FinishShrinks DEF SInv
  <1>3. CASE UNCHANGED preRow
    BY <1>0, <1>1, <1>2, <1>3, ToolOnlySettled
  <1>4. CASE preRow' = [preRow EXCEPT ![sent] = "Default"]
    <2>1. \A k \in Own : /\ preRow'[k] = preRow[k] \/ AwaitsRow(k)
                         /\ AwaitsRow(k)' => AwaitsRow(k)
      BY <1>0, <1>2, <1>4, AwaitsKept DEF IInv, TypeOK
    <2>2. BatchOK'
      BY <1>0, <1>1, <1>2, BatchKept DEF SInv, Open
    <2>3. OneFlight'
      BY <1>1, <1>2, <2>1, FlightKept DEF SInv, Flying
    <2>4. OneStage'
      BY <1>1, <1>2, StageKept DEF SInv, Owed, InBlocks
    <2>5. ApplyOnce' /\ Sequenced' /\ Follows'
      BY <1>0, <1>1, ApplyKept, SequencedKept, FollowsKept DEF SInv
    <2>6. ClosedIsOver'
      <3>1. \A q \in SelfOrders, k \in Own : (Claims(q, k)' => Claims(q, k)) /\ (Forfeited(k) => Forfeited(k)')
        BY <1>1, <2>1 DEF Claims, Forfeited
      <3>2. \A q \in SelfOrders : Lost(q) => Lost(q)'
        BY <1>1, <3>1, LostKept
      <3> QED BY <1>1, <3>2, OverKept DEF SInv, Closed
    <2> QED BY <2>2, <2>3, <2>4, <2>5, <2>6 DEF SInv
  <1> QED BY <1>3, <1>4 DEF RecordPreTx, CreateOrderTx

LEMMA TxToolSettled == AppliesInTurn /\ IInv /\ SInv /\ TxToolNext => SInv'
  BY ListSettled, ApplyTxSettled, SendApplySettled, RecordApplySettled,
     PreTxSettled, SendPreSettled, RecordPreSettled DEF TxToolNext

-----------------------------------------------------------------------------
(* The chain and the keepers.                                              *)

\* How the node and the keepers move a transaction.
PreMoves ==
    \A k \in Own : \/ preTx'[k] = preTx[k]
                   \/ preTx[k] = "pool" /\ preTx'[k] \in {"live", "rejected"}
                   \/ preTx[k] \in {"live", "proposed"} /\ preTx'[k] \in {"dead", "proposed"}
                   \/ preTx[k] = "proposed" /\ preTx'[k] = "confirmed" /\ ~OnChain(Acct(k))

ApplyMoves ==
    \A k \in Own : \/ applyTx'[k] = applyTx[k]
                   \/ applyTx[k] = "pool" /\ applyTx'[k] \in {"live", "rejected"}
                   \/ /\ applyTx[k] = "live" /\ applyTx'[k] = "dead"
                      /\ "recycle" \in Faults \/ \E h \in Own : h[1] = k[1] /\ OnLedger(h)'

BlockMoves ==
    \/ UNCHANGED blocks
    \/ \E e \in Events : /\ blocks' = Append(blocks, e)
                         /\ e[1] = "apply" => /\ e[2] \in Own /\ e = <<"apply", e[2]>>
                                              /\ applyTx[e[2]] = "pool" /\ applyTx'[e[2]] = "live"
                         /\ \A h \in Own : e = <<"propose", h>> => preTx[h] = "live"

LEMMA ChainMoves ==
    ASSUME IInv, ChainNext
    PROVE  PreMoves /\ ApplyMoves /\ BlockMoves
  <1> USE DEF PreMoves, ApplyMoves, BlockMoves, IInv, TypeOK
  <1>1. ASSUME NEW h \in Own, CommitApply(h) PROVE PreMoves /\ ApplyMoves /\ BlockMoves
    <2>1. <<"apply", h>> \in Events /\ <<"apply", h>>[1] = "apply" /\ <<"apply", h>>[2] = h
      BY DEF Events
    <2>2. blocks' = Append(blocks, <<"apply", h>>) /\ applyTx[h] = "pool" /\ applyTx'[h] = "live" /\ UNCHANGED preTx
      BY <1>1 DEF CommitApply
    <2>3. BlockMoves
      BY ONLY <2>1, <2>2 DEF BlockMoves
    <2> QED BY <1>1, <2>2, <2>3 DEF CommitApply
  <1>2. ASSUME NEW h \in Own, RejectApply(h) PROVE PreMoves /\ ApplyMoves /\ BlockMoves
    BY <1>2 DEF RejectApply
  <1>3. ASSUME NEW h \in Own, CommitPre(h) PROVE PreMoves /\ ApplyMoves /\ BlockMoves
    <2>1. <<"pre", h>> \in Events /\ <<"pre", h>>[1] # "apply" /\ h \in PreTxs
      BY OwnFacts DEF Events
    <2>2. /\ preTx[h] = "pool" /\ preTx' = [preTx EXCEPT ![h] = "live"] /\ preTx'[h] = "live"
          /\ blocks' = Append(blocks, <<"pre", h>>)
          /\ applyTx[<<h[1], spends[h]>>] = "live"
          /\ applyTx' = [applyTx EXCEPT ![<<h[1], spends[h]>>] = "dead"]
      BY <1>3, <2>1 DEF CommitPre
    <2>3. PreMoves
      BY <2>1, <2>2, OwnFacts
    <2>4. OnLedger(h)'
      BY <2>2 DEF OnLedger, LedgerStates
    <2>5. ApplyMoves
      <3>1. \A k \in Own : k = <<h[1], spends[h]>> => k[1] = h[1]
        OBVIOUS
      <3> QED BY <2>2, <2>4, <3>1
    <2>6. BlockMoves
      BY ONLY <2>1, <2>2 DEF BlockMoves
    <2> QED BY <2>3, <2>5, <2>6
  <1>4. ASSUME NEW h \in Own, RejectPre(h) PROVE PreMoves /\ ApplyMoves /\ BlockMoves
    BY <1>4, OwnFacts DEF RejectPre
  <1>5. ASSUME NEW h \in Own, DoRecycleApply(h) PROVE PreMoves /\ ApplyMoves /\ BlockMoves
    BY <1>5 DEF DoRecycleApply
  <1>6. ASSUME NEW h \in OtherPres, OtherPre(h) PROVE PreMoves /\ ApplyMoves /\ BlockMoves
    <2>1. <<"pre", h>> \in Events /\ <<"pre", h>>[1] # "apply" /\ h \notin Own
      BY RegistrationAssumption DEF Events, PreTxs
    <2>2. BlockMoves
      BY ONLY <1>6, <2>1 DEF BlockMoves, OtherPre
    <2> QED BY <1>6, <2>1, <2>2, OwnFacts DEF OtherPre
  <1>7. ASSUME NEW h \in PreTxs, Propose(h) PROVE PreMoves /\ ApplyMoves /\ BlockMoves
    <2>1. /\ <<"propose", h>> \in Events /\ <<"propose", h>>[1] # "apply"
          /\ \A k : <<"propose", h>> = <<"propose", k>> => h = k
      BY DEF Events
    <2>2. BlockMoves
      BY ONLY <1>7, <2>1 DEF BlockMoves, Propose
    <2> QED BY <1>7, <2>2, OwnFacts DEF Propose
  <1>8. ASSUME NEW h \in PreTxs, Confirm(h) PROVE PreMoves /\ ApplyMoves /\ BlockMoves
    <2>1. <<"confirm", h>> \in Events /\ <<"confirm", h>>[1] # "apply"
      BY DEF Events
    <2>2. BlockMoves
      BY ONLY <1>8, <2>1 DEF BlockMoves, Confirm
    <2> QED BY <1>8, <2>2, OwnFacts DEF Confirm
  <1>9. ASSUME NEW h \in PreTxs, DoRecyclePre(h) PROVE PreMoves /\ ApplyMoves /\ BlockMoves
    BY <1>9, OwnFacts DEF DoRecyclePre
  <1> QED BY <1>1, <1>2, <1>3, <1>4, <1>5, <1>6, <1>7, <1>8, <1>9 DEF ChainNext

\* What is in the blocks after a transaction was committed.
LEMMA BlocksAfter ==
    ASSUME IInv, NEW e \in Events, blocks' = Append(blocks, e)
    PROVE  /\ Len(blocks') = Len(blocks) + 1 /\ Len(blocks) \in Nat
           /\ blocks'[Len(blocks) + 1] = e
           /\ \A i \in 1..Len(blocks) : blocks'[i] = blocks[i] /\ blocks[i] \in Events
           /\ \A i \in 1..Len(blocks') : i \in 1..Len(blocks) \/ i = Len(blocks) + 1
  <1>1. blocks \in Seq(Events)
    BY DEF IInv, TypeOK
  <1> QED BY <1>1

LEMMA ChainSettled == IInv /\ SInv /\ ChainNext => SInv'
  <1> SUFFICES ASSUME IInv, SInv, ChainNext PROVE SInv'
    OBVIOUS
  <1> USE DEF orderVars, payVars, rowVars, toolVars
  <1>0. /\ UNCHANGED <<orderStatus, payStatus, preStatus, regStatus, payRow, refund, applyRow, preRow,
                       proposeRow, job, todo, sending, sent, unrefund>>
        /\ [Next]_vars /\ PreMoves /\ ApplyMoves /\ BlockMoves
    BY ChainFrame, ChainMoves DEF Next
  <1>1. BatchOK'
    BY <1>0, BatchKept DEF SInv, Open
  <1>2. OneFlight'
    BY <1>0, FlightKept DEF SInv, Flying, AwaitsRow, PreMoves
  <1>3. OneStage'
    <2>1. ASSUME NEW h \in Own, InBlocks(<<"apply", h>>)' PROVE InBlocks(<<"apply", h>>) \/ applyTx[h] = "pool"
      <3>1. CASE UNCHANGED blocks
        BY <2>1, <3>1 DEF InBlocks
      <3>2. ASSUME NEW e \in Events, blocks' = Append(blocks, e),
                   e[1] = "apply" => e = <<"apply", e[2]>> /\ applyTx[e[2]] = "pool"
            PROVE  InBlocks(<<"apply", h>>) \/ applyTx[h] = "pool"
        <4>1. PICK i \in 1..Len(blocks') : blocks'[i] = <<"apply", h>>
          BY <2>1 DEF InBlocks
        <4>2. CASE i \in 1..Len(blocks)
          BY <3>2, <4>1, <4>2, BlocksAfter DEF InBlocks
        <4>3. CASE i = Len(blocks) + 1
          BY <3>2, <4>1, <4>3, BlocksAfter
        <4> QED BY <3>2, <4>2, <4>3, BlocksAfter
      <3> QED BY <1>0, <3>1, <3>2 DEF BlockMoves
    <2>2. \A h \in Own : Owed(h)' => Owed(h)
      BY <1>0, <2>1 DEF Owed, ApplyMoves
    <2> QED BY <1>0, <2>2, StageKept DEF SInv
  <1>4. ApplyOnce'
    <2>0. ApplyOnce
      BY DEF SInv
    <2>1. \A k \in Own : applyTx[k] \in {"live", "dead"} => applyTx'[k] \in {"live", "dead"}
      BY <1>0 DEF ApplyMoves
    <2>2. \A h \in Own : applyRow'[h] = "Confirm" => applyTx'[h] \in {"live", "dead"}
      BY <1>0, <2>0, <2>1 DEF ApplyOnce
    <2>3. "recycle" \notin Faults
             => \A h \in Own : applyTx'[h] = "dead" => \E k \in Own : k[1] = h[1] /\ OnLedger(k)'
      <3>1. \A k \in Own : OnLedger(k) => OnLedger(k)'
        BY <1>0, TxsStep, OwnFacts DEF TxsStable
      <3> QED BY <1>0, <2>0, <3>1 DEF ApplyOnce, ApplyMoves
    <2>4. /\ \A i, j \in 1..Len(blocks') : blocks'[i][1] = "apply" /\ blocks'[i] = blocks'[j] => i = j
          /\ \A i \in 1..Len(blocks') : blocks'[i][1] = "apply" => applyTx'[blocks'[i][2]] \in {"live", "dead"}
      <3>0. \A i \in 1..Len(blocks) : blocks[i][1] = "apply" => blocks[i][2] \in Own
        <4>1. \A i \in 1..Len(blocks) : blocks[i] \in Events
          BY DEF IInv, TypeOK
        <4> QED BY <4>1 DEF Events
      <3>1. CASE UNCHANGED blocks
        BY <2>0, <2>1, <3>0, <3>1 DEF ApplyOnce
      <3>2. ASSUME NEW e \in Events, blocks' = Append(blocks, e),
                   e[1] = "apply" => /\ e[2] \in Own /\ applyTx[e[2]] = "pool" /\ applyTx'[e[2]] = "live"
            PROVE  /\ \A i, j \in 1..Len(blocks') : blocks'[i][1] = "apply" /\ blocks'[i] = blocks'[j] => i = j
                   /\ \A i \in 1..Len(blocks') : blocks'[i][1] = "apply"
                                                    => applyTx'[blocks'[i][2]] \in {"live", "dead"}
        <4>1. /\ blocks'[Len(blocks) + 1] = e
              /\ \A i \in 1..Len(blocks) : blocks'[i] = blocks[i]
              /\ \A i \in 1..Len(blocks') : i \in 1..Len(blocks) \/ i = Len(blocks) + 1
          BY <3>2, BlocksAfter
        <4>2. \A i \in 1..Len(blocks) : blocks[i][1] = "apply" => blocks[i] # e
          BY <2>0, <3>2 DEF ApplyOnce
        <4>3. \A i \in 1..Len(blocks') : blocks'[i][1] = "apply" => applyTx'[blocks'[i][2]] \in {"live", "dead"}
          BY <2>0, <2>1, <3>0, <3>2, <4>1 DEF ApplyOnce
        <4>4. \A i, j \in 1..Len(blocks') : blocks'[i][1] = "apply" /\ blocks'[i] = blocks'[j] => i = j
          BY <2>0, <4>1, <4>2 DEF ApplyOnce
        <4> QED BY <4>3, <4>4
      <3> QED BY <1>0, <3>1, <3>2 DEF BlockMoves
    <2> QED BY <2>2, <2>3, <2>4 DEF ApplyOnce
  <1>5. Follows'
    BY <1>0, FollowsKept DEF SInv
  <1>6. ClosedIsOver'
    <2>1. ASSUME NEW o \in SelfOrders, Lost(o) PROVE Lost(o)'
      <3>1. \A k \in Own : (Claims(o, k)' <=> Claims(o, k)) /\ (Forfeited(k)' <=> Forfeited(k))
        BY <1>0 DEF Claims, AwaitsRow, Forfeited
      <3>2. CASE OnChain(AccountOf[o])
        <4>1. OnChain(AccountOf[o])'
          BY <1>0, <3>2, OnChainStable
        <4>2. \A k \in Own : Claims(o, k) => Acct(k) = AccountOf[o]
          BY OwnFacts DEF Claims
        <4>3. ~Won(o)'
          BY <1>0, <2>1, <3>1, <3>2, <4>2 DEF Lost, Won, PreMoves
        <4> QED BY <4>1, <4>3 DEF Lost
      <3>3. CASE Grounded(o)
        <4>1. Grounded(o)'
          BY <1>0, <3>1, <3>3 DEF Grounded, PreMoves
        <4>2. ~Won(o)'
          BY <4>1 DEF Grounded, Won
        <4> QED BY <4>1, <4>2 DEF Lost
      <3> QED BY <2>1, <3>2, <3>3 DEF Lost
    <2> QED BY <1>0, <2>1, OverKept DEF SInv, Closed
  <1>7. Sequenced'
    <2>0. Sequenced
      BY DEF SInv
    <2>1. \A h \in Own : regStatus[h] = Registered => preTx[h] = "confirmed"
      BY RegisteredOwn
    <2>2. CASE UNCHANGED blocks
      BY <1>0, <2>0, <2>2, SequencedKept
    <2>3. ASSUME NEW e \in Events, blocks' = Append(blocks, e),
                 \A h \in Own : e = <<"propose", h>> => preTx[h] = "live"
          PROVE  Sequenced'
      <3>1. /\ Len(blocks) \in Nat /\ Len(blocks') = Len(blocks) + 1 /\ blocks'[Len(blocks) + 1] = e
            /\ \A i \in 1..Len(blocks) : blocks'[i] = blocks[i]
            /\ \A i \in 1..Len(blocks') : i \in 1..Len(blocks) \/ i = Len(blocks) + 1
        BY <2>3, BlocksAfter
      <3>2. \A h \in Own, i \in 1..Len(blocks) : blocks[i] = <<"confirm", h>> => preTx[h] = "confirmed"
        BY DEF IInv, LedgerSound
      <3>3. ASSUME NEW h \in Own, NEW i \in 1..Len(blocks'), NEW j \in 1..Len(blocks'),
                   blocks'[i] = <<"confirm", h>>, blocks'[j] = <<"propose", h>>
            PROVE  j < i
        <4>1. CASE j = Len(blocks) + 1
          <5>1. e = <<"propose", h>>
            BY <3>1, <3>3, <4>1
          <5>2. preTx[h] = "live" /\ <<"propose", h>> # <<"confirm", h>>
            BY <2>3, <5>1
          <5> QED BY <3>1, <3>2, <3>3, <5>1, <5>2
        <4>2. CASE j \in 1..Len(blocks) /\ i = Len(blocks) + 1
          BY <3>1, <4>2
        <4>3. CASE j \in 1..Len(blocks) /\ i \in 1..Len(blocks)
          BY <2>0, <3>1, <3>3, <4>3 DEF Sequenced
        <4> QED BY <3>1, <4>1, <4>2, <4>3
      <3>4. ASSUME NEW h \in Own, regStatus[h] = Registered PROVE ~InBlocks(<<"propose", h>>)'
        <4> SUFFICES ASSUME NEW j \in 1..Len(blocks'), blocks'[j] = <<"propose", h>> PROVE FALSE
          BY DEF InBlocks
        <4>1. CASE j = Len(blocks) + 1
          BY <2>1, <2>3, <3>1, <3>4, <4>1
        <4>2. CASE j \in 1..Len(blocks)
          BY <2>0, <3>1, <3>4, <4>2 DEF Sequenced, InBlocks
        <4> QED BY <3>1, <4>1, <4>2
      <3> QED BY <1>0, <2>0, <3>3, <3>4 DEF Sequenced
    <2> QED BY <1>0, <2>2, <2>3 DEF BlockMoves
  <1> QED BY <1>1, <1>2, <1>3, <1>4, <1>5, <1>6, <1>7 DEF SInv

-----------------------------------------------------------------------------
(* block_parser.                                                           *)

\* Only DoActionConfirmProposal makes an order Registered, and nothing undoes it.
LEMMA GrantedStep ==
    ASSUME IInv, [Next]_vars
    PROVE  \/ \A x \in Orders : regStatus'[x] = Registered <=> regStatus[x] = Registered
           \/ /\ ParseBlock
              /\ \E h \in PreTxs : Head(blocks) = <<"confirm", h>> /\ ActionConfirmProposal(h)
  <1> DEFINE Same == \A x \in Orders : regStatus'[x] = Registered <=> regStatus[x] = Registered
  <1>1. CASE HttpNext
    BY <1>1, HttpGrants
  <1>2. CASE ParseBlock
    <2>1. PICK k, h : Head(blocks) = <<k, h>> /\ (k = "apply" => h \in Own) /\ (k # "apply" => h \in PreTxs)
      <3>1. Head(blocks) \in Events
        BY <1>2 DEF IInv, TypeOK, ParseBlock
      <3> QED BY <3>1 DEF Events
    <2>2. CASE k = "apply" /\ ActionApplyRegister(h)
      <3>1. regStatus' = regStatus \/ (regStatus[h[1]] < 3 /\ regStatus' = [regStatus EXCEPT ![h[1]] = 3])
        BY <2>2 DEF ActionApplyRegister, PreRegister
      <3> QED BY <3>1 DEF Registered, IInv, TypeOK
    <2>3. CASE k # "apply" /\ ActionPreRegister(h)
      <3>1. CASE PreOrders(h) # {}
        <4>1. PICK x \in Orders : regStatus' = regStatus \/ (regStatus[x] < 4 /\ regStatus' = [regStatus EXCEPT ![x] = 4])
          BY <2>3, <3>1 DEF ActionPreRegister, PreOrders, Proposal
        <4> QED BY <4>1 DEF Registered, IInv, TypeOK
      <3>2. CASE PreOrders(h) = {}
        <4>1. h \in Orders /\ regStatus[h] = 0
          BY <2>1, <2>3, <3>2 DEF IInv, Unborn, PreOrders, Orders
        <4>2. regStatus' = [regStatus EXCEPT ![h] = 4]
          BY <2>3, <3>2 DEF ActionPreRegister, Proposal
        <4> QED BY <4>1, <4>2 DEF Registered, IInv, TypeOK
      <3> QED BY <3>1, <3>2
    <2>4. CASE k # "apply" /\ ActionPropose(h)
      <3>1. \A x \in Orders : regStatus'[x] = regStatus[x] \/ (regStatus[x] = 4 /\ regStatus'[x] = 5)
        BY <2>4 DEF ActionPropose, Proposal, ConfirmProposal
      <3> QED BY <3>1 DEF Registered
    <2> QED BY <1>2, <2>1, <2>2, <2>3, <2>4 DEF ParseBlock, Handle
  <1>3. CASE UNCHANGED regStatus
    BY <1>3
  <1>4. CASE TxToolNext \/ ChainNext \/ TimerNext \/ Crash \/ Age \/ UNCHANGED vars
    BY <1>3, <1>4, TxToolFrame, ChainFrame, TimerFrame DEF orderVars, vars
  <1> QED BY <1>1, <1>2, <1>4 DEF Next

\* The event being handled is in the blocks, and what is left is as it was.
LEMMA Handled ==
    ASSUME IInv, SInv, ParseBlock
    PROVE  /\ [Next]_vars /\ UNCHANGED <<payStatus, payRow, applyTx, preTx, job, todo, sending, sent, unrefund>>
           /\ Head(blocks)[1] = "apply" => /\ Head(blocks)[2] \in Own
                                           /\ Head(blocks) = <<"apply", Head(blocks)[2]>>
                                           /\ applyTx[Head(blocks)[2]] \in {"live", "dead"}
           /\ Head(blocks)[1] # "apply" => Head(blocks)[2] \in PreTxs /\ OnLedger(Head(blocks)[2])
           /\ Head(blocks)[1] = "confirm" => preTx[Head(blocks)[2]] = "confirmed"
           /\ InBlocks(Head(blocks))
           /\ \A e : InBlocks(e)' => InBlocks(e)
           /\ "replay" \notin Faults
                 => \A h \in Own : Head(blocks) = <<"apply", h>> => ~InBlocks(<<"apply", h>>)'
           /\ \A i, j \in 1..Len(blocks') : blocks'[i][1] = "apply" /\ blocks'[i] = blocks'[j] => i = j
           /\ \A i \in 1..Len(blocks') : blocks'[i][1] = "apply" => applyTx[blocks'[i][2]] \in {"live", "dead"}
  <1>0. [Next]_vars /\ UNCHANGED <<payStatus, payRow, applyTx, preTx, job, todo, sending, sent, unrefund>>
    BY ParserFrame DEF Next, toolVars
  <1>1. blocks \in Seq(Events) /\ blocks # <<>> /\ Len(blocks) \in Nat
    BY DEF IInv, TypeOK, ParseBlock
  <1>2. Head(blocks) = blocks[1] /\ 1 \in 1..Len(blocks) /\ Head(blocks) \in Events
    BY <1>1
  <1>3. /\ Head(blocks)[1] = "apply" => Head(blocks)[2] \in Own /\ Head(blocks) = <<"apply", Head(blocks)[2]>>
        /\ Head(blocks)[1] # "apply" => Head(blocks)[2] \in PreTxs
    BY <1>2 DEF Events
  <1>4. /\ Head(blocks)[1] = "apply" => applyTx[Head(blocks)[2]] \in {"live", "dead"}
        /\ Head(blocks)[1] # "apply" => OnLedger(Head(blocks)[2])
        /\ Head(blocks)[1] = "confirm" => preTx[Head(blocks)[2]] = "confirmed"
        /\ InBlocks(Head(blocks))
    BY <1>2 DEF SInv, ApplyOnce, IInv, LedgerSound, InBlocks
  <1>5. CASE blocks' = blocks /\ "replay" \in Faults
    BY <1>0, <1>3, <1>4, <1>5 DEF SInv, ApplyOnce, InBlocks
  <1>6. CASE blocks' = Tail(blocks)
    <2>1. \A i \in 1..Len(blocks') : i + 1 \in 1..Len(blocks) /\ blocks'[i] = blocks[i + 1] /\ i + 1 # 1
      BY <1>1, <1>6
    <2>2. \A e : InBlocks(e)' => InBlocks(e)
      BY <2>1 DEF InBlocks
    <2>3. \A h \in Own : Head(blocks) = <<"apply", h>> => ~InBlocks(<<"apply", h>>)'
      <3>1. ASSUME Head(blocks)[1] = "apply", NEW i \in 1..Len(blocks'), blocks'[i] = Head(blocks) PROVE FALSE
        BY <1>2, <2>1, <3>1 DEF SInv, ApplyOnce
      <3> QED BY <3>1 DEF InBlocks
    <2>4. \A i, j \in 1..Len(blocks') : blocks'[i][1] = "apply" /\ blocks'[i] = blocks'[j] => i = j
      <3> SUFFICES ASSUME NEW i \in 1..Len(blocks'), NEW j \in 1..Len(blocks'),
                          blocks'[i][1] = "apply", blocks'[i] = blocks'[j]
                   PROVE  i = j
        OBVIOUS
      <3>1. /\ i + 1 \in 1..Len(blocks) /\ blocks'[i] = blocks[i + 1]
            /\ j + 1 \in 1..Len(blocks) /\ blocks'[j] = blocks[j + 1]
        BY <2>1
      <3>2. i + 1 = j + 1
        BY <3>1 DEF SInv, ApplyOnce
      <3> QED BY <3>2
    <2>5. \A i \in 1..Len(blocks') : blocks'[i][1] = "apply" => applyTx[blocks'[i][2]] \in {"live", "dead"}
      BY <2>1 DEF SInv, ApplyOnce
    <2> QED BY <1>0, <1>3, <1>4, <2>2, <2>3, <2>4, <2>5
  <1> QED BY <1>5, <1>6 DEF ParseBlock

\* The parser does not meet a proposal again after it confirmed it.
LEMMA ParsedOrder ==
    ASSUME IInv, SInv, ParseBlock
    PROVE  /\ \A h \in Own : \A i, j \in 1..Len(blocks') :
                 blocks'[i] = <<"confirm", h>> /\ blocks'[j] = <<"propose", h>> => j < i
           /\ \A h \in Own : Head(blocks) = <<"confirm", h>> => ~InBlocks(<<"propose", h>>)
           /\ \A h \in Own : Head(blocks) = <<"propose", h>> => regStatus[h] # Registered
  <1>0. Sequenced
    BY DEF SInv
  <1>1. blocks \in Seq(Events) /\ blocks # <<>> /\ Len(blocks) \in Nat
    BY DEF IInv, TypeOK, ParseBlock
  <1>2. Head(blocks) = blocks[1] /\ 1 \in 1..Len(blocks)
    BY <1>1
  <1>3. \A h \in Own : Head(blocks) = <<"confirm", h>> => ~InBlocks(<<"propose", h>>)
    <2> SUFFICES ASSUME NEW h \in Own, blocks[1] = <<"confirm", h>>, NEW j \in 1..Len(blocks),
                        blocks[j] = <<"propose", h>>
                 PROVE  FALSE
      BY <1>2 DEF InBlocks
    <2>1. j < 1
      BY <1>0, <1>2 DEF Sequenced
    <2> QED BY <1>1, <2>1
  <1>4. \A h \in Own : Head(blocks) = <<"propose", h>> => regStatus[h] # Registered
    BY <1>0, <1>2 DEF Sequenced, InBlocks
  <1>5. CASE blocks' = blocks
    BY <1>0, <1>3, <1>4, <1>5 DEF Sequenced
  <1>6. CASE blocks' = Tail(blocks)
    <2>1. \A i \in 1..Len(blocks') : i + 1 \in 1..Len(blocks) /\ blocks'[i] = blocks[i + 1]
      BY <1>1, <1>6
    <2>2. ASSUME NEW h \in Own, NEW i \in 1..Len(blocks'), NEW j \in 1..Len(blocks'),
                 blocks'[i] = <<"confirm", h>>, blocks'[j] = <<"propose", h>>
          PROVE  j < i
      <3>1. j + 1 < i + 1
        BY <1>0, <2>1, <2>2 DEF Sequenced
      <3> QED BY <3>1
    <2> QED BY <1>3, <1>4, <2>2
  <1> QED BY <1>5, <1>6 DEF ParseBlock

\* A handler that grants nothing and proposes no granted transaction again.
LEMMA ParsedSequence ==
    ASSUME IInv, SInv, ParseBlock,
           \A x \in Orders : regStatus'[x] = Registered <=> regStatus[x] = Registered,
           \A h \in Own : regStatus[h] = Registered => proposeRow'[h] = proposeRow[h]
    PROVE  Sequenced'
  <1>1. Sequenced /\ \A e : InBlocks(e)' => InBlocks(e)
    BY Handled DEF SInv
  <1> QED BY <1>1, ParsedOrder, OwnFacts DEF Sequenced

LEMMA ParsedOnce ==
    ASSUME IInv, SInv, ParseBlock,
           \A h \in Own : applyRow'[h] = "Confirm" => applyRow[h] = "Confirm" \/ applyTx[h] \in {"live", "dead"}
    PROVE  ApplyOnce'
  <1>1. ApplyOnce
    BY DEF SInv
  <1>2. UNCHANGED <<applyTx, preTx>>
    BY Handled
  <1>3. \A h \in Own : applyRow'[h] = "Confirm" => applyTx'[h] \in {"live", "dead"}
    BY <1>1, <1>2 DEF ApplyOnce
  <1>4. "recycle" \notin Faults
           => \A h \in Own : applyTx'[h] = "dead" => \E k \in Own : k[1] = h[1] /\ OnLedger(k)'
    BY <1>1, <1>2 DEF ApplyOnce, OnLedger
  <1> QED BY <1>2, <1>3, <1>4, Handled DEF ApplyOnce

LEMMA ParsedApply ==
    ASSUME IInv, SInv, ParseBlock, NEW h \in Own, Head(blocks) = <<"apply", h>>, ActionApplyRegister(h)
    PROVE  SInv'
  <1> DEFINE o == h[1]
  <1>0. /\ [Next]_vars /\ o \in SelfOrders /\ o \in Orders
        /\ UNCHANGED <<payStatus, payRow, applyTx, preTx, job, todo, sending, sent, unrefund>>
        /\ UNCHANGED <<orderStatus, refund, preRow, proposeRow>>
        /\ applyTx[h] \in {"live", "dead"} /\ InBlocks(<<"apply", h>>)
        /\ "replay" \notin Faults => ~InBlocks(<<"apply", h>>)'
        /\ \A k \in Own : InBlocks(<<"apply", k>>)' => InBlocks(<<"apply", k>>)
    BY Handled, OwnFacts DEF ActionApplyRegister
  <1>1. /\ \A k \in Own : k # h => applyRow'[k] = applyRow[k]
        /\ applyRow'[h] = IF applyRow[h] = "none" THEN "none" ELSE "Confirm"
    BY DEF ActionApplyRegister, IInv, TypeOK
  <1>2. /\ \A q \in SelfOrders : q # o => preStatus'[q] = preStatus[q] /\ regStatus'[q] = regStatus[q]
        /\ \/ UNCHANGED <<preStatus, regStatus>>
           \/ /\ applyRow[h] # "none"
              /\ preStatus'[o] = preStatus[o] \/ preStatus[o] = "Default"
              /\ \/ regStatus[o] >= PreRegister /\ regStatus'[o] = regStatus[o]
                 \/ regStatus[o] < PreRegister /\ regStatus'[o] = PreRegister
    <2>1. CASE applyRow[h] = "none"
      BY <2>1 DEF ActionApplyRegister
    <2>2. CASE applyRow[h] # "none"
      <3>1. /\ preStatus' = preStatus \/ (preStatus[o] = "Default" /\ preStatus' = [preStatus EXCEPT ![o] = "Sending"])
            /\ regStatus' = IF regStatus[o] < PreRegister THEN [regStatus EXCEPT ![o] = PreRegister] ELSE regStatus
        BY <2>2 DEF ActionApplyRegister, CAS
      <3>2. regStatus[o] < PreRegister \/ regStatus[o] >= PreRegister
        <4>1. regStatus[o] \in 0..6
          BY <1>0, RegFacts
        <4> QED BY ONLY <4>1 DEF PreRegister
      <3> QED BY <1>0, <2>2, <3>1, <3>2, AcctFacts DEF IInv, TypeOK
    <2> QED BY <2>1, <2>2
  <1>3. \A q \in SelfOrders : /\ regStatus[q] >= PreRegister => regStatus'[q] >= PreRegister
                              /\ regStatus'[q] > PreRegister => regStatus[q] > PreRegister
                              /\ regStatus'[q] = Registered <=> regStatus[q] = Registered
    <2>1. \A q \in SelfOrders : regStatus[q] \in 0..6
      BY RegFacts, AcctFacts
    <2> QED BY ONLY <1>2, <2>1 DEF PreRegister, Registered
  <1>4. BatchOK'
    <2>1. job = "pre" => \A q \in todo : preStatus[q] # "Default" /\ q \in SelfOrders
      BY DEF SInv, BatchOK, IInv, TypeOK
    <2> QED BY <1>0, <1>2, <2>1, BatchKept DEF SInv, Open
  <1>5. OneFlight'
    <2>1. \A q \in SelfOrders : preStatus[q] = "Ok" => preStatus'[q] = "Ok"
      BY <1>2
    <2> QED BY <1>0, <2>1, FlightKept, OwnFacts DEF SInv, Flying, AwaitsRow
  <1>6. OneStage'
    <2>0. OneStage
      BY DEF SInv
    <2>1. applyRow[h] # "none" => Owed(h)
      BY <1>0 DEF Owed
    <2>2. \A k \in Own : Owed(k)' => Owed(k)
      BY <1>0, <1>1 DEF Owed
    <2>3. "replay" \notin Faults => ~Owed(h)'
      BY <1>0 DEF Owed
    <2>4. \A q \in SelfOrders : Applying(q)' <=> Applying(q)
      BY <1>0 DEF Applying
    <2>5. ASSUME NEW q \in SelfOrders, preStatus'[q] # "Default"
          PROVE  payStatus[q] = "Ok" /\ ~Applying(q) /\ regStatus'[q] >= PreRegister
      <3>1. CASE preStatus[q] # "Default"
        BY <1>3, <2>0, <3>1 DEF OneStage
      <3>2. CASE preStatus[q] = "Default"
        <4>1. q = o /\ applyRow[h] # "none" /\ (regStatus'[o] = PreRegister \/ regStatus[o] >= PreRegister)
          BY <1>2, <2>5, <3>2
        <4>2. regStatus'[o] >= PreRegister
          BY <1>0, <1>3, <4>1 DEF PreRegister
        <4> QED BY <2>0, <2>1, <4>1, <4>2 DEF OneStage
      <3> QED BY <3>1, <3>2
    <2>6. ASSUME NEW k \in Own, Owed(k)', "replay" \notin Faults PROVE preStatus'[k[1]] = "Default"
      <3>1. Owed(k) /\ k # h /\ preStatus[k[1]] = "Default" /\ k[1] \in SelfOrders
        BY <2>0, <2>2, <2>3, <2>6, OwnFacts DEF OneStage
      <3>2. CASE k[1] = o
        <4>1. applyRow[h] = "none"
          BY <2>0, <2>1, <3>1, <3>2 DEF OneStage
        <4> QED BY <1>2, <3>1, <4>1
      <3> QED BY <1>2, <3>1, <3>2
    <2> QED BY <1>0, <2>0, <2>2, <2>4, <2>5, <2>6, OwnFacts DEF OneStage
  <1>7. ApplyOnce'
    BY <1>0, <1>1, ParsedOnce
  <1>8. Follows'
    BY <1>0, <1>3 DEF SInv, Follows, Recorded, OnLedger, Exists
  <1>10. \A x \in Orders : regStatus'[x] = Registered <=> regStatus[x] = Registered
    BY <1>0, GrantedStep
  <1>11. Sequenced'
    BY <1>0, <1>10, ParsedSequence
  <1>9. ClosedIsOver'
    BY <1>0, <1>3, <1>10, OwnFacts, LostSame, PayFacts DEF SInv, ClosedIsOver, Closed, IInv, TypeOK
  <1> QED BY <1>4, <1>5, <1>6, <1>7, <1>8, <1>9, <1>11 DEF SInv

\* The other handlers leave txtool's columns and the apply rows alone.
LEMMA ParsedOther ==
    ASSUME IInv, SInv, ParseBlock, UNCHANGED <<preStatus, applyRow>>,
           \A k \in Own : /\ preRow'[k] = "none" <=> preRow[k] = "none"
                          /\ preRow'[k] = "Default" => preRow[k] = "Default"
                          /\ Forfeited(k) => Forfeited(k)',
           \A q \in SelfOrders : /\ regStatus[q] >= PreRegister => regStatus'[q] >= PreRegister
                                 /\ Open(q) => Open(q)' \/ OnChain(AccountOf[q])
    PROVE  /\ BatchOK' /\ OneFlight' /\ OneStage' /\ ApplyOnce'
           /\ \A q \in SelfOrders : Lost(q) => Lost(q)'
  <1>0. /\ [Next]_vars /\ UNCHANGED <<payStatus, payRow, applyTx, preTx, job, todo, sending, sent, unrefund>>
        /\ \A k \in Own : InBlocks(<<"apply", k>>)' => InBlocks(<<"apply", k>>)
    BY Handled
  <1>1. BatchOK'
    <2>1. \A q \in todo' : q \in SelfOrders /\ (OnChain(AccountOf[q]) => OnChain(AccountOf[q])')
      BY <1>0, OnChainStable DEF IInv, TypeOK
    <2> QED BY <1>0, <2>1, BatchKept DEF SInv
  <1>2. OneFlight'
    BY <1>0, FlightKept DEF SInv, Flying, AwaitsRow
  <1>3. OneStage'
    <2>1. \A k \in Own : Owed(k)' => Owed(k)
      BY <1>0 DEF Owed
    <2> QED BY <1>0, <2>1, StageKept DEF SInv
  <1>4. ApplyOnce'
    BY ParsedOnce
  <1>5. \A q \in SelfOrders : Lost(q) => Lost(q)'
    <2>1. \A q \in SelfOrders, k \in Own : Claims(q, k)' => Claims(q, k)
      BY <1>0 DEF Claims, AwaitsRow
    <2> QED BY <1>0, <2>1, LostKept
  <1> QED BY <1>1, <1>2, <1>3, <1>4, <1>5

LEMMA ParsedPre ==
    ASSUME IInv, SInv, ParseBlock, NEW h \in PreTxs, Head(blocks) = <<"pre", h>>, ActionPreRegister(h)
    PROVE  SInv'
  <1>0. /\ [Next]_vars /\ UNCHANGED <<payRow, preTx, unrefund>> /\ OnLedger(h)
        /\ UNCHANGED <<preStatus, applyRow, refund, proposeRow>>
    BY Handled DEF ActionPreRegister
  <1>1. \A k \in Own : preRow'[k] = preRow[k] \/ (preRow[k] # "none" /\ preRow'[k] = "Confirm")
    BY ParserRows DEF IInv
  <1>2. \A q \in SelfOrders : /\ orderStatus'[q] = orderStatus[q]
                              /\ \/ regStatus'[q] = regStatus[q]
                                 \/ q \in PreOrders(h) /\ regStatus[q] < Proposal /\ regStatus'[q] = Proposal
    BY AcctFacts DEF ActionPreRegister, IInv, TypeOK
  <1>3. \A q \in SelfOrders : /\ regStatus[q] >= PreRegister => regStatus'[q] >= PreRegister
                              /\ regStatus'[q] > PreRegister => regStatus[q] > PreRegister \/ q \in PreOrders(h)
                              /\ regStatus'[q] = Registered <=> regStatus[q] = Registered
    <2>1. \A q \in SelfOrders : regStatus[q] \in 0..6
      BY RegFacts, AcctFacts
    <2> QED BY ONLY <1>2, <2>1 DEF PreRegister, Proposal, Registered
  <1>03. \A x \in Orders : regStatus'[x] = Registered <=> regStatus[x] = Registered
    BY <1>0, GrantedStep
  <1>4. /\ BatchOK' /\ OneFlight' /\ OneStage' /\ ApplyOnce'
        /\ \A q \in SelfOrders : Lost(q) => Lost(q)'
    BY <1>0, <1>1, <1>2, <1>3, <1>03, OwnFacts, ParsedOther DEF Open, Forfeited
  <1>5. Follows'
    <2>1. \A q \in SelfOrders : regStatus'[q] > PreRegister => \E k \in Own : Recorded(q, k) /\ OnLedger(k)
      BY <1>0, <1>3, OwnPreOrder DEF SInv, Follows
    <2>2. \A q \in SelfOrders, k \in Own : Recorded(q, k) /\ OnLedger(k) => Recorded(q, k)' /\ OnLedger(k)'
      BY <1>0, <1>1 DEF Recorded, OnLedger
    <2> QED BY <1>0, <1>1, <1>2, <2>1, <2>2, PayFacts DEF SInv, Follows, Exists
  <1>6. ClosedIsOver'
    BY <1>0, <1>2, <1>3, <1>4, PayFacts DEF SInv, ClosedIsOver, Closed, IInv, TypeOK
  <1>7. Sequenced'
    BY <1>0, <1>03, ParsedSequence
  <1> QED BY <1>4, <1>5, <1>6, <1>7 DEF SInv

LEMMA ParsedPropose ==
    ASSUME IInv, SInv, ParseBlock, NEW h \in PreTxs, Head(blocks) = <<"propose", h>>, ActionPropose(h)
    PROVE  SInv'
  <1>0. /\ [Next]_vars /\ UNCHANGED <<payRow, preTx, unrefund>>
        /\ UNCHANGED <<orderStatus, preStatus, applyRow, preRow, refund>>
    BY Handled DEF ActionPropose
  <1>1. \A q \in SelfOrders : \/ regStatus'[q] = regStatus[q]
                              \/ regStatus[q] = Proposal /\ regStatus'[q] = ConfirmProposal
    BY AcctFacts DEF ActionPropose
  <1>2. \A q \in SelfOrders : /\ regStatus[q] >= PreRegister => regStatus'[q] >= PreRegister
                              /\ regStatus'[q] > PreRegister => regStatus[q] > PreRegister
                              /\ regStatus'[q] = Registered <=> regStatus[q] = Registered
    <2>1. \A q \in SelfOrders : regStatus[q] \in 0..6
      BY RegFacts, AcctFacts
    <2> QED BY ONLY <1>1, <2>1 DEF PreRegister, Proposal, ConfirmProposal, Registered
  <1>02. /\ \A x \in Orders : regStatus'[x] = Registered <=> regStatus[x] = Registered
         /\ \A k \in Own : regStatus[k] = Registered => proposeRow'[k] = proposeRow[k]
    <2>1. \A k \in PreTxs : k # h => proposeRow'[k] = proposeRow[k]
      BY DEF ActionPropose, IInv, TypeOK
    <2> QED BY <1>0, <2>1, GrantedStep, ParsedOrder, OwnFacts
  <1>3. /\ BatchOK' /\ OneFlight' /\ OneStage' /\ ApplyOnce'
        /\ \A q \in SelfOrders : Lost(q) => Lost(q)'
    BY <1>0, <1>2, <1>02, OwnFacts, ParsedOther DEF Open, Forfeited
  <1>4. Follows'
    BY <1>0, <1>2 DEF SInv, Follows, Recorded, OnLedger, Exists
  <1>5. ClosedIsOver'
    BY <1>0, <1>2, <1>3, PayFacts DEF SInv, ClosedIsOver, Closed, IInv, TypeOK
  <1>6. Sequenced'
    BY <1>02, ParsedSequence
  <1> QED BY <1>3, <1>4, <1>5, <1>6 DEF SInv

\* A proposal has the order the transaction was sent for, the one the parser
\* made for it, or both.
LEMMA ProposalOrders ==
    ASSUME IInv, NEW h \in PreTxs, NEW x \in proposeRow[h]
    PROVE  /\ x \in Orders /\ Acct(x) = Acct(h)
           /\ x = h \/ (h \in Own /\ x = h[1] /\ Recorded(x, h) /\ x \in SelfOrders)
  <1>1. x \in PreOrders(h)
    BY DEF IInv, OneOrderPerPre
  <1>2. CASE x = h
    BY <1>1, <1>2 DEF PreOrders
  <1>3. CASE h \in Own /\ x = h[1] /\ preRow[h] # "none"
    BY <1>1, <1>3, OwnFacts, AcctFacts DEF PreOrders, Recorded
  <1> QED BY <1>1, <1>2, <1>3 DEF PreOrders

\* Who is in the proposal has won the account, and nobody else is Registered.
LEMMA ProposalWon ==
    ASSUME IInv, NEW h \in PreTxs, preTx[h] = "confirmed", NEW q \in SelfOrders
    PROVE  /\ q \in proposeRow[h] => Won(q) /\ Recorded(q, h) /\ h \in Own
           /\ AccountOf[q] = Acct(h) /\ q \notin proposeRow[h]
                 => /\ regStatus[q] # Registered
                    /\ \A k \in Own : Claims(q, k) /\ preTx[k] = "confirmed" => k = h
  <1>1. ASSUME q \in proposeRow[h] PROVE Won(q) /\ Recorded(q, h) /\ h \in Own
    <2>1. h \in Own /\ q = h[1] /\ Recorded(q, h)
      BY <1>1, ProposalOrders, AcctFacts
    <2> QED BY <1>1, <2>1 DEF Won, Recorded, Claims, Forfeited
  <1>2. ASSUME AccountOf[q] = Acct(h), NEW k \in Own, k[1] = q, preTx[k] = "confirmed" PROVE k = h
    BY <1>2, OwnFacts DEF IInv, LedgerSound
  <1>3. ASSUME AccountOf[q] = Acct(h), regStatus[q] = Registered PROVE q \in proposeRow[h]
    <2>1. PICK k \in Own : Recorded(q, k) /\ preTx[k] = "confirmed" /\ q \in proposeRow[k]
      BY <1>3, RegisteredWon
    <2> QED BY <1>2, <1>3, <2>1 DEF Recorded
  <1> QED BY <1>1, <1>2, <1>3 DEF Claims

LEMMA ParsedConfirm ==
    ASSUME IInv, SInv, ParseBlock, NEW h \in PreTxs, Head(blocks) = <<"confirm", h>>, ActionConfirmProposal(h)
    PROVE  SInv'
  <1>0. /\ [Next]_vars /\ UNCHANGED <<payRow, preTx, unrefund>> /\ OnLedger(h) /\ preTx[h] = "confirmed"
        /\ UNCHANGED <<preStatus, applyRow, preRow, proposeRow>> /\ proposeRow[h] # {} /\ Follows
    BY Handled DEF ActionConfirmProposal, SInv
  <1>1. \A q \in SelfOrders :
           /\ regStatus'[q] = IF q \in proposeRow[h] THEN Registered ELSE regStatus[q]
           /\ orderStatus'[q] = IF AccountOf[q] = Acct(h) /\ Exists(q) THEN "closed" ELSE orderStatus[q]
    BY AcctFacts DEF ActionConfirmProposal
  <1>2. \A q \in SelfOrders : regStatus[q] >= PreRegister => regStatus'[q] >= PreRegister
    BY <1>1 DEF PreRegister, Registered
  <1>3. OnChain(Acct(h))
    BY <1>0 DEF OnChain
  <1>01. \A k \in Own : /\ regStatus'[k] = Registered <=> regStatus[k] = Registered \/ k \in proposeRow[h]
                        /\ Forfeited(k) => Forfeited(k)'
    BY <1>0, OwnFacts DEF ActionConfirmProposal, Forfeited
  <1>4. /\ BatchOK' /\ OneFlight' /\ OneStage' /\ ApplyOnce'
        /\ \A q \in SelfOrders : Lost(q) => Lost(q)'
    BY <1>0, <1>01, <1>1, <1>2, <1>3, ParsedOther DEF Open
  <1>5. \A q \in SelfOrders : q \in proposeRow[h] => Won(q) /\ Recorded(q, h) /\ h \in Own
    BY <1>0, ProposalWon
  <1>6. ASSUME NEW q \in SelfOrders, AccountOf[q] = Acct(h), q \notin proposeRow[h]
        PROVE  Lost(q)' /\ regStatus[q] # Registered
    <2>1. /\ regStatus[q] # Registered
          /\ \A k \in Own : Claims(q, k) /\ preTx[k] = "confirmed" => k = h
      BY <1>0, <1>6, ProposalWon
    <2>2. ASSUME NEW k \in Own, Claims(q, k)', preTx'[k] = "confirmed" PROVE Forfeited(k)'
      <3>1. k = h /\ k[1] = q
        BY <1>0, <2>1, <2>2, Handled DEF Claims, AwaitsRow
      <3>2. h \in proposeRow[h]
        BY <1>0, <1>6, <3>1, ProposalOrders
      <3> QED BY <1>0, <1>01, <1>6, <3>1, <3>2 DEF Forfeited
    <2>3. OnChain(AccountOf[q])'
      BY <1>0, <1>3, <1>6, OnChainStable
    <2> QED BY <2>1, <2>2, <2>3 DEF Lost, Won
  <1>7. Follows'
    <2>1. \A q \in SelfOrders : regStatus'[q] > PreRegister => \E k \in Own : Recorded(q, k) /\ OnLedger(k)
      BY <1>0, <1>1, <1>5 DEF Follows
    <2>2. \A q \in SelfOrders : Exists(q) => Exists(q)'
      BY <1>1 DEF Exists
    <2> QED BY <1>0, <2>1, <2>2, PayFacts DEF Follows, Recorded, OnLedger
  <1>8. ClosedIsOver'
    <2>0. ClosedIsOver
      BY DEF SInv
    <2>1. ASSUME NEW q \in SelfOrders, Closed(q)' PROVE regStatus'[q] = Registered \/ Lost(q)'
      <3>1. CASE q \in proposeRow[h]
        BY <1>1, <3>1
      <3>2. CASE q \notin proposeRow[h] /\ AccountOf[q] = Acct(h)
        BY <1>6, <3>2
      <3>3. CASE q \notin proposeRow[h] /\ AccountOf[q] # Acct(h)
        BY <1>1, <1>4, <2>0, <2>1, <3>3 DEF ClosedIsOver, Closed
      <3> QED BY <3>1, <3>2, <3>3
    <2>2. ASSUME NEW q \in SelfOrders, Closed(q), regStatus[q] # Registered
          PROVE  Closed(q)' /\ regStatus'[q] # Registered
      <3>1. ~Won(q)
        BY <2>0, <2>2 DEF ClosedIsOver, Lost
      <3> QED BY <1>1, <1>5, <2>2, <3>1 DEF Closed
    <2>3. ASSUME NEW p \in Pays, refund'[p] PROVE Closed(OrderOf[p])' /\ regStatus'[OrderOf[p]] # Registered
      <3>1. \/ refund[p]
            \/ payRow[p] # "none" /\ AccountOf[OrderOf[p]] = Acct(h) /\ OrderOf[p] \notin OkOrders(h)
        BY <2>3, Zenon DEF ActionConfirmProposal
      <3>2. CASE refund[p]
        BY <2>0, <2>2, <3>2, PayFacts DEF ClosedIsOver
      <3>3. CASE payRow[p] # "none" /\ AccountOf[OrderOf[p]] = Acct(h) /\ OrderOf[p] \notin OkOrders(h)
        <4>1. OrderOf[p] \notin proposeRow[h] /\ OrderOf[p] \in SelfOrders /\ Exists(OrderOf[p])
          BY <1>0, <3>3, PayFacts DEF OkOrders, Follows
        <4> QED BY <1>1, <1>6, <3>3, <4>1 DEF Closed
      <3> QED BY <3>1, <3>2, <3>3
    <2>4. \A q \in unrefund' : Closed(q)' /\ regStatus'[q] # Registered
      BY <1>0, <2>0, <2>2 DEF ClosedIsOver, IInv, TypeOK
    <2> QED BY <2>1, <2>3, <2>4, Zenon DEF ClosedIsOver
  <1>9. Sequenced'
    <2>0. Sequenced /\ \A e : InBlocks(e)' => InBlocks(e)
      BY Handled DEF SInv
    <2>1. ASSUME NEW k \in Own, regStatus'[k] = Registered
          PROVE  /\ ~InBlocks(<<"propose", k>>)'
                 /\ k[1] \in proposeRow'[k] => regStatus'[k[1]] = Registered
      <3>1. CASE regStatus[k] = Registered
        BY <1>0, <1>1, <2>0, <3>1, OwnFacts DEF Sequenced
      <3>2. CASE k \in proposeRow[h]
        <4>1. k = h
          BY <3>2, ProposalOrders, OwnFacts
        <4> QED BY <1>0, <1>1, <2>0, <4>1, ParsedOrder, OwnFacts
      <3> QED BY <1>01, <2>1, <3>1, <3>2
    <2> QED BY <2>1, ParsedOrder DEF Sequenced
  <1> QED BY <1>4, <1>7, <1>8, <1>9 DEF SInv

LEMMA ParserSettled == IInv /\ SInv /\ ParseBlock => SInv'
  <1> SUFFICES ASSUME IInv, SInv, ParseBlock PROVE SInv'
    OBVIOUS
  <1>1. Head(blocks) \in Events
    BY DEF IInv, TypeOK, ParseBlock
  <1>2. PICK k, h : Head(blocks) = <<k, h>> /\ (k = "apply" => h \in Own) /\ (k # "apply" => h \in PreTxs)
    BY <1>1 DEF Events
  <1> QED BY <1>2, ParsedApply, ParsedPre, ParsedPropose, ParsedConfirm DEF ParseBlock, Handle

-----------------------------------------------------------------------------
(* The timers.                                                             *)

\* Only the marks for refund change, and only for orders that are lost.
LEMMA QuietSettled ==
    ASSUME IInv, SInv, [Next]_vars,
           UNCHANGED <<orderStatus, payStatus, preStatus, regStatus, payRow, rowVars, chainVars, toolVars>>,
           \A p \in Pays : refund'[p] => refund[p] \/ (Closed(OrderOf[p]) /\ regStatus[OrderOf[p]] # Registered),
           \A o \in unrefund' : Closed(o) /\ regStatus[o] # Registered
    PROVE  SInv'
  <1> USE DEF rowVars, chainVars, toolVars
  <1>1. BatchOK'
    BY BatchKept DEF SInv, Open
  <1>2. OneFlight'
    BY FlightKept, AwaitsKept DEF SInv, Flying, toolVars
  <1>3. OneStage'
    BY StageKept DEF SInv, Owed, InBlocks
  <1>4. ApplyOnce' /\ Sequenced' /\ Follows'
    BY ApplyKept, SequencedKept, FollowsKept DEF SInv
  <1>5. ClosedIsOver'
    <2>1. \A o \in SelfOrders : Closed(o)' => regStatus'[o] = Registered \/ Lost(o)'
      BY LostSame DEF SInv, ClosedIsOver, Closed
    <2>2. \A p \in Pays : refund'[p] => Closed(OrderOf[p])' /\ regStatus'[OrderOf[p]] # Registered
      BY DEF SInv, ClosedIsOver, Closed
    <2>3. \A o \in unrefund' : Closed(o)' /\ regStatus'[o] # Registered
      BY DEF Closed
    <2> QED BY <2>1, <2>2, <2>3, Zenon DEF ClosedIsOver
  <1> QED BY <1>1, <1>2, <1>3, <1>4, <1>5 DEF SInv

LEMMA ExpiredSettled ==
    ASSUME IInv, SInv, [Next]_vars, NEW o \in SelfOrders, CheckExpired(o)
    PROVE  SInv'
  <1> USE DEF payVars, rowVars, chainVars, toolVars
  <1>0. /\ orderStatus' = [orderStatus EXCEPT ![o] = "closed"]
        /\ UNCHANGED <<payStatus, preStatus, regStatus, payRow, refund, rowVars, chainVars, toolVars, unrefund>>
    BY DEF CheckExpired, Close
  <1>1. preStatus[o] = "Default"
    <2>1. regStatus[o] \in {0, 1}
      BY DEF CheckExpired, RegDefault, ConfirmPayment
    <2>2. ~(regStatus[o] >= PreRegister)
      BY ONLY <2>1 DEF PreRegister
    <2> QED BY <2>2 DEF SInv, OneStage
  <1>2. Grounded(o) /\ ~Won(o)
    BY <1>1, NotWaiting DEF SInv
  <1>3. \A q \in SelfOrders : q # o => orderStatus'[q] = orderStatus[q]
    BY <1>0, AcctFacts DEF IInv, TypeOK
  <1>4. BatchOK'
    <2>1. \A q \in todo : q \in SelfOrders /\ (job = "pre" => q # o)
      BY <1>1 DEF SInv, BatchOK, IInv, TypeOK
    <2> QED BY <1>0, <1>3, <2>1, BatchKept DEF SInv, Open
  <1>5. OneFlight' /\ OneStage'
    BY <1>0, FlightKept, StageKept DEF SInv, Flying, AwaitsRow, Owed, InBlocks
  <1>6. ApplyOnce' /\ Sequenced' /\ Follows'
    BY <1>0, ApplyKept, SequencedKept, FollowsKept DEF SInv
  <1>7. ClosedIsOver'
    <2>1. Lost(o)' /\ \A q \in SelfOrders : Lost(q) => Lost(q)'
      BY <1>0, <1>2, LostSame
    <2>2. Closed(o)'
      BY <1>0, AcctFacts DEF Closed, IInv, TypeOK
    <2> QED BY <1>0, <1>3, <2>1, <2>2, OverKept DEF SInv, Closed
  <1> QED BY <1>4, <1>5, <1>6, <1>7 DEF SInv

\* The transaction whose row is rejected was the only one under way.
LEMMA RejectedSettled ==
    ASSUME IInv, SInv, [Next]_vars, NEW h \in Own, DoTxRejectedPre(h)
    PROVE  SInv'
  <1> DEFINE o == h[1]
  <1> USE DEF payVars, chainVars, toolVars
  <1>0. /\ preRow[h] = "Default" /\ preTx[h] = "rejected" /\ o \in SelfOrders
        /\ UNCHANGED <<orderStatus, payStatus, regStatus, payRow, refund, proposeRow, chainVars, toolVars, unrefund>>
    BY OwnFacts DEF DoTxRejectedPre
  <1>01. \A k \in Own : AwaitsRow(k) => preRow[k] = "none"
    <2>1. \A k \in Own : k # NoSend
      BY RegistrationAssumption DEF Own
    <2> QED BY <2>1 DEF AwaitsRow, IInv, RowsFollow
  <1>1. preStatus[o] = "Ok" /\ ~(job = "pre" /\ SendingOf(o)) /\ \A k \in Own : Flying(k) /\ k[1] = o => k = h
    <2>1. Flying(h)
      BY <1>0 DEF Flying
    <2> QED BY <2>1 DEF SInv, OneFlight
  <1>2. /\ \A q \in SelfOrders : q # o => preStatus'[q] = preStatus[q]
        /\ preStatus'[o] \in {"Ok", "Sending"}
    BY <1>0, <1>1 DEF DoTxRejectedPre, CAS, IInv, TypeOK
  <1>3. \A k \in Own : /\ preRow'[k] = "none" <=> preRow[k] = "none"
                       /\ preRow'[k] = "Default" => preRow[k] = "Default" /\ k[1] # o
                       /\ applyRow'[k] = "none" <=> applyRow[k] = "none"
                       /\ applyRow'[k] = "Confirm" => applyRow[k] = "Confirm"
    BY DEF DoTxRejectedPre
  <1>4. BatchOK'
    <2>1. \A q \in todo : q \in SelfOrders /\ (job = "pre" => q # o)
      <3>1. \A k \in Own : AwaitsRow(k) => k[1] # o
        BY <1>0, <1>1, <1>01 DEF Flying
      <3>2. job = "pre" => ~Marked(o)
        BY <1>1, <3>1 DEF Marked, SentOf, AwaitsRow, IInv, TypeOK
      <3> QED BY <1>1, <3>2 DEF SInv, BatchOK, IInv, TypeOK
    <2> QED BY <1>0, <1>2, <2>1, BatchKept DEF SInv, Open
  <1>5. OneFlight'
    <2>1. ASSUME NEW k \in Own, Flying(k)' PROVE Flying(k) /\ k[1] # o
      <3>1. Flying(k)
        BY <1>0, <1>3, <2>1 DEF Flying, AwaitsRow
      <3>2. ASSUME k[1] = o PROVE FALSE
        <4>1. k = h /\ ~AwaitsRow(h)
          BY <1>0, <1>1, <1>01, <3>1, <3>2
        <4> QED BY <1>0, <1>3, <2>1, <4>1 DEF Flying, AwaitsRow
      <3> QED BY <3>1, <3>2
    <2> QED BY <1>0, <1>2, <2>1, FlightKept, OwnFacts DEF SInv
  <1>6. OneStage'
    <2>1. \A k \in Own : Owed(k)' => Owed(k)
      BY <1>0, <1>3 DEF Owed, InBlocks
    <2>2. preStatus[o] # "Default" /\ preStatus'[o] # "Default"
      BY <1>1, <1>2
    <2> QED BY <1>0, <1>2, <2>1, <2>2, StageKept DEF SInv
  <1>7. ApplyOnce' /\ Sequenced' /\ Follows'
    BY <1>0, <1>3, ApplyKept, SequencedKept, FollowsKept DEF SInv
  <1>8. ClosedIsOver'
    <2>1. \A q \in SelfOrders : Lost(q) => Lost(q)'
      BY <1>0, <1>3, LostSame
    <2> QED BY <1>0, <2>1, OverKept DEF SInv, Closed
  <1> QED BY <1>4, <1>5, <1>6, <1>7, <1>8 DEF SInv

LEMMA TimerSettled == IInv /\ SInv /\ (TimerNext \/ Crash \/ Age) => SInv'
  <1> SUFFICES ASSUME IInv, SInv, TimerNext \/ Crash \/ Age PROVE SInv'
    OBVIOUS
  <1>0. [Next]_vars /\ ClosedIsOver
    BY DEF Next, SInv
  <1>1. ASSUME NEW o \in SelfOrders, CheckExpired(o) PROVE SInv'
    BY <1>0, <1>1, ExpiredSettled
  <1>2. ASSUME NEW o \in SelfOrders, UpdatePayToRefund(o) PROVE SInv'
    <2>1. Closed(o) /\ regStatus[o] # Registered /\ \A q \in unrefund' : q \in unrefund
      BY <1>0, <1>2 DEF UpdatePayToRefund, ClosedIsOver
    <2>2. \A p \in Pays : refund'[p] => refund[p] \/ OrderOf[p] = o
      BY <1>2, Zenon DEF UpdatePayToRefund
    <2>3. \A p \in Pays : refund'[p] => refund[p] \/ (Closed(OrderOf[p]) /\ regStatus[OrderOf[p]] # Registered)
      BY <2>1, <2>2
    <2>4. UNCHANGED <<orderStatus, payStatus, preStatus, regStatus, payRow, rowVars, chainVars, toolVars>>
      BY <1>2 DEF UpdatePayToRefund, orderVars
    <2> QED BY <1>0, <2>1, <2>3, <2>4, QuietSettled DEF ClosedIsOver
  <1>3. ASSUME NEW o \in SelfOrders, DoOrderHedge(o) PROVE SInv'
    BY <1>0, <1>3, QuietSettled DEF DoOrderHedge, payVars, ClosedIsOver
  <1>4. ASSUME NEW h \in Own, DoTxRejectedApply(h) PROVE SInv'
    BY <1>0, <1>4, QuietSettled DEF DoTxRejectedApply, vars, orderVars, payVars, ClosedIsOver
  <1>5. ASSUME NEW h \in Own, DoTxRejectedPre(h) PROVE SInv'
    BY <1>0, <1>5, RejectedSettled
  <1>6. CASE DoCheckClosedAndUnRefund
    <2>1. ASSUME NEW q \in unrefund' PROVE Closed(q) /\ regStatus[q] # Registered
      <3>1. orderStatus[q] = "closed" /\ regStatus[q] < Proposal
        BY <1>6, <2>1 DEF DoCheckClosedAndUnRefund, ClosedAndUnRefund
      <3> QED BY <3>1 DEF Closed, Proposal, Registered
    <2> QED BY <1>0, <1>6, <2>1, QuietSettled DEF DoCheckClosedAndUnRefund, orderVars, payVars
  <1>7. CASE Crash
    BY <1>7, AbortShrinks, ToolOnlySettled DEF Crash
  <1>8. CASE Age
    BY <1>0, <1>8, QuietSettled DEF Age, payVars, ClosedIsOver
  <1> QED BY <1>1, <1>2, <1>3, <1>4, <1>5, <1>6, <1>7, <1>8 DEF TimerNext

-----------------------------------------------------------------------------
(* The theorems.                                                           *)

LEMMA SettledStep == AppliesInTurn /\ IInv /\ SInv /\ [Next]_vars => SInv'
  <1> SUFFICES ASSUME AppliesInTurn, IInv, SInv, [Next]_vars PROVE SInv'
    OBVIOUS
  <1>1. CASE UNCHANGED vars
    BY <1>1, QuietSettled DEF vars, orderVars, payVars, SInv, ClosedIsOver
  <1> QED BY <1>1, HttpSettled, TxToolSettled, ChainSettled, ParserSettled, TimerSettled DEF Next

LEMMA Settled == AppliesInTurn => (Spec => [](IInv /\ SInv))
  <1> SUFFICES ASSUME AppliesInTurn PROVE Spec => [](IInv /\ SInv)
    OBVIOUS
  <1>1. Init => IInv /\ SInv
    BY InitInv, InitSettled
  <1>2. IInv /\ SInv /\ [Next]_vars => (IInv /\ SInv)'
    BY InvStep, SettledStep
  <1> QED BY <1>1, <1>2, PTL DEF Spec

\* A self order that got its pre-account cell is closed by the confirmation of
\* its account only, so none is left in Proposal or ConfirmProposal where
\* GetClosedAndUnRefundOrders does not look for it.
THEOREM NeverInLimbo == AppliesInTurn => (Spec => []NoLimbo)
  <1> SUFFICES ASSUME AppliesInTurn PROVE Spec => []NoLimbo
    OBVIOUS
  <1>1. ASSUME IInv, SInv PROVE NoLimbo
    <2> SUFFICES ASSUME NEW o \in SelfOrders, Closed(o), regStatus[o] \in {Proposal, ConfirmProposal}
                 PROVE  OnChain(AccountOf[o])
      BY DEF NoLimbo, Closed
    <2>1. regStatus[o] # Registered /\ regStatus[o] > PreRegister
      BY DEF Proposal, ConfirmProposal, Registered, PreRegister
    <2>2. PICK h \in Own : Recorded(o, h) /\ OnLedger(h)
      BY <1>1, <2>1 DEF SInv, Follows
    <2>3. ~Grounded(o)
      BY <2>2 DEF Grounded, Claims, Recorded, OnLedger, LedgerStates
    <2> QED BY <1>1, <2>1, <2>3 DEF SInv, ClosedIsOver, Lost
  <1> QED BY <1>1, Settled, PTL

\* Once a recorded pre_register transaction has won the account, neither
\* DoActionConfirmProposal nor doCheckClosedAndUnRefund marks a payment of its
\* order for refund, before or after the parser sees it.
THEOREM NeverServedAndRefunded == AppliesInTurn => (Spec => []ServedNotRefunded)
  <1> SUFFICES ASSUME AppliesInTurn PROVE Spec => []ServedNotRefunded
    OBVIOUS
  <1>1. ASSUME IInv, SInv PROVE ServedNotRefunded
    <2> SUFFICES ASSUME NEW h \in Own, preTx[h] = "confirmed", preRow[h] # "none", ~Exists(h),
                        NEW p \in Pays, OrderOf[p] = h[1], refund[p]
                 PROVE  FALSE
      BY DEF ServedNotRefunded
    <2>1. Closed(h[1]) /\ regStatus[h[1]] # Registered /\ h[1] \in SelfOrders
      BY <1>1, OwnFacts DEF SInv, ClosedIsOver
    <2>2. ~Won(h[1])
      BY <1>1, <2>1 DEF SInv, ClosedIsOver, Lost
    <2>3. regStatus[h] # Registered
      BY <1>1, OwnFacts DEF IInv, Unborn, Registered
    <2> QED BY <2>2, <2>3 DEF Won, Claims, Forfeited
  <1> QED BY <1>1, Settled, PTL

\* The payments and the gift card of a closed order that is not Registered can
\* be given back: no block makes it Registered afterwards.
THEOREM ClosedStaysLost == AppliesInTurn => (Spec => ClosedIsFinal)
  <1> SUFFICES ASSUME AppliesInTurn PROVE Spec => ClosedIsFinal
    OBVIOUS
  <1>1. ASSUME IInv, SInv, [Next]_vars
        PROVE  [\A o \in SelfOrders : (orderStatus[o] = "closed" /\ regStatus[o] # Registered)
                                          => regStatus'[o] # Registered]_vars
    <2> SUFFICES ASSUME NEW o \in SelfOrders, Closed(o), regStatus[o] # Registered, regStatus'[o] = Registered
                 PROVE  FALSE
      BY DEF Closed
    <2>1. PICK h \in PreTxs : ParseBlock /\ Head(blocks) = <<"confirm", h>> /\ ActionConfirmProposal(h)
      BY <1>1, GrantedStep, AcctFacts
    <2>2. preTx[h] = "confirmed" /\ proposeRow[h] # {} /\ o \in proposeRow[h]
      BY <1>1, <2>1, Handled, AcctFacts DEF ActionConfirmProposal
    <2>3. Won(o)
      BY <1>1, <2>2, ProposalWon DEF SInv
    <2> QED BY <1>1, <2>3 DEF SInv, ClosedIsOver, Lost
  <1> QED BY <1>1, Settled, PTL DEF Spec, ClosedIsFinal

-----------------------------------------------------------------------------
(* The refinement of Settlement.                                           *)

Granted  == {x \in Orders : regStatus[x] = Registered /\ ~Twin(x)}
Taken    == {p \in Pays : payRow[p] # "none"}
Returned == {p \in Pays : refund[p]}

LEMMA GrantedSame ==
    ASSUME \A x \in Orders : regStatus'[x] = Registered <=> regStatus[x] = Registered
    PROVE  Granted' = Granted
  BY OwnFacts DEF Granted, Twin

LEMMA InitPromise == Init => Promise!Init
  <1> SUFFICES ASSUME Init PROVE Promise!Init
    OBVIOUS
  <1>1. {x \in Orders : regStatus[x] = Registered /\ ~Twin(x)} = {}
    BY DEF Init, RegDefault, Registered
  <1>2. {p \in Pays : payRow[p] # "none"} = {}
    BY DEF Init
  <1>3. {p \in Pays : refund[p]} = {}
    BY Zenon DEF Init
  <1> QED BY <1>1, <1>2, <1>3 DEF Promise!Init

\* A payment is received when its row is written.
LEMMA PayPromise ==
    ASSUME IInv, HttpNext
    PROVE  Taken' = Taken \/ \E p \in Pays : Taken' = Taken \cup {p}
  <1>1. \/ UNCHANGED payRow
        \/ \E p \in Pays : \E s \in {"Default", "Confirm"} : payRow' = [payRow EXCEPT ![p] = s]
    BY NewOrder DEF HttpNext, CheckOrder, OrderPayHash, DoPaymentConfirm, payVars
  <1>2. CASE UNCHANGED payRow
    BY <1>2 DEF Taken
  <1>3. ASSUME NEW p \in Pays, NEW s \in {"Default", "Confirm"}, payRow' = [payRow EXCEPT ![p] = s]
        PROVE  Taken' = Taken \cup {p}
    BY <1>3 DEF Taken, IInv, TypeOK
  <1> QED BY <1>1, <1>2, <1>3

\* DoActionConfirmProposal grants the account to one order: the order the
\* transaction was sent for, or else the one the parser made for it.
LEMMA ConfirmPromise ==
    ASSUME IInv, SInv, ParseBlock, NEW h \in PreTxs, Head(blocks) = <<"confirm", h>>, ActionConfirmProposal(h)
    PROVE  \E x \in Orders, lost \in SUBSET Taken :
              /\ \A p \in lost : OrderOf[p] # x /\ OrderOf[p] \notin Granted
              /\ x \notin Granted => \A y \in Granted : Acct(y) # Acct(x)
              /\ x \notin Granted => \A p \in Returned : OrderOf[p] # x
              /\ Granted' = Granted \cup {x}
              /\ Returned' = Returned \cup lost
              /\ Taken' = Taken
  <1>0. preTx[h] = "confirmed" /\ proposeRow[h] # {} /\ UNCHANGED payRow
    BY Handled DEF ActionConfirmProposal
  <1>1. PICK x \in proposeRow[h] : h \in Own /\ h[1] \in proposeRow[h] => x = h[1]
    BY <1>0
  <1>2. /\ x \in Orders /\ Acct(x) = Acct(h)
        /\ x = h \/ (h \in Own /\ x = h[1])
        /\ \A y \in proposeRow[h] : y = x \/ (h \in Own /\ x = h[1] /\ y = h)
    BY <1>1, ProposalOrders
  <1> DEFINE lost == {p \in Pays : /\ payRow[p] # "none" /\ AccountOf[OrderOf[p]] = Acct(h)
                                   /\ OrderOf[p] \notin OkOrders(h)}
  <1>3. ASSUME NEW p \in lost PROVE p \in Taken /\ OrderOf[p] # x /\ OrderOf[p] \notin Granted
    <2>1. OrderOf[p] \notin proposeRow[h] /\ OrderOf[p] \in SelfOrders /\ AccountOf[OrderOf[p]] = Acct(h)
      BY <1>3, PayFacts DEF OkOrders
    <2>2. regStatus[OrderOf[p]] # Registered
      BY <1>0, <2>1, ProposalWon
    <2> QED BY <1>1, <2>1, <2>2 DEF Taken, Granted
  <1>03. ASSUME h \in Own, x = h[1] PROVE h \notin Granted
    <2>1. regStatus[h] = Registered => regStatus[h[1]] = Registered
      BY <1>1, <1>03 DEF SInv, Sequenced
    <2> QED BY <1>03, <2>1 DEF Granted, Twin
  <1>4. ASSUME NEW y \in Granted, Acct(y) = Acct(x) PROVE y = x
    <2>1. PICK k \in PreTxs : preTx[k] = "confirmed" /\ y \in proposeRow[k]
      BY DEF Granted, IInv, OneOrderPerPre
    <2>2. k = h
      BY <1>0, <1>2, <1>4, <2>1, ProposalOrders DEF IInv, LedgerSound
    <2> QED BY <1>2, <1>03, <2>1, <2>2
  <1>5. ASSUME x \notin Granted, NEW p \in Returned PROVE OrderOf[p] # x
    <2>1. refund[p] /\ p \in Pays
      BY Zenon DEF Returned
    <2>2. OrderOf[p] \in SelfOrders /\ Closed(OrderOf[p]) /\ regStatus[OrderOf[p]] # Registered
      BY <2>1, PayFacts DEF SInv, ClosedIsOver
    <2>3. ~Won(OrderOf[p])
      BY <2>2 DEF SInv, ClosedIsOver, Lost
    <2> QED BY <1>0, <1>1, <2>2, <2>3, ProposalWon
  <1>6. Granted' = Granted \cup {x}
    <2>0. \A y \in Orders : regStatus'[y] = Registered <=> regStatus[y] = Registered \/ y \in proposeRow[h]
      BY DEF ActionConfirmProposal
    <2>1. ~Twin(x)'
      <3>1. CASE h \in Own /\ x = h[1]
        BY <3>1, OwnFacts DEF Twin
      <3>2. CASE x = h /\ h \in Own
        <4>1. h[1] \notin proposeRow[h] /\ h[1] \in SelfOrders /\ h[1] \in Orders /\ AccountOf[h[1]] = Acct(h)
          BY <1>1, <3>2, OwnFacts
        <4> QED BY <1>0, <2>0, <3>2, <4>1, ProposalWon DEF Twin
      <3>3. CASE x \notin Own
        BY <3>3 DEF Twin
      <3> QED BY <1>2, <3>1, <3>2, <3>3
    <2>2. ASSUME NEW y \in Orders, y # x, y # h \/ h \notin Own
          PROVE  y \in Granted' <=> y \in Granted
      <3>1. regStatus'[y] = Registered <=> regStatus[y] = Registered
        BY <1>2, <2>0, <2>2
      <3>2. regStatus[y] = Registered => (Twin(y)' <=> Twin(y))
        <4> SUFFICES ASSUME y \in Own, regStatus[y] = Registered, regStatus'[y[1]] = Registered
                     PROVE  regStatus[y[1]] = Registered
          BY <2>0, OwnFacts DEF Twin
        <4>1. ASSUME y[1] \in proposeRow[h] PROVE FALSE
          <5>1. h \in Own /\ h[1] = y[1]
            BY <4>1, ProposalOrders, OwnFacts, AcctFacts
          <5>2. preTx[y] = "confirmed" /\ Acct(y) = Acct(h)
            BY <5>1, RegisteredOwn, OwnFacts
          <5> QED BY <1>0, <2>2, <5>1, <5>2, OwnFacts DEF IInv, LedgerSound
        <4> QED BY <2>0, <4>1, OwnFacts
      <3> QED BY <3>1, <3>2 DEF Granted
    <2>3. x \in Granted'
      BY <1>1, <1>2, <2>0, <2>1 DEF Granted
    <2>4. ASSUME h \in Own, h # x PROVE h \notin Granted /\ h \notin Granted'
      <3>1. x = h[1] /\ regStatus'[h[1]] = Registered
        BY <1>1, <1>2, <2>0, <2>4
      <3> QED BY <1>03, <2>4, <3>1 DEF Granted, Twin
    <2> QED BY <2>2, <2>3, <2>4 DEF Granted
  <1>7. Returned' = Returned \cup lost
    <2>1. refund' = [p \in Pays |-> refund[p] \/ p \in lost]
      BY Zenon DEF ActionConfirmProposal
    <2> QED BY <2>1, Zenon DEF Returned
  <1>8. Taken' = Taken
    BY <1>0 DEF Taken
  <1>9. lost \in SUBSET Taken
    BY <1>3
  <1> HIDE DEF lost
  <1> QED BY <1>2, <1>3, <1>4, <1>5, <1>6, <1>7, <1>8, <1>9

\* doCheckClosedAndUnRefund returns payments of orders that are not granted.
LEMMA RefundPromise ==
    ASSUME IInv, SInv, TimerNext \/ Crash \/ Age
    PROVE  /\ Granted' = Granted /\ Taken' = Taken
           /\ \E ps \in SUBSET Taken : /\ \A p \in ps : OrderOf[p] \notin Granted
                                       /\ Returned' = Returned \cup ps
  <1>1. Granted' = Granted /\ Taken' = Taken
    BY TimerFrame, GrantedSame DEF Taken
  <1>2. CASE UNCHANGED refund
    <2>1. Returned' = Returned \cup {}
      BY <1>2 DEF Returned
    <2> QED BY <1>1, <2>1
  <1>3. ASSUME NEW o \in SelfOrders, UpdatePayToRefund(o)
        PROVE  \E ps \in SUBSET Taken : /\ \A p \in ps : OrderOf[p] \notin Granted
                                        /\ Returned' = Returned \cup ps
    <2> DEFINE ps == {p \in Pays : OrderOf[p] = o /\ payRow[p] = "Confirm"}
    <2>1. o \notin Granted
      BY <1>3 DEF UpdatePayToRefund, SInv, ClosedIsOver, Granted
    <2>2. ps \in SUBSET Taken /\ \A p \in ps : OrderOf[p] \notin Granted
      BY <2>1 DEF Taken
    <2>3. Returned' = Returned \cup ps
      <3>1. refund' = [p \in Pays |-> refund[p] \/ p \in ps]
        BY <1>3, Zenon DEF UpdatePayToRefund
      <3> QED BY <3>1, Zenon DEF Returned
    <2> QED BY <2>2, <2>3
  <1>4. (\E o \in SelfOrders : UpdatePayToRefund(o)) \/ UNCHANGED refund
    BY DEF TimerNext, Crash, Age, CheckExpired, DoOrderHedge, DoTxRejectedApply, DoTxRejectedPre,
           DoCheckClosedAndUnRefund, vars, payVars
  <1> QED BY <1>1, <1>2, <1>3, <1>4

\* Of the parser's handlers only DoActionConfirmProposal returns payments.
LEMMA ParsedRefund ==
    ASSUME IInv, SInv, ParseBlock, ~\E h \in PreTxs : Head(blocks) = <<"confirm", h>> /\ ActionConfirmProposal(h)
    PROVE  UNCHANGED <<payRow, refund>>
  <1>1. Head(blocks) \in Events /\ UNCHANGED payRow
    BY Handled DEF IInv, TypeOK, ParseBlock
  <1>2. PICK k, h : Head(blocks) = <<k, h>> /\ (k = "apply" => h \in Own) /\ (k # "apply" => h \in PreTxs)
    BY <1>1 DEF Events
  <1> QED BY <1>1, <1>2 DEF ParseBlock, Handle, ActionApplyRegister, ActionPreRegister, ActionPropose

LEMMA PromiseStep ==
    ASSUME IInv, SInv, [Next]_vars
    PROVE  [Promise!Next]_(Promise!settlement)
  <1> USE DEF Granted, Taken, Returned
  <1>1. ASSUME NEW p \in Pays, Taken' = Taken \cup {p}, Granted' = Granted, Returned' = Returned
        PROVE  Promise!Next
    BY <1>1 DEF Promise!Next, Promise!Pay
  <1>2. ASSUME NEW ps \in SUBSET Taken, \A p \in ps : OrderOf[p] \notin Granted,
               Granted' = Granted, Returned' = Returned \cup ps, Taken' = Taken
        PROVE  Promise!Next
    BY <1>2 DEF Promise!Next, Promise!Return
  <1>3. ASSUME NEW x \in Orders, NEW lost \in SUBSET Taken, x \notin Granted,
               \A y \in Granted : Acct(y) # Acct(x), \A p \in Returned \cup lost : OrderOf[p] # x,
               Granted' = Granted \cup {x}, Returned' = Returned \cup lost, Taken' = Taken
        PROVE  Promise!Next
    BY <1>3 DEF Promise!Next, Promise!Grant
  <1>4. ASSUME Granted' = Granted, Returned' = Returned, Taken' = Taken PROVE UNCHANGED Promise!settlement
    BY <1>4 DEF Promise!settlement
  <1>5. CASE HttpNext
    <2>1. Granted' = Granted /\ Returned' = Returned
      BY <1>5, HttpGrants, GrantedSame, HttpFrame
    <2> QED BY <1>1, <1>4, <1>5, <2>1, PayPromise
  <1>6. CASE ParseBlock
    <2>1. CASE \E h \in PreTxs : Head(blocks) = <<"confirm", h>> /\ ActionConfirmProposal(h)
      <3>1. PICK x \in Orders, lost \in SUBSET Taken :
               /\ \A p \in lost : OrderOf[p] # x /\ OrderOf[p] \notin Granted
               /\ x \notin Granted => \A y \in Granted : Acct(y) # Acct(x)
               /\ x \notin Granted => \A p \in Returned : OrderOf[p] # x
               /\ Granted' = Granted \cup {x}
               /\ Returned' = Returned \cup lost
               /\ Taken' = Taken
        BY <1>6, <2>1, ConfirmPromise
      <3>2. CASE x \in Granted
        BY <1>2, <3>1, <3>2
      <3>3. CASE x \notin Granted
        BY <1>3, <3>1, <3>3
      <3> QED BY <3>2, <3>3
    <2>2. CASE ~\E h \in PreTxs : Head(blocks) = <<"confirm", h>> /\ ActionConfirmProposal(h)
      <3>1. Granted' = Granted
        BY <2>2, GrantedStep, GrantedSame
      <3>2. UNCHANGED <<payRow, refund>>
        BY <1>6, <2>2, ParsedRefund
      <3> QED BY <1>4, <3>1, <3>2
    <2> QED BY <2>1, <2>2
  <1>7. CASE TimerNext \/ Crash \/ Age
    BY <1>2, <1>7, RefundPromise
  <1>8. CASE UNCHANGED <<regStatus, payRow, refund>>
    BY <1>4, <1>8, GrantedSame
  <1>9. CASE TxToolNext \/ ChainNext \/ UNCHANGED vars
    BY <1>8, <1>9, TxToolFrame, ChainFrame DEF orderVars, payVars, vars
  <1> QED BY <1>5, <1>6, <1>7, <1>9 DEF Next

\* Registration implements Settlement: an account is granted to one order, and
\* DoActionConfirmProposal and the refund timer return the payments of the
\* others and never one of that order, whichever comes first.
THEOREM KeepsPromise == AppliesInTurn => (Spec => PromiseKept)
  <1> SUFFICES ASSUME AppliesInTurn PROVE Spec => PromiseKept
    OBVIOUS
  <1>1. Init => Promise!Init
    BY InitPromise
  <1>2. IInv /\ SInv /\ [Next]_vars => [Promise!Next]_(Promise!settlement)
    BY PromiseStep
  <1> QED BY <1>1, <1>2, Settled, PTL DEF Spec, PromiseKept, Promise!Spec
=============================================================================
