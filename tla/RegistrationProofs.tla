------------------------- MODULE RegistrationProofs -------------------------
(***************************************************************************)
(* Theorems about module Registration, for every set of orders, payments   *)
(* and foreign transactions, every number of attempts and every fault.     *)
(***************************************************************************)
EXTENDS Registration, TLAPS

-----------------------------------------------------------------------------
(* Type correctness.                                                       *)

LEMMA InitType == Init => TypeOK
  BY RegistrationAssumption
     DEF Init, TypeOK, TxStatus, RowStatus, RegDefault, Orders, PreTxs, Own, Events

LEMMA EventType ==
    ASSUME TypeOK, blocks # <<>>
    PROVE  /\ Head(blocks)[1] = "apply" => Head(blocks)[2] \in Own
           /\ Head(blocks)[1] # "apply" => Head(blocks)[2] \in PreTxs
           /\ Tail(blocks) \in Seq(Events)
  <1>1. Head(blocks) \in Events /\ Tail(blocks) \in Seq(Events)
    BY DEF TypeOK
  <1> QED BY <1>1 DEF Events

\* Marking, unmarking and finishing an order of a batch.
LEMMA CasType ==
    ASSUME NEW f \in [SelfOrders -> TxStatus], NEW o, NEW b, NEW a \in TxStatus
    PROVE  CAS(f, o, b, a) \in [SelfOrders -> TxStatus]
  BY DEF CAS

LEMMA RegType ==
    ASSUME NEW f \in [Orders -> 0..6], NEW x, NEW v \in 0..6
    PROVE  [f EXCEPT ![x] = v] \in [Orders -> 0..6]
  OBVIOUS

LEMMA ToolType ==
    ASSUME TypeOK, NEW o \in SelfOrders
    PROVE  \A h \in Own : Finish(o) \/ AbortBatch \/ AwaitRow(h)
              => /\ todo' \subseteq SelfOrders /\ job' \in {"idle", "apply", "pre"}
                 /\ sending' = NoSend /\ sent' \in Own \cup {NoSend}
  BY DEF TypeOK, Finish, AbortBatch, AwaitRow

\* What placing an order writes.
LEMMA NewOrder ==
    ASSUME NEW o \in SelfOrders, CreateOrder(o)
    PROVE  /\ o \in placing
           /\ placing' = placing \ {o}
           /\ orderStatus' = [orderStatus EXCEPT ![o] = "open"]
           /\ \/ payStatus' = [payStatus EXCEPT ![o] = "Sending"]
              \/ o \notin GiftOrders /\ payStatus' = [payStatus EXCEPT ![o] = "Default"]
           /\ \/ o \in GiftOrders /\ regStatus' = [regStatus EXCEPT ![o] = ApplyRegister]
              \/ o \notin GiftOrders /\ regStatus' = [regStatus EXCEPT ![o] = ConfirmPayment]
           /\ \/ UNCHANGED payRow
              \/ \E p \in Pays : payRow' = [payRow EXCEPT ![p] = "Default"]
           /\ UNCHANGED <<preStatus, hedgeStatus, old, refund, rowVars, chainVars, toolVars, unrefund>>
  <1>1. CASE DoRegisterOrder(o)
    BY <1>1 DEF CreateOrder, DoRegisterOrder, NewRow
  <1>2. CASE DoRegisterCouponOrder(o)
    BY <1>2 DEF CreateOrder, DoRegisterCouponOrder, NewRow
  <1>3. CASE DoInternalRegisterOrder(o)
    BY <1>3, RegistrationAssumption DEF CreateOrder, DoInternalRegisterOrder, NewRow
  <1> QED BY <1>1, <1>2, <1>3 DEF CreateOrder

LEMMA HttpType == TypeOK /\ HttpNext => TypeOK'
  <1> SUFFICES ASSUME TypeOK, HttpNext PROVE TypeOK'
    OBVIOUS
  <1> USE DEF orderVars, payVars, rowVars, chainVars, toolVars
  <1>1. ASSUME NEW o \in SelfOrders, CheckOrder(o) PROVE TypeOK'
    BY <1>1 DEF TypeOK, CheckOrder
  <1>2. ASSUME NEW o \in SelfOrders, CreateOrder(o) PROVE TypeOK'
    <2>1. orderStatus' \in [Orders -> {"none", "open", "closed"}]
      BY <1>2, NewOrder DEF TypeOK
    <2>2. regStatus' \in [Orders -> 0..6]
      <3>1. regStatus \in [Orders -> 0..6]
        BY DEF TypeOK
      <3>2. CASE o \in GiftOrders
        BY <1>2, <3>1, <3>2, RegType, NewOrder DEF ApplyRegister
      <3>3. CASE o \notin GiftOrders
        BY <1>2, <3>1, <3>3, RegType, NewOrder DEF ConfirmPayment
      <3> QED BY <3>2, <3>3
    <2>3. payStatus' \in [SelfOrders -> TxStatus]
      <3>1. payStatus \in [SelfOrders -> TxStatus]
        BY DEF TypeOK
      <3>2. \E s \in TxStatus : payStatus' = [payStatus EXCEPT ![o] = s]
        BY <1>2, NewOrder DEF TxStatus
      <3> QED BY <3>1, <3>2
    <2>4. payRow' \in [Pays -> RowStatus]
      BY <1>2, NewOrder DEF TypeOK, RowStatus
    <2> QED BY <1>2, <2>1, <2>2, <2>3, <2>4, NewOrder DEF TypeOK
  <1>3. ASSUME NEW p \in Pays, OrderPayHash(p) PROVE TypeOK'
    BY <1>3 DEF TypeOK, OrderPayHash, RowStatus
  <1>4. ASSUME NEW p \in Pays, DoPaymentConfirm(p) PROVE TypeOK'
    <2>1. payStatus' \in [SelfOrders -> TxStatus]
      BY <1>4, CasType DEF TypeOK, DoPaymentConfirm, TxStatus
    <2>2. regStatus' \in [Orders -> 0..6]
      <3>1. regStatus \in [Orders -> 0..6]
        BY DEF TypeOK
      <3>2. \/ regStatus' = regStatus
            \/ regStatus' = [regStatus EXCEPT ![OrderOf[p]] = 2]
        BY <1>4 DEF DoPaymentConfirm, ApplyRegister
      <3> QED BY <3>1, <3>2, RegType
    <2>3. payRow' \in [Pays -> RowStatus]
      BY <1>4 DEF TypeOK, DoPaymentConfirm, RowStatus
    <2> QED BY <1>4, <2>1, <2>2, <2>3 DEF TypeOK, DoPaymentConfirm
  <1> QED BY <1>1, <1>2, <1>3, <1>4 DEF HttpNext

LEMMA TxToolType == TypeOK /\ TxToolNext => TypeOK'
  <1> SUFFICES ASSUME TypeOK, TxToolNext PROVE TypeOK'
    OBVIOUS
  <1> USE DEF orderVars, payVars, rowVars, chainVars, toolVars
  <1>1. CASE DoOrderApplyTxList
    BY <1>1 DEF TypeOK, DoOrderApplyTxList
  <1>2. CASE DoOrderPreRegisterTxList
    BY <1>2 DEF TypeOK, DoOrderPreRegisterTxList
  <1>3. ASSUME NEW o \in SelfOrders, CloseForRefund(o) PROVE TypeOK'
    <2>1. orderStatus' \in [Orders -> {"none", "open", "closed"}]
      BY <1>3 DEF TypeOK, CloseForRefund, Close
    <2> QED BY <1>3, <2>1 DEF TypeOK, CloseForRefund, Finish
  <1>4. ASSUME BuildError PROVE TypeOK'
    BY <1>4 DEF TypeOK, BuildError, AbortBatch
  <1>5. ASSUME NEW o \in SelfOrders, DoOrderApplyTx(o) PROVE TypeOK'
    <2>1. CASE MarkApply(o)
      <3>1. payStatus' \in [SelfOrders -> TxStatus]
        BY <2>1, CasType DEF MarkApply, TypeOK, TxStatus
      <3>2. sending' \in SelfOrders \X (0..MaxSend)
        BY <2>1, RegistrationAssumption DEF MarkApply
      <3> QED BY <2>1, <3>1, <3>2 DEF MarkApply, TypeOK
    <2> QED BY <1>3, <1>4, <1>5, <2>1 DEF DoOrderApplyTx
  <1>6. ASSUME NEW o \in SelfOrders, SendApplyTx(o) PROVE TypeOK'
    <2>1. payStatus' \in [SelfOrders -> TxStatus]
      <3>1. payStatus' = payStatus \/ payStatus' = CAS(payStatus, o, "Ok", "Sending")
        BY <1>6 DEF SendApplyTx
      <3>2. payStatus \in [SelfOrders -> TxStatus] /\ "Sending" \in TxStatus
        BY DEF TypeOK, TxStatus
      <3> QED BY <3>1, <3>2, CasType
    <2>2. /\ todo' \subseteq SelfOrders /\ job' \in {"idle", "apply", "pre"}
          /\ sending' = NoSend /\ sent' \in Own \cup {NoSend}
      <3>1. AbortBatch \/ \E h \in Own : AwaitRow(h)
        BY <1>6 DEF SendApplyTx, NextSend
      <3> QED BY <3>1, ToolType DEF AbortBatch
    <2>3. ASSUME NEW h \in NextSend(applyTx, o), SendApplyAccepted(h)
          PROVE  TypeOK'
      <3>1. applyTx' \in [Own -> {"none", "pool", "rejected", "live", "dead"}]
        BY <2>3 DEF SendApplyAccepted, TypeOK
      <3> QED BY <2>1, <2>2, <2>3, <3>1 DEF SendApplyAccepted, TypeOK
    <2>4. CASE UNCHANGED <<placing, orderStatus, preStatus, hedgeStatus, regStatus, old,
                           payVars, rowVars, chainVars, unrefund>>
      BY <2>1, <2>2, <2>4 DEF TypeOK
    <2> QED BY <1>6, <2>3, <2>4 DEF SendApplyTx
  <1>7. ASSUME NEW o \in SelfOrders, DoOrderPreRegisterTx(o) PROVE TypeOK'
    <2>1. ASSUME NEW h \in ConfirmedApply(o), MarkPre(o, h) PROVE TypeOK'
      <3>1. preStatus' \in [SelfOrders -> TxStatus]
        BY <2>1, CasType DEF MarkPre, TypeOK, TxStatus
      <3>2. h[2] \in 0..MaxSend
        BY RegistrationAssumption DEF ConfirmedApply, Own
      <3>3. sending' \in SelfOrders \X (0..MaxSend)
        BY <2>1, <3>2 DEF MarkPre
      <3> QED BY <2>1, <3>1, <3>3 DEF MarkPre, TypeOK
    <2>2. ASSUME RedoApply(o) PROVE TypeOK'
      <3>1. payStatus' \in [SelfOrders -> TxStatus] /\ preStatus' \in [SelfOrders -> TxStatus]
        BY <2>2 DEF RedoApply, TypeOK, TxStatus
      <3> QED BY <2>2, <3>1 DEF RedoApply, TypeOK, Finish
    <2>3. ASSUME Finish(o) \/ AbortBatch,
                 UNCHANGED <<placing, orderVars, payVars, rowVars, chainVars, unrefund>>
          PROVE  TypeOK'
      BY <2>3 DEF TypeOK, Finish, AbortBatch
    <2> QED BY <1>3, <1>4, <1>7, <2>1, <2>2, <2>3 DEF DoOrderPreRegisterTx
  <1>8. ASSUME NEW o \in SelfOrders, SendPreTx(o) PROVE TypeOK'
    <2>1. preStatus' \in [SelfOrders -> TxStatus]
      <3>1. preStatus' = preStatus \/ preStatus' = CAS(preStatus, o, "Ok", "Sending")
        BY <1>8 DEF SendPreTx
      <3>2. preStatus \in [SelfOrders -> TxStatus] /\ "Sending" \in TxStatus
        BY DEF TypeOK, TxStatus
      <3> QED BY <3>1, <3>2, CasType
    <2>2. /\ todo' \subseteq SelfOrders /\ job' \in {"idle", "apply", "pre"}
          /\ sending' = NoSend /\ sent' \in Own \cup {NoSend}
      <3>1. Finish(o) \/ AbortBatch \/ \E h \in Own : AwaitRow(h)
        BY <1>8 DEF SendPreTx, NextSend
      <3>2. Finish(o) \/ AbortBatch => sending' = NoSend /\ sent' = NoSend
        BY DEF Finish, AbortBatch
      <3> QED BY <3>1, <3>2, ToolType DEF Finish, AbortBatch, TypeOK
    <2>3. ASSUME NEW h \in NextSend(preTx, o), SendPreAccepted(h, sending[2])
          PROVE  TypeOK'
      <3>1. preTx' \in [PreTxs -> {"none", "pool", "rejected", "live", "dead", "proposed", "confirmed"}]
        BY <2>3 DEF SendPreAccepted, TypeOK
      <3>2. sending[2] \in 0..MaxSend
        BY <1>8 DEF SendPreTx, TypeOK
      <3>3. spends' \in [Own -> 0..MaxSend]
        BY <2>3, <3>2 DEF SendPreAccepted, TypeOK
      <3> QED BY <2>1, <2>2, <2>3, <3>1, <3>3 DEF SendPreAccepted, TypeOK
    <2>4. CASE UNCHANGED <<placing, orderStatus, payStatus, hedgeStatus, regStatus, old,
                           payVars, rowVars, chainVars, unrefund>>
      BY <2>1, <2>2, <2>4 DEF TypeOK
    <2>5. CASE /\ orderStatus' = CAS(orderStatus, o, "open", "closed")
               /\ UNCHANGED <<placing, payStatus, hedgeStatus, regStatus, old,
                              payVars, rowVars, chainVars, unrefund>>
      <3>1. orderStatus' \in [Orders -> {"none", "open", "closed"}]
        BY <2>5 DEF CAS, TypeOK
      <3> QED BY <2>1, <2>2, <2>5, <3>1 DEF TypeOK
    <2> QED BY <1>8, <2>3, <2>4, <2>5 DEF SendPreTx
  <1>9. ASSUME NEW o \in SelfOrders, RecordApplyTx(o) \/ RecordPreTx(o) PROVE TypeOK'
    <2>1. applyRow' \in [Own -> RowStatus] /\ preRow' \in [Own -> RowStatus]
      BY <1>9 DEF RecordApplyTx, RecordPreTx, CreateOrderTx, TypeOK, RowStatus
    <2>2. Finish(o)
      BY <1>9 DEF RecordApplyTx, RecordPreTx
    <2> QED BY <1>9, <2>1, <2>2 DEF RecordApplyTx, RecordPreTx, Finish, TypeOK
  <1> QED BY <1>1, <1>2, <1>5, <1>6, <1>7, <1>8, <1>9 DEF TxToolNext

LEMMA AppendType ==
    ASSUME TypeOK, NEW k \in {"pre", "propose", "confirm"}
    PROVE  /\ \A h \in Own : Append(blocks, <<"apply", h>>) \in Seq(Events)
           /\ \A h \in PreTxs : Append(blocks, <<k, h>>) \in Seq(Events)
  BY DEF TypeOK, Events

LEMMA ChainType == TypeOK /\ ChainNext => TypeOK'
  <1> SUFFICES ASSUME TypeOK, ChainNext PROVE TypeOK'
    OBVIOUS
  <1> USE DEF orderVars, payVars, rowVars, chainVars, toolVars
  <1>1. ASSUME NEW h \in Own, CommitApply(h) PROVE TypeOK'
    <2>1. blocks' \in Seq(Events)
      BY <1>1, AppendType DEF CommitApply
    <2> QED BY <1>1, <2>1 DEF TypeOK, CommitApply
  <1>2. ASSUME NEW h \in Own, RejectApply(h) PROVE TypeOK'
    BY <1>2 DEF TypeOK, RejectApply
  <1>3. ASSUME NEW h \in Own, CommitPre(h) PROVE TypeOK'
    <2>1. h \in PreTxs
      BY DEF PreTxs
    <2>2. blocks' \in Seq(Events)
      BY <1>3, <2>1, AppendType DEF CommitPre
    <2>3. /\ preTx' \in [PreTxs -> {"none", "pool", "rejected", "live", "dead", "proposed", "confirmed"}]
          /\ applyTx' \in [Own -> {"none", "pool", "rejected", "live", "dead"}]
      BY <1>3 DEF TypeOK, CommitPre
    <2> QED BY <1>3, <2>2, <2>3 DEF TypeOK, CommitPre
  <1>4. ASSUME NEW h \in Own, RejectPre(h) PROVE TypeOK'
    BY <1>4 DEF TypeOK, RejectPre
  <1>5. ASSUME NEW h \in Own, DoRecycleApply(h) PROVE TypeOK'
    BY <1>5 DEF TypeOK, DoRecycleApply
  <1>6. ASSUME NEW h \in OtherPres, OtherPre(h) PROVE TypeOK'
    <2>1. blocks' \in Seq(Events)
      BY <1>6, AppendType DEF OtherPre, PreTxs
    <2> QED BY <1>6, <2>1 DEF TypeOK, OtherPre
  <1>7. ASSUME NEW h \in PreTxs, Propose(h) PROVE TypeOK'
    <2>1. blocks' \in Seq(Events)
      BY <1>7, AppendType DEF Propose
    <2> QED BY <1>7, <2>1 DEF TypeOK, Propose
  <1>8. ASSUME NEW h \in PreTxs, Confirm(h) PROVE TypeOK'
    <2>1. blocks' \in Seq(Events)
      BY <1>8, AppendType DEF Confirm
    <2> QED BY <1>8, <2>1 DEF TypeOK, Confirm
  <1>9. ASSUME NEW h \in PreTxs, DoRecyclePre(h) PROVE TypeOK'
    BY <1>9 DEF TypeOK, DoRecyclePre
  <1> QED BY <1>1, <1>2, <1>3, <1>4, <1>5, <1>6, <1>7, <1>8, <1>9 DEF ChainNext

\* What the handlers of block_parser may write.
HandledType ==
    /\ orderStatus' \in [Orders -> {"none", "open", "closed"}]
    /\ payStatus' \in [SelfOrders -> TxStatus] /\ preStatus' \in [SelfOrders -> TxStatus]
    /\ hedgeStatus' \in [SelfOrders -> TxStatus]
    /\ regStatus' \in [Orders -> 0..6]
    /\ refund' \in [Pays -> BOOLEAN]
    /\ applyRow' \in [Own -> RowStatus] /\ preRow' \in [Own -> RowStatus]
    /\ proposeRow' \in [PreTxs -> SUBSET Orders]

LEMMA HandleType ==
    ASSUME TypeOK, blocks # <<>>, Handle(Head(blocks))
    PROVE  HandledType
  <1> DEFINE e == Head(blocks)
             h == e[2]
  <1>0. regStatus \in [Orders -> 0..6]
    BY DEF TypeOK
  <1>1. CASE e[1] = "apply" /\ ActionApplyRegister(h)
    <2>1. regStatus' \in [Orders -> 0..6]
      <3>1. regStatus' = regStatus \/ regStatus' = [regStatus EXCEPT ![h[1]] = 3]
        BY <1>1 DEF ActionApplyRegister, PreRegister
      <3> QED BY <1>0, <3>1, RegType
    <2>2. preStatus' \in [SelfOrders -> TxStatus]
      <3>1. preStatus' = preStatus \/ preStatus' = CAS(preStatus, h[1], "Default", "Sending")
        BY <1>1 DEF ActionApplyRegister
      <3>2. preStatus \in [SelfOrders -> TxStatus] /\ "Sending" \in TxStatus
        BY DEF TypeOK, TxStatus
      <3> QED BY <3>1, <3>2, CasType
    <2>3. applyRow' \in [Own -> RowStatus]
      BY <1>1 DEF ActionApplyRegister, TypeOK, RowStatus
    <2> QED BY <1>1, <2>1, <2>2, <2>3 DEF ActionApplyRegister, TypeOK, HandledType
  <1>2. CASE e[1] = "pre" /\ ActionPreRegister(h)
    <2>1. regStatus' \in [Orders -> 0..6]
      <3>1. regStatus' = regStatus \/ \E x : regStatus' = [regStatus EXCEPT ![x] = 4]
        BY <1>2 DEF ActionPreRegister, Proposal
      <3> QED BY <1>0, <3>1, RegType
    <2>2. orderStatus' \in [Orders -> {"none", "open", "closed"}]
      BY <1>2 DEF ActionPreRegister, TypeOK
    <2>3. preRow' \in [Own -> RowStatus]
      BY <1>2 DEF ActionPreRegister, TypeOK, RowStatus
    <2> QED BY <1>2, <2>1, <2>2, <2>3 DEF ActionPreRegister, TypeOK, HandledType
  <1>3. CASE e[1] = "propose" /\ ActionPropose(h)
    <2>1. regStatus' \in [Orders -> 0..6]
      BY <1>0, <1>3 DEF ActionPropose, ConfirmProposal
    <2>2. proposeRow' \in [PreTxs -> SUBSET Orders]
      BY <1>3 DEF ActionPropose, PreOrders, TypeOK
    <2> QED BY <1>3, <2>1, <2>2 DEF ActionPropose, TypeOK, HandledType
  <1>4. CASE e[1] = "confirm" /\ ActionConfirmProposal(h)
    <2>1. regStatus' \in [Orders -> 0..6]
      BY <1>0, <1>4 DEF ActionConfirmProposal, Registered
    <2>2. orderStatus' \in [Orders -> {"none", "open", "closed"}]
      BY <1>4 DEF ActionConfirmProposal, TypeOK
    <2>3. hedgeStatus' \in [SelfOrders -> TxStatus]
      BY <1>4 DEF ActionConfirmProposal, TypeOK, TxStatus
    <2>4. refund' \in [Pays -> BOOLEAN]
      BY <1>4, Zenon DEF ActionConfirmProposal, TypeOK
    <2> QED BY <1>4, <2>1, <2>2, <2>3, <2>4 DEF ActionConfirmProposal, TypeOK, HandledType
  <1> QED BY <1>1, <1>2, <1>3, <1>4 DEF Handle

LEMMA ParserType == TypeOK /\ ParseBlock => TypeOK'
  <1> SUFFICES ASSUME TypeOK, ParseBlock PROVE TypeOK'
    OBVIOUS
  <1>1. HandledType
    BY HandleType DEF ParseBlock
  <1>2. blocks' \in Seq(Events)
    BY EventType DEF ParseBlock, TypeOK
  <1> QED BY <1>1, <1>2 DEF ParseBlock, HandledType, TypeOK, toolVars

LEMMA TimerType == TypeOK /\ (TimerNext \/ Crash \/ Age) => TypeOK'
  <1> SUFFICES ASSUME TypeOK, TimerNext \/ Crash \/ Age PROVE TypeOK'
    OBVIOUS
  <1> USE DEF orderVars, payVars, rowVars, chainVars, toolVars
  <1>1. ASSUME NEW o \in SelfOrders, CheckExpired(o) PROVE TypeOK'
    BY <1>1 DEF TypeOK, CheckExpired, Close
  <1>2. ASSUME NEW o \in SelfOrders, UpdatePayToRefund(o) PROVE TypeOK'
    <2>1. refund' \in [Pays -> BOOLEAN]
      BY <1>2, Zenon DEF TypeOK, UpdatePayToRefund
    <2> QED BY <1>2, <2>1 DEF TypeOK, UpdatePayToRefund
  <1>3. ASSUME NEW o \in SelfOrders, DoOrderHedge(o) PROVE TypeOK'
    BY <1>3 DEF TypeOK, DoOrderHedge, TxStatus
  <1>4. ASSUME NEW h \in Own, DoTxRejectedApply(h) PROVE TypeOK'
    BY <1>4 DEF TypeOK, DoTxRejectedApply, vars
  <1>5. ASSUME NEW h \in Own, DoTxRejectedPre(h) PROVE TypeOK'
    <2>1. applyRow' \in [Own -> RowStatus] /\ preRow' \in [Own -> RowStatus]
      BY <1>5 DEF TypeOK, DoTxRejectedPre, RowStatus
    <2>2. preStatus' \in [SelfOrders -> TxStatus]
      <3>1. preStatus' = preStatus \/ preStatus' = CAS(preStatus, h[1], "Ok", "Sending")
        BY <1>5 DEF DoTxRejectedPre
      <3>2. preStatus \in [SelfOrders -> TxStatus] /\ "Sending" \in TxStatus
        BY DEF TypeOK, TxStatus
      <3> QED BY <3>1, <3>2, CasType
    <2> QED BY <1>5, <2>1, <2>2 DEF TypeOK, DoTxRejectedPre
  <1>6. CASE DoCheckClosedAndUnRefund
    BY <1>6 DEF TypeOK, DoCheckClosedAndUnRefund, ClosedAndUnRefund
  <1>7. CASE Crash
    BY <1>7 DEF TypeOK, Crash, AbortBatch
  <1>8. CASE Age
    BY <1>8 DEF TypeOK, Age
  <1> QED BY <1>1, <1>2, <1>3, <1>4, <1>5, <1>6, <1>7, <1>8 DEF TimerNext

LEMMA TypeStep == TypeOK /\ [Next]_vars => TypeOK'
  <1> SUFFICES ASSUME TypeOK, [Next]_vars PROVE TypeOK'
    OBVIOUS
  <1>1. CASE UNCHANGED vars
    BY <1>1 DEF TypeOK, vars, orderVars, payVars, rowVars, chainVars, toolVars
  <1> QED BY <1>1, HttpType, TxToolType, ChainType, ParserType, TimerType DEF Next

\* Every state the registration pipeline can reach is well typed: no status
\* column is ever given a value of another column's enumeration.
THEOREM TypeCorrect == Spec => []TypeOK
  BY InitType, TypeStep, PTL DEF Spec

-----------------------------------------------------------------------------
(* The inductive invariant.                                                *)

Paid(o) == payStatus[o] # "Default"
LedgerStates == {"live", "dead", "proposed", "confirmed"}
OnLedger(h) == preTx[h] \in LedgerStates

\* A row is written once, in the state the column defaults describe.
Unborn ==
    /\ \A o \in placing : ~Exists(o)
    /\ \A x \in Orders : ~Exists(x) => regStatus[x] = 0
    /\ \A o \in SelfOrders : ~Exists(o) => ~Paid(o)

\* Nothing is done for an order before UpdatePayment saw its payment.
PaidFirst ==
    /\ \A o \in SelfOrders : regStatus[o] > 1 \/ preStatus[o] # "Default" \/ o \in todo => Paid(o)
    /\ sending # NoSend => Paid(sending[1])
    /\ sent # NoSend => Paid(sent[1])
    /\ \A h \in Own : applyRow[h] # "none" \/ preRow[h] # "none" => Paid(h[1])

\* The node has the pre_register transaction h, its row is not yet written.
AwaitsRow(h) == <<job, sent>> = <<"pre", h>>

\* Rows follow transactions, and the parser sees apply before pre_register.
RowsFollow ==
    /\ sent # NoSend => /\ job # "idle"
                        /\ job = "apply" => applyTx[sent] # "none" /\ applyRow[sent] = "none"
                        /\ job = "pre" => preTx[sent] # "none" /\ preRow[sent] = "none"
    /\ \A h \in Own : applyRow[h] # "none" => applyTx[h] # "none"
    /\ \A h \in Own : preRow[h] # "none" => preTx[h] # "none"
    /\ \A o \in SelfOrders : preStatus[o] # "Default" => \E h \in Own : h[1] = o /\ applyRow[h] = "Confirm"

\* What the parser reads is on the ledger, and an account is confirmed once.
LedgerSound ==
    /\ \A i \in 1..Len(blocks) : blocks[i][1] # "apply" => OnLedger(blocks[i][2])
    /\ \A i \in 1..Len(blocks) : blocks[i][1] = "confirm" => preTx[blocks[i][2]] = "confirmed"
    /\ \A h, k \in PreTxs : preTx[h] = "confirmed" /\ preTx[k] = "confirmed" /\ Acct(h) = Acct(k) => h = k

\* A pre_register transaction has one order, the one it was sent for or the
\* one made for it by the parser, unless its row is late.
OneOrderPerPre ==
    /\ \A h \in PreTxs : Exists(h) => OnLedger(h)
    /\ "late" \notin Faults => \A h \in Own : Exists(h) => preRow[h] = "none" /\ ~AwaitsRow(h)
    /\ \A h \in PreTxs : proposeRow[h] \subseteq PreOrders(h)
    /\ \A x \in Orders : regStatus[x] = Registered => \E h \in PreTxs : preTx[h] = "confirmed" /\ x \in proposeRow[h]

IInv == TypeOK /\ Unborn /\ PaidFirst /\ RowsFollow /\ LedgerSound /\ OneOrderPerPre

LEMMA OwnIsPre == \A h \in Own : h \in PreTxs /\ h \in Orders /\ h[1] \in SelfOrders /\ h[1] \in Orders
  BY DEF Own, PreTxs, Orders

LEMMA InitInv == Init => IInv
  <1> SUFFICES ASSUME Init PROVE IInv
    OBVIOUS
  <1>1. TypeOK
    BY InitType
  <1>2. Unborn
    BY DEF Init, Unborn, Exists, Paid, RegDefault
  <1>3. PaidFirst
    BY DEF Init, PaidFirst, RegDefault, Orders
  <1>4. RowsFollow
    BY DEF Init, RowsFollow
  <1>5. LedgerSound
    BY DEF Init, LedgerSound
  <1>6. OneOrderPerPre
    BY OwnIsPre DEF Init, OneOrderPerPre, Exists, RegDefault, Registered, Orders
  <1> QED BY <1>1, <1>2, <1>3, <1>4, <1>5, <1>6 DEF IInv

-----------------------------------------------------------------------------
(* Who writes what.                                                        *)

LEMMA HttpFrame ==
    HttpNext => UNCHANGED <<preStatus, hedgeStatus, old, refund, rowVars, chainVars, toolVars, unrefund>>
  BY DEF HttpNext, CheckOrder, CreateOrder, OrderPayHash, DoPaymentConfirm,
         orderVars, payVars

LEMMA TxToolFrame ==
    TxToolNext => UNCHANGED <<placing, hedgeStatus, regStatus, old, payVars, proposeRow, blocks, unrefund>>
  <1> USE DEF orderVars, rowVars, chainVars
  <1>1. DoOrderApplyTxList \/ DoOrderPreRegisterTxList
            => UNCHANGED <<placing, hedgeStatus, regStatus, old, payVars, proposeRow, blocks, unrefund>>
    BY DEF DoOrderApplyTxList, DoOrderPreRegisterTxList
  <1>2. ASSUME NEW o \in SelfOrders, DoOrderApplyTx(o) \/ DoOrderPreRegisterTx(o)
        PROVE  UNCHANGED <<placing, hedgeStatus, regStatus, old, payVars, proposeRow, blocks, unrefund>>
    BY <1>2 DEF DoOrderApplyTx, DoOrderPreRegisterTx, BuildError, CloseForRefund, MarkApply,
                MarkPre, RedoApply
  <1>3. ASSUME NEW o \in SelfOrders, SendApplyTx(o) \/ SendPreTx(o)
        PROVE  UNCHANGED <<placing, hedgeStatus, regStatus, old, payVars, proposeRow, blocks, unrefund>>
    BY <1>3 DEF SendApplyTx, SendPreTx, SendApplyAccepted, SendPreAccepted
  <1>4. ASSUME NEW o \in SelfOrders, RecordApplyTx(o) \/ RecordPreTx(o)
        PROVE  UNCHANGED <<placing, hedgeStatus, regStatus, old, payVars, proposeRow, blocks, unrefund>>
    BY <1>4 DEF RecordApplyTx, RecordPreTx
  <1> QED BY <1>1, <1>2, <1>3, <1>4 DEF TxToolNext

\* Writing the row of a transaction.
LEMMA RecordFrame ==
    ASSUME NEW o \in SelfOrders, RecordApplyTx(o) \/ RecordPreTx(o)
    PROVE  /\ UNCHANGED <<placing, orderVars, payVars, proposeRow, chainVars, unrefund>>
           /\ sent # NoSend /\ sent[1] = o /\ Finish(o)
           /\ \/ job = "apply" /\ UNCHANGED <<applyRow, preRow>>
              \/ job = "pre" /\ UNCHANGED <<applyRow, preRow>>
              \/ job = "apply" /\ applyRow' = [applyRow EXCEPT ![sent] = "Default"] /\ UNCHANGED preRow
              \/ job = "pre" /\ preRow' = [preRow EXCEPT ![sent] = "Default"] /\ UNCHANGED applyRow
  BY DEF RecordApplyTx, RecordPreTx, CreateOrderTx

LEMMA ChainFrame ==
    ChainNext => UNCHANGED <<placing, orderVars, payVars, rowVars, toolVars, unrefund>>
  BY DEF ChainNext, CommitApply, RejectApply, CommitPre, RejectPre, OtherPre, Propose, Confirm,
         DoRecycleApply, DoRecyclePre

LEMMA ParserFrame ==
    ParseBlock => UNCHANGED <<placing, payStatus, old, payRow, applyTx, preTx, spends, toolVars, unrefund>>
  BY DEF ParseBlock, Handle, ActionApplyRegister, ActionPreRegister, ActionPropose, ActionConfirmProposal

\* The parser confirms rows, it writes none for an order of ours.
LEMMA ParserRows ==
    ASSUME TypeOK, ParseBlock, NEW k \in Own
    PROVE  /\ applyRow'[k] = applyRow[k] \/ (applyRow[k] # "none" /\ applyRow'[k] = "Confirm")
           /\ preRow'[k] = preRow[k] \/ (preRow[k] # "none" /\ preRow'[k] = "Confirm")
  <1> DEFINE e == Head(blocks)
             h == Head(blocks)[2]
  <1>1. blocks # <<>> /\ Handle(e)
    BY DEF ParseBlock
  <1>2. CASE e[1] = "apply" /\ ActionApplyRegister(h)
    BY <1>2 DEF ActionApplyRegister, TypeOK
  <1>3. CASE e[1] = "pre" /\ ActionPreRegister(h)
    <2>1. h \in PreTxs
      BY <1>1, <1>3, EventType
    <2>2. \A x \in PreOrders(h) : x # h => h \in Own /\ preRow[h] # "none"
      BY DEF PreOrders
    <2> QED BY <1>3, <2>1, <2>2 DEF ActionPreRegister, TypeOK
  <1>4. CASE (e[1] = "propose" /\ ActionPropose(h)) \/ (e[1] = "confirm" /\ ActionConfirmProposal(h))
    BY <1>4 DEF ActionPropose, ActionConfirmProposal
  <1> QED BY <1>1, <1>2, <1>3, <1>4 DEF Handle

\* Only DoTxRejectedPre, CheckExpired, Crash and refunds touch what is not here.
LEMMA TimerFrame ==
    TimerNext \/ Crash \/ Age => UNCHANGED <<payStatus, regStatus, payRow, proposeRow, chainVars>>
  BY DEF TimerNext, Crash, Age, CheckExpired, UpdatePayToRefund, DoOrderHedge, DoTxRejectedApply,
         DoTxRejectedPre, DoCheckClosedAndUnRefund, vars, orderVars, payVars, rowVars, chainVars

-----------------------------------------------------------------------------
(* What a step never takes back.                                           *)

OrdersStable ==
    /\ \A o \in SelfOrders : Paid(o) => Paid(o)'
    /\ \A x \in Orders : Exists(x) => Exists(x)'

TxsStable ==
    /\ \A h \in Own : applyTx[h] # "none" => applyTx'[h] # "none"
    /\ \A h \in PreTxs : preTx[h] # "none" => preTx'[h] # "none"
    /\ \A h \in PreTxs : OnLedger(h) => OnLedger(h)'
    /\ \A h \in PreTxs : preTx[h] = "confirmed" => preTx'[h] = "confirmed"

RowsStable ==
    /\ \A h \in Own : applyRow[h] # "none" => applyRow'[h] # "none"
    /\ \A h \in Own : applyRow[h] = "Confirm" => applyRow'[h] = "Confirm"
    /\ \A h \in Own : preRow[h] # "none" => preRow'[h] # "none"
    /\ \A h \in Own : preRow[h] = "none" /\ preTx[h] # "none" /\ ~AwaitsRow(h) => preRow'[h] = "none"

LEMMA OrdersStep == IInv /\ [Next]_vars => OrdersStable
  <1> SUFFICES ASSUME IInv, [Next]_vars PROVE OrdersStable
    OBVIOUS
  <1> USE DEF OrdersStable, Paid, Exists, IInv, TypeOK
  <1>1. CASE HttpNext
    <2>1. ASSUME NEW o \in SelfOrders, CheckOrder(o) PROVE OrdersStable
      BY <2>1 DEF CheckOrder, orderVars
    <2>2. ASSUME NEW o \in SelfOrders, CreateOrder(o) PROVE OrdersStable
      <3>1. ~Exists(o) /\ ~Paid(o)
        BY <2>2, NewOrder DEF Unborn
      <3> QED BY <2>2, <3>1, NewOrder DEF Orders
    <2>3. ASSUME NEW p \in Pays, OrderPayHash(p) PROVE OrdersStable
      BY <2>3 DEF OrderPayHash, orderVars
    <2>4. ASSUME NEW p \in Pays, DoPaymentConfirm(p) PROVE OrdersStable
      BY <2>4 DEF DoPaymentConfirm, CAS
    <2> QED BY <1>1, <2>1, <2>2, <2>3, <2>4 DEF HttpNext
  <1>2. CASE TxToolNext
    <2>1. CASE DoOrderApplyTxList \/ DoOrderPreRegisterTxList
      BY <2>1 DEF DoOrderApplyTxList, DoOrderPreRegisterTxList, orderVars
    <2>2. ASSUME NEW o \in SelfOrders, CloseForRefund(o) PROVE OrdersStable
      BY <2>2 DEF CloseForRefund, Close
    <2>3. ASSUME NEW o \in SelfOrders, DoOrderApplyTx(o) PROVE OrdersStable
      BY <2>2, <2>3 DEF DoOrderApplyTx, BuildError, MarkApply, CAS, orderVars
    <2>4. ASSUME NEW o \in SelfOrders, SendApplyTx(o) PROVE OrdersStable
      BY <2>4 DEF SendApplyTx, SendApplyAccepted, CAS
    <2>5. ASSUME NEW o \in SelfOrders, DoOrderPreRegisterTx(o) PROVE OrdersStable
      BY <2>2, <2>5 DEF DoOrderPreRegisterTx, BuildError, MarkPre, RedoApply, orderVars
    <2>6. ASSUME NEW o \in SelfOrders, SendPreTx(o) PROVE OrdersStable
      BY <2>6 DEF SendPreTx, SendPreAccepted, CAS
    <2>7. ASSUME NEW o \in SelfOrders, RecordApplyTx(o) \/ RecordPreTx(o) PROVE OrdersStable
      BY <2>7, RecordFrame DEF orderVars
    <2> QED BY <1>2, <2>1, <2>3, <2>4, <2>5, <2>6, <2>7 DEF TxToolNext
  <1>3. CASE ChainNext
    BY <1>3, ChainFrame DEF orderVars
  <1>4. CASE ParseBlock
    <2>1. UNCHANGED payStatus
      BY <1>4, ParserFrame
    <2>2. ASSUME NEW x \in Orders, Exists(x) PROVE Exists(x)'
      BY <1>4, <2>2 DEF ParseBlock, Handle, ActionApplyRegister, ActionPreRegister, ActionPropose,
                        ActionConfirmProposal
    <2> QED BY <2>1, <2>2
  <1>5. CASE TimerNext \/ Crash \/ Age
    <2>1. UNCHANGED payStatus
      BY <1>5, TimerFrame
    <2>2. ASSUME NEW x \in Orders, Exists(x) PROVE Exists(x)'
      BY <1>5, <2>2 DEF TimerNext, Crash, Age, CheckExpired, Close, UpdatePayToRefund, DoOrderHedge,
                        DoTxRejectedApply, DoTxRejectedPre, DoCheckClosedAndUnRefund, vars, orderVars
    <2> QED BY <2>1, <2>2
  <1>6. CASE UNCHANGED vars
    BY <1>6 DEF vars, orderVars
  <1> QED BY <1>1, <1>2, <1>3, <1>4, <1>5, <1>6 DEF Next

LEMMA TxsStep == IInv /\ [Next]_vars => TxsStable
  <1> SUFFICES ASSUME IInv, [Next]_vars PROVE TxsStable
    OBVIOUS
  <1> USE DEF TxsStable, OnLedger, LedgerStates, IInv, TypeOK, chainVars
  <1>1. CASE HttpNext
    BY <1>1, HttpFrame
  <1>2. CASE TxToolNext
    <2>1. CASE DoOrderApplyTxList \/ DoOrderPreRegisterTxList
      BY <2>1 DEF DoOrderApplyTxList, DoOrderPreRegisterTxList
    <2>2. ASSUME NEW o \in SelfOrders, DoOrderApplyTx(o) \/ DoOrderPreRegisterTx(o) PROVE TxsStable
      BY <2>2 DEF DoOrderApplyTx, DoOrderPreRegisterTx, BuildError, CloseForRefund, MarkApply,
                  MarkPre, RedoApply
    <2>3. ASSUME NEW o \in SelfOrders, SendApplyTx(o) PROVE TxsStable
      BY <2>3 DEF SendApplyTx, SendApplyAccepted
    <2>4. ASSUME NEW o \in SelfOrders, SendPreTx(o) PROVE TxsStable
      BY <2>4 DEF SendPreTx, SendPreAccepted, NextSend
    <2>5. ASSUME NEW o \in SelfOrders, RecordApplyTx(o) \/ RecordPreTx(o) PROVE TxsStable
      BY <2>5, RecordFrame
    <2> QED BY <1>2, <2>1, <2>2, <2>3, <2>4, <2>5 DEF TxToolNext
  <1>3. CASE ChainNext
    <2>1. ASSUME NEW h \in Own, CommitApply(h) \/ RejectApply(h) \/ DoRecycleApply(h) PROVE TxsStable
      BY <2>1 DEF CommitApply, RejectApply, DoRecycleApply
    <2>2. ASSUME NEW h \in Own, CommitPre(h) PROVE TxsStable
      BY <2>2 DEF CommitPre
    <2>3. ASSUME NEW h \in Own, RejectPre(h) PROVE TxsStable
      BY <2>3 DEF RejectPre
    <2>4. ASSUME NEW h \in PreTxs, OtherPre(h) \/ Propose(h) \/ Confirm(h) \/ DoRecyclePre(h)
          PROVE  TxsStable
      BY <2>4 DEF OtherPre, Propose, Confirm, DoRecyclePre
    <2> QED BY <1>3, <2>1, <2>2, <2>3, <2>4 DEF ChainNext, PreTxs
  <1>4. CASE ParseBlock
    BY <1>4, ParserFrame
  <1>5. CASE TimerNext \/ Crash \/ Age
    BY <1>5, TimerFrame
  <1>6. CASE UNCHANGED vars
    BY <1>6 DEF vars
  <1> QED BY <1>1, <1>2, <1>3, <1>4, <1>5, <1>6 DEF Next

LEMMA RowsStep == IInv /\ [Next]_vars => RowsStable
  <1> SUFFICES ASSUME IInv, [Next]_vars PROVE RowsStable
    OBVIOUS
  <1> USE DEF RowsStable, IInv, TypeOK, rowVars
  <1>1. CASE HttpNext
    BY <1>1, HttpFrame
  <1>2. CASE TxToolNext
    <2>1. CASE DoOrderApplyTxList \/ DoOrderPreRegisterTxList
      BY <2>1 DEF DoOrderApplyTxList, DoOrderPreRegisterTxList
    <2>2. ASSUME NEW o \in SelfOrders, DoOrderApplyTx(o) \/ DoOrderPreRegisterTx(o) PROVE RowsStable
      BY <2>2 DEF DoOrderApplyTx, DoOrderPreRegisterTx, BuildError, CloseForRefund, MarkApply,
                  MarkPre, RedoApply
    <2>3. ASSUME NEW o \in SelfOrders, SendApplyTx(o) PROVE RowsStable
      BY <2>3 DEF SendApplyTx, SendApplyAccepted
    <2>4. ASSUME NEW o \in SelfOrders, SendPreTx(o) PROVE RowsStable
      BY <2>4 DEF SendPreTx, SendPreAccepted
    <2>5. ASSUME NEW o \in SelfOrders, RecordApplyTx(o) \/ RecordPreTx(o) PROVE RowsStable
      <3>1. /\ job = "apply" => applyRow[sent] = "none"
            /\ job = "pre" => preRow[sent] = "none"
        BY <2>5, RecordFrame DEF RowsFollow
      <3>2. CASE UNCHANGED <<applyRow, preRow>>
        BY <3>2
      <3>3. CASE job = "apply" /\ applyRow' = [applyRow EXCEPT ![sent] = "Default"] /\ UNCHANGED preRow
        BY <3>1, <3>3
      <3>4. CASE job = "pre" /\ preRow' = [preRow EXCEPT ![sent] = "Default"] /\ UNCHANGED applyRow
        BY <3>1, <3>4 DEF AwaitsRow
      <3> QED BY <2>5, <3>2, <3>3, <3>4, RecordFrame
    <2> QED BY <1>2, <2>1, <2>2, <2>3, <2>4, <2>5 DEF TxToolNext
  <1>3. CASE ChainNext
    BY <1>3, ChainFrame
  <1>4. CASE ParseBlock
    BY <1>4, ParserRows
  <1>5. CASE TimerNext \/ Crash \/ Age
    <2>1. ASSUME NEW h \in Own, DoTxRejectedPre(h) PROVE RowsStable
      BY <2>1 DEF DoTxRejectedPre
    <2> QED BY <1>5, <2>1 DEF TimerNext, Crash, Age, CheckExpired, UpdatePayToRefund, DoOrderHedge,
                              DoTxRejectedApply, DoCheckClosedAndUnRefund, vars
  <1>6. CASE UNCHANGED vars
    BY <1>6 DEF vars
  <1> QED BY <1>1, <1>2, <1>3, <1>4, <1>5, <1>6 DEF Next

-----------------------------------------------------------------------------
(* Each part of the invariant is preserved.                                *)

\* A well-formed event names a transaction of the chain.
LEMMA PreOrdersInOrders == \A h \in PreTxs : PreOrders(h) \subseteq Orders
  BY DEF PreOrders

LEMMA UnbornStep == IInv /\ [Next]_vars => Unborn'
  <1> SUFFICES ASSUME IInv, [Next]_vars PROVE Unborn'
    OBVIOUS
  <1>0. OrdersStable
    BY OrdersStep
  <1> USE DEF Unborn, Exists, Paid, IInv, TypeOK
  <1>1. CASE HttpNext
    <2>1. ASSUME NEW o \in SelfOrders, CheckOrder(o) PROVE Unborn'
      BY <2>1 DEF CheckOrder, orderVars
    <2>2. ASSUME NEW o \in SelfOrders, CreateOrder(o) PROVE Unborn'
      <3>1. /\ placing' = placing \ {o}
            /\ orderStatus' = [orderStatus EXCEPT ![o] = "open"]
        BY <2>2, NewOrder
      <3>2. \A x \in Orders : x # o => regStatus'[x] = regStatus[x]
        BY <2>2, NewOrder DEF Orders
      <3>3. \A x \in SelfOrders : x # o => payStatus'[x] = payStatus[x]
        BY <2>2, NewOrder
      <3> QED BY <3>1, <3>2, <3>3 DEF Orders
    <2>3. ASSUME NEW p \in Pays, OrderPayHash(p) PROVE Unborn'
      BY <2>3 DEF OrderPayHash, orderVars
    <2>4. ASSUME NEW p \in Pays, DoPaymentConfirm(p) PROVE Unborn'
      BY <2>4 DEF DoPaymentConfirm, CAS
    <2> QED BY <1>1, <2>1, <2>2, <2>3, <2>4 DEF HttpNext
  <1>2. CASE TxToolNext
    <2>1. UNCHANGED <<placing, regStatus>>
      BY <1>2, TxToolFrame
    <2> DEFINE Unpaid == \A o \in SelfOrders : ~Exists(o) => payStatus'[o] = "Default"
               NoNew == \A x \in Orders : Exists(x)' => Exists(x)
    <2>2. Unpaid /\ NoNew
      <3>0. \A q \in todo : Exists(q)
        BY DEF PaidFirst
      <3>1. CASE DoOrderApplyTxList \/ DoOrderPreRegisterTxList
        BY <3>1 DEF DoOrderApplyTxList, DoOrderPreRegisterTxList, orderVars
      <3>2. ASSUME NEW q \in SelfOrders, DoOrderApplyTx(q) PROVE Unpaid /\ NoNew
        BY <3>0, <3>2 DEF DoOrderApplyTx, BuildError, CloseForRefund, Close, MarkApply, CAS, orderVars
      <3>3. ASSUME NEW q \in SelfOrders, SendApplyTx(q) PROVE Unpaid /\ NoNew
        BY <3>3 DEF SendApplyTx, SendApplyAccepted, CAS
      <3>4. ASSUME NEW q \in SelfOrders, DoOrderPreRegisterTx(q) PROVE Unpaid /\ NoNew
        BY <3>0, <3>4 DEF DoOrderPreRegisterTx, BuildError, CloseForRefund, Close, MarkPre, RedoApply,
                          Open, orderVars
      <3>5. ASSUME NEW q \in SelfOrders, SendPreTx(q) PROVE Unpaid /\ NoNew
        BY <3>5 DEF SendPreTx, SendPreAccepted, CAS
      <3>6. ASSUME NEW q \in SelfOrders, RecordApplyTx(q) \/ RecordPreTx(q) PROVE Unpaid /\ NoNew
        BY <3>6, RecordFrame DEF orderVars
      <3> QED BY <1>2, <3>1, <3>2, <3>3, <3>4, <3>5, <3>6 DEF TxToolNext
    <2> QED BY <1>0, <2>1, <2>2 DEF OrdersStable, Orders
  <1>3. CASE ChainNext
    BY <1>3, ChainFrame DEF orderVars
  <1>4. CASE ParseBlock
    <2>1. UNCHANGED <<placing, payStatus>>
      BY <1>4, ParserFrame
    <2>2. ASSUME NEW o \in SelfOrders PROVE Exists(o)' => Exists(o)
      BY <1>4, RegistrationAssumption, EventType
         DEF ParseBlock, Handle, ActionApplyRegister, ActionPreRegister, ActionPropose,
             ActionConfirmProposal, Orders
    <2>3. ASSUME NEW x \in Orders, ~Exists(x)' PROVE regStatus'[x] = 0
      <3>1. ~Exists(x) /\ regStatus[x] = 0
        BY <1>0, <2>3 DEF OrdersStable
      <3>2. blocks # <<>> /\ Handle(Head(blocks))
        BY <1>4 DEF ParseBlock
      <3> DEFINE h == Head(blocks)[2]
      <3>3. CASE Head(blocks)[1] = "apply" /\ ActionApplyRegister(h)
        <4>1. h \in Own /\ h[1] \in SelfOrders
          BY <3>2, <3>3, EventType DEF Own
        <4>2. applyRow[h] # "none" => h[1] # x
          BY <3>1, <4>1 DEF PaidFirst
        <4> QED BY <3>1, <3>3, <4>1, <4>2 DEF ActionApplyRegister
      <3>4. CASE Head(blocks)[1] = "pre" /\ ActionPreRegister(h)
        <4>1. ASSUME PreOrders(h) # {} PROVE x \notin PreOrders(h)
          <5>1. h \in PreTxs
            BY <3>2, <3>4, EventType
          <5>2. ASSUME h \in Own, preRow[h] # "none" PROVE x # h[1]
            BY <3>1, <5>2 DEF PaidFirst, Own
          <5> QED BY <3>1, <5>1, <5>2 DEF PreOrders
        <4> QED BY <2>3, <3>1, <3>4, <4>1 DEF ActionPreRegister
      <3>5. CASE Head(blocks)[1] = "propose" /\ ActionPropose(h)
        BY <3>1, <3>5 DEF ActionPropose, Proposal
      <3>6. CASE Head(blocks)[1] = "confirm" /\ ActionConfirmProposal(h)
        <4>1. h \in PreTxs
          BY <3>2, <3>6, EventType
        <4>2. x \notin PreOrders(h)
          <5>2. ASSUME h \in Own, preRow[h] # "none" PROVE x # h[1]
            BY <3>1, <5>2 DEF PaidFirst, Own
          <5> QED BY <3>1, <4>1, <5>2 DEF PreOrders
        <4>3. x \notin proposeRow[h]
          BY <4>1, <4>2 DEF OneOrderPerPre
        <4> QED BY <3>1, <3>6, <4>3 DEF ActionConfirmProposal
      <3> QED BY <3>2, <3>3, <3>4, <3>5, <3>6 DEF Handle
    <2> QED BY <1>0, <2>1, <2>2, <2>3 DEF OrdersStable, Orders
  <1>5. CASE TimerNext \/ Crash \/ Age
    <2>1. UNCHANGED <<payStatus, regStatus>>
      BY <1>5, TimerFrame
    <2>2. placing' \subseteq placing /\ \A x \in Orders : Exists(x)' => Exists(x)
      BY <1>5 DEF TimerNext, Crash, Age, CheckExpired, Close, Open, UpdatePayToRefund, DoOrderHedge,
                  DoTxRejectedApply, DoTxRejectedPre, DoCheckClosedAndUnRefund, vars, orderVars
    <2> QED BY <1>0, <2>1, <2>2 DEF OrdersStable, Orders
  <1>6. CASE UNCHANGED vars
    BY <1>6 DEF vars, orderVars
  <1> QED BY <1>1, <1>2, <1>3, <1>4, <1>5, <1>6 DEF Next

LEMMA PaidFirstStep == IInv /\ [Next]_vars => PaidFirst'
  <1> SUFFICES ASSUME IInv, [Next]_vars PROVE PaidFirst'
    OBVIOUS
  <1>0. \A o \in SelfOrders : Paid(o) => Paid(o)'
    BY OrdersStep DEF OrdersStable
  <1> DEFINE Orders1 == \A o \in SelfOrders :
                 regStatus'[o] > 1 \/ preStatus'[o] # "Default" \/ o \in todo' => Paid(o) \/ Paid(o)'
             Sending1 == sending' # NoSend => Paid(sending'[1]) /\ sending'[1] \in SelfOrders
             Sent1 == sent' # NoSend => Paid(sent'[1]) /\ sent'[1] \in SelfOrders
             Rows1 == \A h \in Own : applyRow'[h] # "none" \/ preRow'[h] # "none" => Paid(h[1])
  <1>00. SUFFICES Orders1 /\ Sending1 /\ Sent1 /\ Rows1
    BY <1>0 DEF PaidFirst, Own
  <1>01. /\ sending # NoSend => sending[1] \in SelfOrders
         /\ sent # NoSend => sent[1] \in SelfOrders
    BY OwnIsPre DEF IInv, TypeOK
  <1> USE DEF IInv, TypeOK, PaidFirst
  <1>1. CASE HttpNext
    <2>1. UNCHANGED <<preStatus, applyRow, preRow, todo, sending, sent>>
      BY <1>1, HttpFrame DEF rowVars, toolVars
    <2>2. Orders1
      <3>1. ASSUME NEW o \in SelfOrders, CheckOrder(o) PROVE Orders1
        BY <2>1, <3>1 DEF CheckOrder, orderVars
      <3>2. ASSUME NEW o \in SelfOrders, CreateOrder(o) PROVE Orders1
        <4>1. \A q \in SelfOrders : q # o => regStatus'[q] = regStatus[q]
          BY <3>2, NewOrder DEF Orders
        <4>2. regStatus'[o] > 1 => Paid(o)'
          <5>1. CASE o \in GiftOrders
            BY <3>2, <5>1, NewOrder DEF Paid
          <5>2. CASE o \notin GiftOrders
            BY <3>2, <5>2, NewOrder DEF Orders, ConfirmPayment
          <5> QED BY <5>1, <5>2
        <4> QED BY <2>1, <4>1, <4>2
      <3>3. ASSUME NEW p \in Pays, OrderPayHash(p) PROVE Orders1
        BY <2>1, <3>3 DEF OrderPayHash, orderVars
      <3>4. ASSUME NEW p \in Pays, DoPaymentConfirm(p) PROVE Orders1
        <4> DEFINE o == OrderOf[p]
        <4>1. \A q \in SelfOrders : q # o => regStatus'[q] = regStatus[q]
          BY <3>4 DEF DoPaymentConfirm, Orders
        <4>2. o \in SelfOrders
          BY RegistrationAssumption
        <4>3. Paid(o)'
          BY <3>4, <4>2 DEF DoPaymentConfirm, CAS, Paid
        <4> QED BY <2>1, <4>1, <4>3
      <3> QED BY <1>1, <3>1, <3>2, <3>3, <3>4 DEF HttpNext
    <2> QED BY <1>01, <2>1, <2>2
  <1>2. CASE TxToolNext
    <2>0. UNCHANGED regStatus
      BY <1>2, TxToolFrame
    <2>1. CASE DoOrderApplyTxList
      BY <1>01, <2>0, <2>1 DEF DoOrderApplyTxList, orderVars, rowVars, Paid
    <2>2. CASE DoOrderPreRegisterTxList
      BY <1>01, <2>0, <2>2 DEF DoOrderPreRegisterTxList, orderVars, rowVars
    <2>3. ASSUME NEW o \in SelfOrders, DoOrderApplyTx(o) PROVE Orders1 /\ Sending1 /\ Sent1 /\ Rows1
      BY <1>01, <2>0, <2>3 DEF DoOrderApplyTx, BuildError, AbortBatch, CloseForRefund, Finish, MarkApply,
                               orderVars, rowVars
    <2>4. ASSUME NEW o \in SelfOrders, SendApplyTx(o) PROVE Orders1 /\ Sending1 /\ Sent1 /\ Rows1
      <3>1. Paid(o)
        BY <2>4, RegistrationAssumption DEF SendApplyTx
      <3>2. UNCHANGED <<preStatus, applyRow, preRow>> /\ todo' \subseteq todo /\ sending' = NoSend
        BY <2>4 DEF SendApplyTx, SendApplyAccepted, AbortBatch, AwaitRow, rowVars
      <3>3. sent' = NoSend \/ sent'[1] = o
        BY <2>4 DEF SendApplyTx, AbortBatch, AwaitRow, NextSend
      <3> QED BY <2>0, <3>1, <3>2, <3>3
    <2>5. ASSUME NEW o \in SelfOrders, DoOrderPreRegisterTx(o) PROVE Orders1 /\ Sending1 /\ Sent1 /\ Rows1
      BY <1>01, <2>0, <2>5 DEF DoOrderPreRegisterTx, BuildError, AbortBatch, CloseForRefund, Finish, MarkPre,
                               RedoApply, orderVars, rowVars, CAS
    <2>6. ASSUME NEW o \in SelfOrders, SendPreTx(o) PROVE Orders1 /\ Sending1 /\ Sent1 /\ Rows1
      <3>1. Paid(o)
        BY <2>6 DEF SendPreTx
      <3>2. UNCHANGED <<applyRow, preRow>> /\ todo' \subseteq todo /\ sending' = NoSend
        BY <2>6 DEF SendPreTx, SendPreAccepted, AbortBatch, Finish, AwaitRow, rowVars
      <3>3. sent' = NoSend \/ sent'[1] = o
        BY <2>6 DEF SendPreTx, AbortBatch, Finish, AwaitRow, NextSend
      <3>4. \A q \in SelfOrders : q # o => preStatus'[q] = preStatus[q]
        BY <2>6 DEF SendPreTx, SendPreAccepted, CAS
      <3> QED BY <2>0, <3>1, <3>2, <3>3, <3>4
    <2>7. ASSUME NEW o \in SelfOrders, RecordApplyTx(o) \/ RecordPreTx(o)
          PROVE  Orders1 /\ Sending1 /\ Sent1 /\ Rows1
      <3>1. Paid(sent[1]) /\ todo' \subseteq todo /\ sending' = NoSend /\ sent' = NoSend
        BY <2>7, RecordFrame DEF Finish
      <3>2. \A h \in Own : h # sent => applyRow'[h] = applyRow[h] /\ preRow'[h] = preRow[h]
        BY <2>7, RecordFrame
      <3> QED BY <2>0, <2>7, <3>1, <3>2, RecordFrame DEF orderVars
    <2> QED BY <1>2, <2>1, <2>2, <2>3, <2>4, <2>5, <2>6, <2>7 DEF TxToolNext
  <1>3. CASE ChainNext
    BY <1>01, <1>3, ChainFrame DEF orderVars, rowVars, toolVars
  <1>4. CASE ParseBlock
    <2>1. UNCHANGED <<todo, sending, sent>>
      BY <1>4, ParserFrame DEF toolVars
    <2>2. Rows1
      <3>1. \A h \in Own : /\ applyRow[h] = "none" => applyRow'[h] = "none"
                           /\ preRow[h] = "none" => preRow'[h] = "none"
        BY <1>4, ParserRows
      <3> QED BY <3>1
    <2>3. blocks # <<>> /\ Handle(Head(blocks))
      BY <1>4 DEF ParseBlock
    <2> DEFINE h == Head(blocks)[2]
    <2>4. ASSUME h \in PreTxs, NEW o \in SelfOrders, o \in PreOrders(h) PROVE Paid(o)
      BY <2>4, RegistrationAssumption DEF PreOrders
    <2>5. Orders1
      <3>1. CASE Head(blocks)[1] = "apply" /\ ActionApplyRegister(h)
        <4>1. h \in Own
          BY <2>3, <3>1, EventType
        <4>2. CASE applyRow[h] = "none"
          BY <2>1, <3>1, <4>2 DEF ActionApplyRegister
        <4>3. CASE applyRow[h] # "none"
          <5>1. Paid(h[1])
            BY <4>1, <4>3
          <5>2. \A q \in SelfOrders : q # h[1] => regStatus'[q] = regStatus[q] /\ preStatus'[q] = preStatus[q]
            BY <3>1, <4>3 DEF ActionApplyRegister, CAS, Orders
          <5> QED BY <2>1, <5>1, <5>2
        <4> QED BY <4>2, <4>3
      <3>2. CASE Head(blocks)[1] = "pre" /\ ActionPreRegister(h)
        <4>1. h \in PreTxs
          BY <2>3, <3>2, EventType
        <4>2. \A q \in SelfOrders : q \notin PreOrders(h) => regStatus'[q] = regStatus[q]
          BY <3>2, <4>1, RegistrationAssumption DEF ActionPreRegister, Orders
        <4> QED BY <2>1, <2>4, <3>2, <4>1, <4>2 DEF ActionPreRegister
      <3>3. CASE Head(blocks)[1] = "propose" /\ ActionPropose(h)
        <4>1. h \in PreTxs
          BY <2>3, <3>3, EventType
        <4>2. \A q \in SelfOrders : q \notin PreOrders(h) => regStatus'[q] = regStatus[q]
          BY <3>3 DEF ActionPropose, Orders
        <4> QED BY <2>1, <2>4, <3>3, <4>1, <4>2 DEF ActionPropose
      <3>4. CASE Head(blocks)[1] = "confirm" /\ ActionConfirmProposal(h)
        <4>1. h \in PreTxs
          BY <2>3, <3>4, EventType
        <4>2. \A q \in SelfOrders : q \notin PreOrders(h) => regStatus'[q] = regStatus[q]
          BY <3>4, <4>1 DEF ActionConfirmProposal, Orders, OneOrderPerPre
        <4> QED BY <2>1, <2>4, <3>4, <4>1, <4>2 DEF ActionConfirmProposal
      <3> QED BY <2>3, <3>1, <3>2, <3>3, <3>4 DEF Handle
    <2> QED BY <1>01, <2>1, <2>2, <2>5
  <1>5. CASE TimerNext \/ Crash \/ Age
    <2>1. UNCHANGED regStatus
      BY <1>5, TimerFrame
    <2>2. /\ todo' \subseteq todo /\ (sending' = NoSend \/ sending' = sending)
          /\ sent' = NoSend \/ sent' = sent
      BY <1>5 DEF TimerNext, Crash, Age, AbortBatch, CheckExpired, UpdatePayToRefund, DoOrderHedge,
                  DoTxRejectedApply, DoTxRejectedPre, DoCheckClosedAndUnRefund, vars, toolVars
    <2>3. \A o \in SelfOrders : preStatus[o] = "Default" => preStatus'[o] = "Default"
      BY <1>5 DEF TimerNext, Crash, Age, CheckExpired, UpdatePayToRefund, DoOrderHedge, CAS,
                  DoTxRejectedApply, DoTxRejectedPre, DoCheckClosedAndUnRefund, vars, orderVars
    <2>4. \A h \in Own : /\ applyRow[h] = "none" => applyRow'[h] = "none"
                         /\ preRow[h] = "none" => preRow'[h] = "none"
      BY <1>5 DEF TimerNext, Crash, Age, CheckExpired, UpdatePayToRefund, DoOrderHedge,
                  DoTxRejectedApply, DoTxRejectedPre, DoCheckClosedAndUnRefund, vars, rowVars
    <2> QED BY <1>01, <2>1, <2>2, <2>3, <2>4
  <1>6. CASE UNCHANGED vars
    BY <1>01, <1>6 DEF vars, orderVars, rowVars, toolVars
  <1> QED BY <1>1, <1>2, <1>3, <1>4, <1>5, <1>6 DEF Next

LEMMA RowsFollowStep == IInv /\ [Next]_vars => RowsFollow'
  <1> SUFFICES ASSUME IInv, [Next]_vars PROVE RowsFollow'
    OBVIOUS
  <1>0. TxsStable /\ RowsStable
    BY TxsStep, RowsStep
  <1> DEFINE Rows1 == \A h \in Own : /\ applyRow'[h] # "none" => applyRow[h] # "none" \/ applyTx'[h] # "none"
                                     /\ preRow'[h] # "none" => preRow[h] # "none" \/ preTx'[h] # "none"
             Seen1 == \A o \in SelfOrders : preStatus'[o] # "Default"
                          => preStatus[o] # "Default" \/ \E h \in Own : h[1] = o /\ applyRow'[h] = "Confirm"
             Sent1 == sent' # NoSend => /\ job' # "idle"
                                        /\ job' = "apply" => applyTx'[sent'] # "none" /\ applyRow'[sent'] = "none"
                                        /\ job' = "pre" => preTx'[sent'] # "none" /\ preRow'[sent'] = "none"
  <1>00. SUFFICES Rows1 /\ Seen1 /\ Sent1
    <2>1. \A h \in Own : applyRow'[h] # "none" => applyTx'[h] # "none"
      BY <1>0 DEF IInv, RowsFollow, TxsStable
    <2>2. \A h \in Own : preRow'[h] # "none" => preTx'[h] # "none"
      BY <1>0 DEF IInv, RowsFollow, TxsStable, PreTxs
    <2>3. ASSUME NEW o \in SelfOrders, preStatus'[o] # "Default"
          PROVE  \E h \in Own : h[1] = o /\ applyRow'[h] = "Confirm"
      BY <1>0, <2>3 DEF IInv, RowsFollow, RowsStable
    <2> QED BY <2>1, <2>2, <2>3 DEF RowsFollow
  <1> USE DEF IInv, TypeOK
  <1>01. ASSUME UNCHANGED <<applyRow, preRow, sent>>, sent = NoSend \/ UNCHANGED job PROVE Sent1
    BY <1>0, <1>01, OwnIsPre DEF RowsFollow, TxsStable
  <1>1. CASE HttpNext
    BY <1>01, <1>1, HttpFrame DEF rowVars, toolVars
  <1>2. CASE TxToolNext
    <2>1. CASE DoOrderApplyTxList \/ DoOrderPreRegisterTxList
      <3>1. sent = NoSend
        BY <2>1 DEF DoOrderApplyTxList, DoOrderPreRegisterTxList, RowsFollow
      <3> QED BY <2>1, <3>1 DEF DoOrderApplyTxList, DoOrderPreRegisterTxList, orderVars, rowVars
    <2>2. ASSUME NEW o \in SelfOrders, DoOrderApplyTx(o) PROVE Rows1 /\ Seen1 /\ Sent1
      BY <2>2 DEF DoOrderApplyTx, BuildError, CloseForRefund, MarkApply, orderVars, rowVars, Finish, AbortBatch
    <2>3. ASSUME NEW o \in SelfOrders, SendApplyTx(o) PROVE Rows1 /\ Seen1 /\ Sent1
      <3>1. UNCHANGED <<preStatus, applyRow, preRow>>
        BY <2>3 DEF SendApplyTx, SendApplyAccepted, rowVars
      <3>2. CASE AbortBatch
        BY <3>1, <3>2 DEF AbortBatch
      <3>3. ASSUME NEW k \in NextSend(applyTx, o), SendApplyAccepted(k), AwaitRow(k) PROVE Sent1
        BY <2>3, <3>1, <3>3 DEF SendApplyTx, SendApplyAccepted, AwaitRow, NextSend, RowsFollow
      <3> QED BY <2>3, <3>1, <3>2, <3>3 DEF SendApplyTx
    <2>4. ASSUME NEW o \in SelfOrders, DoOrderPreRegisterTx(o) PROVE Rows1 /\ Seen1 /\ Sent1
      BY <2>4 DEF DoOrderPreRegisterTx, BuildError, CloseForRefund, MarkPre, RedoApply, CAS,
                  orderVars, rowVars, Finish, AbortBatch
    <2>5. ASSUME NEW o \in SelfOrders, SendPreTx(o) PROVE Rows1 /\ Seen1 /\ Sent1
      <3>1. Seen1 /\ UNCHANGED <<applyRow, preRow>>
        BY <2>5 DEF SendPreTx, SendPreAccepted, CAS, rowVars
      <3>2. CASE AbortBatch \/ Finish(o)
        BY <3>1, <3>2 DEF AbortBatch, Finish
      <3>3. ASSUME NEW k \in NextSend(preTx, o), SendPreAccepted(k, sending[2]), AwaitRow(k) PROVE Sent1
        BY <2>5, <3>1, <3>3, OwnIsPre DEF SendPreTx, SendPreAccepted, AwaitRow, NextSend, RowsFollow
      <3> QED BY <2>5, <3>1, <3>2, <3>3 DEF SendPreTx
    <2>6. ASSUME NEW o \in SelfOrders, RecordApplyTx(o) \/ RecordPreTx(o) PROVE Rows1 /\ Seen1 /\ Sent1
      <3>1. Seen1 /\ sent' = NoSend /\ UNCHANGED <<applyTx, preTx>>
        BY <2>6, RecordFrame DEF Finish, orderVars, chainVars
      <3>2. Rows1
        <4>1. CASE UNCHANGED <<applyRow, preRow>>
          BY <4>1
        <4>2. CASE job = "apply" /\ applyRow' = [applyRow EXCEPT ![sent] = "Default"] /\ UNCHANGED preRow
          BY <2>6, <3>1, <4>2, RecordFrame DEF RowsFollow
        <4>3. CASE job = "pre" /\ preRow' = [preRow EXCEPT ![sent] = "Default"] /\ UNCHANGED applyRow
          BY <2>6, <3>1, <4>3, RecordFrame DEF RowsFollow
        <4> QED BY <2>6, <4>1, <4>2, <4>3, RecordFrame
      <3> QED BY <3>1, <3>2
    <2> QED BY <1>2, <2>1, <2>2, <2>3, <2>4, <2>5, <2>6 DEF TxToolNext
  <1>3. CASE ChainNext
    BY <1>01, <1>3, ChainFrame DEF orderVars, rowVars, toolVars
  <1>4. CASE ParseBlock
    <2>1. blocks # <<>> /\ Handle(Head(blocks))
      BY <1>4 DEF ParseBlock
    <2> DEFINE h == Head(blocks)[2]
    <2>2. Rows1 /\ Sent1
      <3>1. UNCHANGED <<applyTx, preTx, job, sent>>
        BY <1>4, ParserFrame DEF toolVars
      <3>2. \A k \in Own : /\ applyRow[k] = "none" <=> applyRow'[k] = "none"
                           /\ preRow[k] = "none" <=> preRow'[k] = "none"
        BY <1>4, ParserRows
      <3> QED BY <3>1, <3>2 DEF RowsFollow
    <2>3. CASE Head(blocks)[1] = "apply" /\ ActionApplyRegister(h)
      <3>1. h \in Own
        BY <2>1, <2>3, EventType
      <3>2. Seen1
        BY <2>3, <3>1 DEF ActionApplyRegister, CAS
      <3> QED BY <2>2, <3>2
    <2>4. CASE ~ActionApplyRegister(h)
      BY <2>1, <2>2, <2>4 DEF Handle, ActionPreRegister, ActionPropose, ActionConfirmProposal
    <2>5. CASE Head(blocks)[1] # "apply"
      BY <2>1, <2>2, <2>5 DEF Handle, ActionPreRegister, ActionPropose, ActionConfirmProposal
    <2> QED BY <2>3, <2>4, <2>5
  <1>5. CASE TimerNext \/ Crash \/ Age
    <2>1. Seen1
      BY <1>5 DEF TimerNext, Crash, Age, CheckExpired, UpdatePayToRefund, DoOrderHedge, CAS,
                  DoTxRejectedApply, DoTxRejectedPre, DoCheckClosedAndUnRefund, vars, orderVars
    <2>2. Rows1
      BY <1>5 DEF TimerNext, Crash, Age, CheckExpired, UpdatePayToRefund, DoOrderHedge,
                  DoTxRejectedApply, DoTxRejectedPre, DoCheckClosedAndUnRefund, vars, rowVars
    <2>3. Sent1
      <3>1. CASE Crash
        BY <3>1 DEF Crash, AbortBatch
      <3>2. CASE ~Crash
        <4>1. UNCHANGED <<applyTx, preTx, job, sent>>
          BY <1>5, <3>2, TimerFrame
             DEF TimerNext, Age, CheckExpired, UpdatePayToRefund, DoOrderHedge, DoTxRejectedApply,
                 DoTxRejectedPre, DoCheckClosedAndUnRefund, vars, chainVars, toolVars
        <4>2. \A k \in Own : /\ applyRow[k] = "none" => applyRow'[k] = "none"
                             /\ preRow[k] = "none" => preRow'[k] = "none"
          BY <1>5 DEF TimerNext, Crash, Age, CheckExpired, UpdatePayToRefund, DoOrderHedge,
                      DoTxRejectedApply, DoTxRejectedPre, DoCheckClosedAndUnRefund, vars, rowVars
        <4> QED BY <4>1, <4>2 DEF RowsFollow
      <3> QED BY <3>1, <3>2
    <2> QED BY <2>1, <2>2, <2>3
  <1>6. CASE UNCHANGED vars
    BY <1>01, <1>6 DEF vars, orderVars, rowVars, toolVars
  <1> QED BY <1>1, <1>2, <1>3, <1>4, <1>5, <1>6 DEF Next

\* The last event of the chain, or the parser's progress along it.
LEMMA AppendSound ==
    ASSUME TypeOK, LedgerSound, TxsStable,
           NEW e \in Events, blocks' = Append(blocks, e),
           e[1] # "apply" => preTx'[e[2]] \in LedgerStates,
           e[1] = "confirm" => preTx'[e[2]] = "confirmed"
    PROVE  \A i \in 1..Len(blocks') : /\ blocks'[i][1] # "apply" => preTx'[blocks'[i][2]] \in LedgerStates
                                      /\ blocks'[i][1] = "confirm" => preTx'[blocks'[i][2]] = "confirmed"
  <1> TAKE i \in 1..Len(blocks')
  <1>1. blocks \in Seq(Events) /\ Len(blocks') = Len(blocks) + 1 /\ Len(blocks) \in Nat
    BY DEF TypeOK
  <1>2. CASE i = Len(blocks')
    BY <1>1, <1>2
  <1>3. CASE i # Len(blocks')
    <2>1. i \in 1..Len(blocks) /\ blocks'[i] = blocks[i] /\ blocks[i] \in Events
      BY <1>1, <1>3
    <2>2. blocks[i][1] # "apply" => blocks[i][2] \in PreTxs
      BY <2>1 DEF Events
    <2> QED BY <2>1, <2>2 DEF LedgerSound, TxsStable, OnLedger
  <1> QED BY <1>2, <1>3

LEMMA SubSound ==
    ASSUME TypeOK, LedgerSound, TxsStable, blocks' = blocks \/ (blocks # <<>> /\ blocks' = Tail(blocks))
    PROVE  \A i \in 1..Len(blocks') : /\ blocks'[i][1] # "apply" => preTx'[blocks'[i][2]] \in LedgerStates
                                      /\ blocks'[i][1] = "confirm" => preTx'[blocks'[i][2]] = "confirmed"
  <1> TAKE i \in 1..Len(blocks')
  <1>1. blocks \in Seq(Events)
    BY DEF TypeOK
  <1>2. PICK j \in 1..Len(blocks) : blocks'[i] = blocks[j] /\ blocks[j] \in Events
    <2>1. CASE blocks' = blocks
      BY <1>1, <2>1
    <2>2. CASE blocks # <<>> /\ blocks' = Tail(blocks)
      BY <1>1, <2>2
    <2> QED BY <2>1, <2>2
  <1>3. blocks[j][1] # "apply" => blocks[j][2] \in PreTxs
    BY <1>2 DEF Events
  <1> QED BY <1>2, <1>3 DEF LedgerSound, TxsStable, OnLedger

LEMMA LedgerStep == IInv /\ [Next]_vars => LedgerSound'
  <1> SUFFICES ASSUME IInv, [Next]_vars PROVE LedgerSound'
    OBVIOUS
  <1>0. TypeOK /\ LedgerSound /\ TxsStable
    BY TxsStep DEF IInv
  <1> DEFINE Seen1 == \A i \in 1..Len(blocks') :
                         /\ blocks'[i][1] # "apply" => preTx'[blocks'[i][2]] \in LedgerStates
                         /\ blocks'[i][1] = "confirm" => preTx'[blocks'[i][2]] = "confirmed"
             Once1 == \A h, k \in PreTxs : preTx'[h] = "confirmed" /\ preTx'[k] = "confirmed"
                                             /\ Acct(h) = Acct(k) => h = k
  <1>00. SUFFICES Seen1 /\ Once1
    BY DEF LedgerSound, OnLedger, Acct
  <1>1. CASE UNCHANGED <<blocks, preTx>>
    BY <1>0, <1>1, SubSound DEF LedgerSound
  <1>2. CASE TxToolNext
    <2>1. Seen1
      BY <1>0, <1>2, TxToolFrame, SubSound
    <2>2. \A h \in PreTxs : preTx'[h] = "confirmed" => preTx[h] = "confirmed"
      <3>1. CASE DoOrderApplyTxList \/ DoOrderPreRegisterTxList
        BY <3>1 DEF DoOrderApplyTxList, DoOrderPreRegisterTxList, chainVars
      <3>2. ASSUME NEW o \in SelfOrders, DoOrderApplyTx(o) \/ DoOrderPreRegisterTx(o)
            PROVE  UNCHANGED preTx
        BY <3>2 DEF DoOrderApplyTx, DoOrderPreRegisterTx, BuildError, CloseForRefund, MarkApply,
                    MarkPre, RedoApply, chainVars
      <3>3. ASSUME NEW o \in SelfOrders, SendApplyTx(o) PROVE UNCHANGED preTx
        BY <3>3 DEF SendApplyTx, SendApplyAccepted, chainVars
      <3>4. ASSUME NEW o \in SelfOrders, SendPreTx(o), NEW h \in PreTxs, preTx'[h] = "confirmed"
            PROVE  preTx[h] = "confirmed"
        BY <1>0, <3>4 DEF SendPreTx, SendPreAccepted, chainVars, TypeOK
      <3>5. ASSUME NEW o \in SelfOrders, RecordApplyTx(o) \/ RecordPreTx(o) PROVE UNCHANGED preTx
        BY <3>5, RecordFrame DEF chainVars
      <3> QED BY <1>2, <3>1, <3>2, <3>3, <3>4, <3>5 DEF TxToolNext
    <2> QED BY <1>0, <2>1, <2>2 DEF LedgerSound
  <1>3. CASE ChainNext
    <2>1. ASSUME NEW h \in Own, RejectApply(h) \/ DoRecycleApply(h) PROVE UNCHANGED <<blocks, preTx>>
      BY <2>1 DEF RejectApply, DoRecycleApply
    <2>2. ASSUME NEW h \in Own, CommitApply(h) PROVE Seen1 /\ Once1
      <3>1. <<"apply", h>> \in Events
        BY DEF Events
      <3>2. Seen1
        BY <1>0, <2>2, <3>1, AppendSound DEF CommitApply
      <3> QED BY <1>0, <2>2, <3>2 DEF CommitApply, LedgerSound
    <2>3. ASSUME NEW h \in PreTxs, RejectPre(h) \/ DoRecyclePre(h) PROVE Seen1 /\ Once1
      <3>1. Seen1
        BY <1>0, <2>3, SubSound DEF RejectPre, DoRecyclePre
      <3>2. Once1
        BY <1>0, <2>3 DEF RejectPre, DoRecyclePre, LedgerSound, TypeOK
      <3> QED BY <3>1, <3>2
    <2>4. ASSUME NEW h \in PreTxs, CommitPre(h) \/ OtherPre(h) \/ Propose(h) PROVE Seen1 /\ Once1
      <3>1. PICK k \in {"pre", "propose"} : blocks' = Append(blocks, <<k, h>>)
        BY <2>4 DEF CommitPre, OtherPre, Propose
      <3>2. <<k, h>> \in Events /\ preTx'[h] \in LedgerStates
        BY <1>0, <2>4, <3>1 DEF Events, CommitPre, OtherPre, Propose, LedgerStates, TypeOK
      <3>3. Seen1
        BY <1>0, <3>1, <3>2, AppendSound
      <3>4. Once1
        BY <1>0, <2>4 DEF CommitPre, OtherPre, Propose, LedgerSound, TypeOK
      <3> QED BY <3>3, <3>4
    <2>5. ASSUME NEW h \in PreTxs, Confirm(h) PROVE Seen1 /\ Once1
      <3>1. <<"confirm", h>> \in Events /\ preTx'[h] \in LedgerStates /\ preTx'[h] = "confirmed"
        BY <1>0, <2>5 DEF Events, Confirm, LedgerStates, TypeOK
      <3>2. Seen1
        BY <1>0, <2>5, <3>1, AppendSound DEF Confirm
      <3>3. Once1
        BY <1>0, <2>5 DEF Confirm, OnChain, LedgerSound, TypeOK
      <3> QED BY <3>2, <3>3
    <2> QED BY <1>1, <1>3, <2>1, <2>2, <2>3, <2>4, <2>5 DEF ChainNext, PreTxs
  <1>4. CASE ParseBlock
    <2>1. blocks' = blocks \/ (blocks # <<>> /\ blocks' = Tail(blocks))
      BY <1>4 DEF ParseBlock
    <2>2. Seen1
      BY <1>0, <2>1, SubSound
    <2> QED BY <1>0, <1>4, <2>2, ParserFrame DEF LedgerSound
  <1>5. CASE HttpNext
    BY <1>1, <1>5, HttpFrame DEF chainVars
  <1>6. CASE TimerNext \/ Crash \/ Age
    BY <1>1, <1>6, TimerFrame DEF chainVars
  <1>7. CASE UNCHANGED vars
    BY <1>1, <1>7 DEF vars, chainVars
  <1> QED BY <1>2, <1>3, <1>4, <1>5, <1>6, <1>7 DEF Next

\* The orders of a pre_register transaction are never forgotten.
LEMMA PreOrdersGrow ==
    ASSUME OrdersStable, RowsStable, NEW h \in PreTxs, NEW x \in PreOrders(h)
    PROVE  x \in PreOrders(h)'
  <1>1. CASE x \in Orders /\ x = h /\ Exists(x)
    BY <1>1 DEF OrdersStable, PreOrders
  <1>2. CASE x \in Orders /\ h \in Own /\ x = h[1] /\ preRow[h] # "none"
    BY <1>2 DEF RowsStable, PreOrders
  <1> QED BY <1>1, <1>2 DEF PreOrders

\* A transaction awaits its row from the moment the node took it.
LEMMA AwaitsStep ==
    ASSUME IInv, [Next]_vars, NEW h \in Own, AwaitsRow(h)'
    PROVE  AwaitsRow(h) \/ preTx[h] = "none"
  <1> USE DEF AwaitsRow
  <1>0. h # NoSend
    BY RegistrationAssumption DEF Own
  <1>1. CASE TxToolNext
    <2>1. CASE DoOrderApplyTxList \/ DoOrderPreRegisterTxList
      <3>1. job = "idle" /\ sent' = sent
        BY <2>1 DEF DoOrderApplyTxList, DoOrderPreRegisterTxList
      <3>2. sent = NoSend
        BY <3>1 DEF IInv, RowsFollow
      <3> QED BY <1>0, <3>1, <3>2
    <2>2. ASSUME NEW o \in SelfOrders, DoOrderApplyTx(o) \/ DoOrderPreRegisterTx(o)
          PROVE  sent' = NoSend
      BY <2>2 DEF DoOrderApplyTx, DoOrderPreRegisterTx, BuildError, AbortBatch, CloseForRefund, Finish,
                  MarkApply, MarkPre, RedoApply
    <2>3. ASSUME NEW o \in SelfOrders, SendApplyTx(o) PROVE job' # "pre"
      BY <2>3 DEF SendApplyTx, AwaitRow, AbortBatch
    <2>4. ASSUME NEW o \in SelfOrders, SendPreTx(o) PROVE sent' = NoSend \/ preTx[sent'] = "none"
      BY <2>4 DEF SendPreTx, AwaitRow, AbortBatch, Finish, NextSend
    <2>5. ASSUME NEW o \in SelfOrders, RecordApplyTx(o) \/ RecordPreTx(o) PROVE sent' = NoSend
      BY <2>5, RecordFrame DEF Finish
    <2> QED BY <1>0, <1>1, <2>1, <2>2, <2>3, <2>4, <2>5 DEF TxToolNext
  <1>2. CASE HttpNext \/ ChainNext \/ ParseBlock \/ UNCHANGED vars
    BY <1>2, HttpFrame, ChainFrame, ParserFrame DEF toolVars, vars
  <1>3. CASE Crash
    BY <1>0, <1>3 DEF Crash, AbortBatch
  <1>4. CASE TimerNext \/ Age
    BY <1>4 DEF TimerNext, Age, CheckExpired, UpdatePayToRefund, DoOrderHedge, DoTxRejectedApply,
                DoTxRejectedPre, DoCheckClosedAndUnRefund, vars, toolVars
  <1> QED BY <1>1, <1>2, <1>3, <1>4 DEF Next

LEMMA OneOrderStep == IInv /\ [Next]_vars => OneOrderPerPre'
  <1> SUFFICES ASSUME IInv, [Next]_vars PROVE OneOrderPerPre'
    OBVIOUS
  <1>0. OrdersStable /\ TxsStable /\ RowsStable
    BY OrdersStep, TxsStep, RowsStep
  <1> DEFINE OfTx(h) == /\ preTx'[h] \in LedgerStates
                        /\ "late" \notin Faults /\ h \in Own => preRow'[h] = "none" /\ <<job', sent'>> # <<"pre", h>>
             Shadow1 == \A h \in PreTxs : Exists(h)' => OfTx(h)
             Rows1 == \A h \in PreTxs : proposeRow'[h] \subseteq proposeRow[h] \cup PreOrders(h)
             Kept1 == \A h \in PreTxs : proposeRow[h] \subseteq proposeRow'[h]
             Reg1 == \A x \in Orders : regStatus'[x] = Registered =>
                        \/ regStatus[x] = Registered
                        \/ \E h \in PreTxs : preTx'[h] = "confirmed" /\ x \in proposeRow'[h]
  <1>00. SUFFICES Shadow1 /\ Rows1 /\ Kept1 /\ Reg1
    <2>1. \A h \in PreTxs : \A x \in proposeRow'[h] : x \in PreOrders(h)'
      BY <1>0, PreOrdersGrow DEF IInv, OneOrderPerPre
    <2>2. \A x \in Orders : regStatus'[x] = Registered
             => \E h \in PreTxs : preTx'[h] = "confirmed" /\ x \in proposeRow'[h]
      BY <1>0 DEF IInv, OneOrderPerPre, TxsStable
    <2>3. \A h \in Own : "late" \notin Faults /\ Exists(h)' => preRow'[h] = "none" /\ ~AwaitsRow(h)'
      BY OwnIsPre DEF AwaitsRow
    <2> QED BY <2>1, <2>2, <2>3 DEF OneOrderPerPre, OnLedger, Exists
  <1>01. \A h \in PreTxs : Exists(h) => OfTx(h)
    <2> SUFFICES ASSUME NEW h \in PreTxs, Exists(h) PROVE OfTx(h)
      OBVIOUS
    <2>1. OnLedger(h) /\ preTx[h] # "none" /\ preTx'[h] \in LedgerStates
      BY <1>0 DEF IInv, OneOrderPerPre, TxsStable, OnLedger, LedgerStates
    <2>2. ASSUME "late" \notin Faults, h \in Own PROVE preRow'[h] = "none" /\ <<job', sent'>> # <<"pre", h>>
      <3>1. preRow[h] = "none" /\ ~AwaitsRow(h)
        BY <2>2 DEF IInv, OneOrderPerPre
      <3>2. preRow'[h] = "none"
        BY <1>0, <2>1, <2>2, <3>1 DEF RowsStable
      <3>3. ~AwaitsRow(h)'
        BY <2>1, <2>2, <3>1, AwaitsStep
      <3> QED BY <3>2, <3>3 DEF AwaitsRow
    <2> QED BY <2>1, <2>2
  <1> USE DEF IInv, TypeOK
  <1>02. ASSUME UNCHANGED <<regStatus, proposeRow>> PROVE Rows1 /\ Kept1 /\ Reg1
    BY <1>02
  <1>1. CASE HttpNext
    <2>1. \A h \in PreTxs : Exists(h)' => Exists(h)
      BY <1>1, RegistrationAssumption
         DEF HttpNext, CheckOrder, CreateOrder, DoRegisterOrder, DoRegisterCouponOrder,
             DoInternalRegisterOrder, NewRow, OrderPayHash, DoPaymentConfirm, orderVars, Exists, Orders
    <2>2. UNCHANGED proposeRow
      BY <1>1, HttpFrame DEF rowVars
    <2>3. \A x \in Orders : regStatus'[x] = Registered => regStatus[x] = Registered
      <3>1. ASSUME NEW o \in SelfOrders, CreateOrder(o) PROVE <2>3
        BY <3>1, NewOrder DEF Registered, ApplyRegister, ConfirmPayment
      <3>2. ASSUME NEW p \in Pays, DoPaymentConfirm(p) PROVE <2>3
        BY <3>2 DEF DoPaymentConfirm, Registered, ApplyRegister
      <3> QED BY <1>1, <3>1, <3>2 DEF HttpNext, CheckOrder, OrderPayHash, orderVars
    <2> QED BY <1>01, <2>1, <2>2, <2>3
  <1>2. CASE TxToolNext
    <2>1. UNCHANGED <<regStatus, proposeRow>>
      BY <1>2, TxToolFrame
    <2>2. \A h \in PreTxs : Exists(h)' => Exists(h)
      BY <1>2, RegistrationAssumption
         DEF TxToolNext, DoOrderApplyTxList, DoOrderPreRegisterTxList, DoOrderApplyTx, SendApplyTx,
             DoOrderPreRegisterTx, SendPreTx, BuildError, CloseForRefund, Close, MarkApply, MarkPre,
             RedoApply, SendApplyAccepted, SendPreAccepted, RecordApplyTx, RecordPreTx, CAS,
             orderVars, Exists, Orders
    <2> QED BY <1>01, <1>02, <2>1, <2>2
  <1>3. CASE ChainNext
    BY <1>01, <1>02, <1>3, ChainFrame DEF orderVars, rowVars, Exists
  <1>4. CASE ParseBlock
    <2>1. blocks # <<>> /\ Handle(Head(blocks)) /\ UNCHANGED preTx
      BY <1>4, ParserFrame DEF ParseBlock
    <2> DEFINE e == Head(blocks)
               h == Head(blocks)[2]
    <2>2. /\ e[1] # "apply" => h \in PreTxs /\ OnLedger(h)
          /\ e[1] = "confirm" => preTx[h] = "confirmed"
      <3>1. 1 \in 1..Len(blocks) /\ blocks[1] = Head(blocks)
        BY <2>1
      <3> QED BY <2>1, <3>1, EventType DEF LedgerSound
    <2>3. CASE e[1] = "apply" /\ ActionApplyRegister(h)
      <3>1. Reg1
        BY <2>3 DEF ActionApplyRegister, Registered, PreRegister
      <3> QED BY <1>01, <2>3, <3>1 DEF ActionApplyRegister, Exists
    <2>4. CASE e[1] = "pre" /\ ActionPreRegister(h)
      <3>1. UNCHANGED proposeRow
        BY <2>4 DEF ActionPreRegister
      <3>2. Reg1
        BY <2>4 DEF ActionPreRegister, Registered, Proposal
      <3>3. CASE PreOrders(h) # {}
        BY <1>01, <2>4, <3>1, <3>2, <3>3 DEF ActionPreRegister, Exists
      <3>4. CASE PreOrders(h) = {}
        <4>1. UNCHANGED preRow
          BY <2>4, <3>4 DEF ActionPreRegister
        <4>2. \A k \in PreTxs : k # h => (Exists(k)' => Exists(k))
          BY <2>4, <3>4 DEF ActionPreRegister, Exists, Orders
        <4>3. h \in Own => h[1] \in Orders
          BY DEF Own, Orders
        <4>4. h \in Own => preRow[h] = "none"
          BY <3>4, <4>3 DEF PreOrders
        <4>5. preTx'[h] \in LedgerStates
          BY <2>1, <2>2, <2>4 DEF OnLedger
        <4>6. "late" \notin Faults => <<job', sent'>> # <<"pre", h>>
          <5>1. "late" \notin Faults => Head(blocks) # <<job, sent>>
            BY <1>4 DEF ParseBlock, InTime
          <5>2. Head(blocks) = <<"pre", h>>
            <6>1. Head(blocks) \in Events
              BY <2>1
            <6> QED BY <2>4, <6>1 DEF Events
          <5>3. UNCHANGED <<job, sent>>
            BY <1>4, ParserFrame DEF toolVars
          <5> QED BY <5>1, <5>2, <5>3
        <4>7. Shadow1
          BY <1>01, <4>1, <4>2, <4>4, <4>5, <4>6
        <4> QED BY <3>1, <3>2, <4>7
      <3> QED BY <3>3, <3>4
    <2>5. CASE e[1] = "propose" /\ ActionPropose(h)
      <3>1. Reg1
        BY <2>5 DEF ActionPropose, Registered, ConfirmProposal
      <3>2. Rows1 /\ Kept1
        BY <2>5 DEF ActionPropose
      <3> QED BY <1>01, <2>5, <3>1, <3>2 DEF ActionPropose, Exists
    <2>6. CASE e[1] = "confirm" /\ ActionConfirmProposal(h)
      <3>1. Reg1
        BY <2>1, <2>2, <2>6 DEF ActionConfirmProposal
      <3>2. \A k \in PreTxs : Exists(k)' => Exists(k)
        BY <2>6 DEF ActionConfirmProposal, Exists, Orders
      <3> QED BY <1>01, <2>6, <3>1, <3>2 DEF ActionConfirmProposal
    <2> QED BY <2>1, <2>3, <2>4, <2>5, <2>6 DEF Handle
  <1>5. CASE TimerNext \/ Crash \/ Age
    <2>1. UNCHANGED <<regStatus, proposeRow>>
      BY <1>5, TimerFrame
    <2>2. \A h \in PreTxs : Exists(h)' => Exists(h)
      BY <1>5, RegistrationAssumption
         DEF TimerNext, Crash, Age, CheckExpired, Close, UpdatePayToRefund, DoOrderHedge, DoTxRejectedApply,
             DoTxRejectedPre, DoCheckClosedAndUnRefund, vars, orderVars, Exists, Orders
    <2> QED BY <1>01, <1>02, <2>1, <2>2
  <1>6. CASE UNCHANGED vars
    BY <1>01, <1>02, <1>6 DEF vars, orderVars, rowVars, Exists
  <1> QED BY <1>1, <1>2, <1>3, <1>4, <1>5, <1>6 DEF Next

LEMMA InvStep == IInv /\ [Next]_vars => IInv'
  BY TypeStep, UnbornStep, PaidFirstStep, RowsFollowStep, LedgerStep, OneOrderStep DEF IInv

LEMMA Invariance == Spec => []IInv
  BY InitInv, InvStep, PTL DEF Spec

-----------------------------------------------------------------------------
(* What follows from the invariant.                                        *)

\* DoOrderPreRegisterTx finds the confirmed apply row of every order it lists,
\* so "order apply register tx is nil" never aborts a batch.
THEOREM PreRegisterHasApply == Spec => []PreHasApply
  <1>1. IInv => PreHasApply
    BY DEF IInv, RowsFollow, PreHasApply
  <1> QED BY <1>1, Invariance, PTL

\* An account has at most one Registered order, whatever competed for it,
\* crashed, was replayed or went unrecorded; two only if the row of its
\* pre_register may be late, and then they are the two orders of that one.
THEOREM AtMostOneRegistered == Spec => []OneRegistered
  <1>1. ASSUME IInv PROVE OneRegistered
    <2> SUFFICES ASSUME NEW x \in Orders, NEW y \in Orders, Acct(x) = Acct(y),
                        regStatus[x] = Registered, regStatus[y] = Registered, x # y
                 PROVE  \E g \in Own : "late" \in Faults /\ preTx[g] = "confirmed" /\ {x, y} = {g, g[1]}
      BY DEF OneRegistered
    <2>1. PICK h \in PreTxs : preTx[h] = "confirmed" /\ x \in PreOrders(h)
      BY <1>1 DEF IInv, OneOrderPerPre
    <2>2. PICK k \in PreTxs : preTx[k] = "confirmed" /\ y \in PreOrders(k)
      BY <1>1 DEF IInv, OneOrderPerPre
    <2>3. \A g \in PreTxs : \A z \in PreOrders(g) : Acct(z) = Acct(g)
      BY RegistrationAssumption DEF PreOrders, Acct, Own, PreTxs
    <2>4. h = k
      BY <1>1, <2>1, <2>2, <2>3 DEF IInv, LedgerSound
    <2>5. h \in Own /\ Exists(h) /\ preRow[h] # "none" /\ {x, y} = {h, h[1]}
      BY <2>1, <2>2, <2>4 DEF PreOrders
    <2>6. "late" \in Faults
      BY <1>1, <2>5 DEF IInv, OneOrderPerPre
    <2> QED BY <2>1, <2>5, <2>6
  <1> QED BY <1>1, Invariance, PTL

\* register_status never goes back, whatever is replayed or paid late.
THEOREM RegisterStatusMonotone == Spec => RegMonotone
  <1>1. ASSUME IInv, [Next]_vars PROVE [\A x \in Orders : regStatus'[x] >= regStatus[x]]_vars
    <2> SUFFICES ASSUME Next PROVE \A x \in Orders : regStatus'[x] >= regStatus[x]
      BY <1>1
    <2>0. regStatus \in [Orders -> 0..6]
      BY <1>1 DEF IInv, TypeOK
    <2>1. ASSUME NEW o \in SelfOrders, CreateOrder(o), NEW x \in Orders PROVE regStatus'[x] >= regStatus[x]
      <3>1. regStatus[o] = 0
        BY <1>1, <2>1, NewOrder DEF IInv, TypeOK, Unborn, Orders
      <3> QED BY <2>0, <2>1, <3>1, NewOrder DEF ApplyRegister, ConfirmPayment
    <2>2. ASSUME NEW p \in Pays, DoPaymentConfirm(p), NEW x \in Orders PROVE regStatus'[x] >= regStatus[x]
      <3>1. OrderOf[p] \in SelfOrders /\ OrderOf[p] \in Orders
        BY RegistrationAssumption DEF Orders
      <3>2. payStatus[OrderOf[p]] = "Default" => ~(regStatus[OrderOf[p]] > 1)
        BY <1>1, <3>1 DEF IInv, PaidFirst, Paid
      <3> QED BY <2>0, <2>2, <3>1, <3>2 DEF DoPaymentConfirm, ApplyRegister
    <2>3. ASSUME ParseBlock, NEW x \in Orders PROVE regStatus'[x] >= regStatus[x]
      <3> DEFINE h == Head(blocks)[2]
      <3>1. Handle(Head(blocks))
        BY <2>3 DEF ParseBlock
      <3>2. CASE ActionApplyRegister(h)
        BY <2>0, <3>2 DEF ActionApplyRegister, PreRegister
      <3>3. CASE ActionPreRegister(h)
        <4>1. CASE PreOrders(h) # {}
          BY <2>0, <3>3, <4>1 DEF ActionPreRegister, Proposal
        <4>2. CASE PreOrders(h) = {}
          <5>1. x = h => regStatus[x] = 0
            BY <1>1, <4>2 DEF IInv, PreOrders, Unborn
          <5> QED BY <2>0, <3>3, <4>2, <5>1 DEF ActionPreRegister, Proposal
        <4> QED BY <4>1, <4>2
      <3>4. CASE ActionPropose(h)
        BY <2>0, <3>4 DEF ActionPropose, Proposal, ConfirmProposal
      <3>5. CASE ActionConfirmProposal(h)
        BY <2>0, <3>5 DEF ActionConfirmProposal, Registered
      <3> QED BY <3>1, <3>2, <3>3, <3>4, <3>5 DEF Handle
    <2>4. CASE UNCHANGED regStatus
      BY <2>0, <2>4
    <2>5. CASE HttpNext
      BY <2>1, <2>2, <2>4, <2>5 DEF HttpNext, CheckOrder, OrderPayHash, orderVars
    <2>6. CASE TxToolNext \/ ChainNext \/ TimerNext \/ Crash \/ Age
      BY <2>4, <2>6, TxToolFrame, ChainFrame, TimerFrame DEF orderVars
    <2> QED BY <2>3, <2>5, <2>6 DEF Next
  <1> QED BY <1>1, Invariance, PTL DEF Spec, RegMonotone
-----------------------------------------------------------------------------
(* The parser never halts: the chain announces a pre_register before its   *)
(* proposal and a proposal before its confirmation.                        *)

\* Event e is before position j of the blocks b.
Before(b, j, e) == \E i \in 1..(j - 1) : b[i] = e

PreKnown(h) == PreOrders(h) # {}
ProposeKnown(h) == proposeRow[h] # {}
Proposed(h) == preTx[h] \in {"proposed", "confirmed"}

\* What the parser must know when it meets an event is known, or the event that
\* makes it known comes first.
InOrder ==
    /\ \A h \in PreTxs : OnLedger(h) => PreKnown(h) \/ Before(blocks, Len(blocks) + 1, <<"pre", h>>)
    /\ \A h \in PreTxs : Proposed(h) => ProposeKnown(h) \/ Before(blocks, Len(blocks) + 1, <<"propose", h>>)
    /\ \A h \in PreTxs : \A j \in 1..Len(blocks) :
          /\ blocks[j] = <<"propose", h>> => PreKnown(h) \/ Before(blocks, j, <<"pre", h>>)
          /\ blocks[j] = <<"confirm", h>> => ProposeKnown(h) \/ Before(blocks, j, <<"propose", h>>)

\* What the parser knows it never forgets.
LEMMA KnownStep ==
    ASSUME IInv, [Next]_vars, NEW h \in PreTxs
    PROVE  (PreKnown(h) => PreKnown(h)') /\ (ProposeKnown(h) => ProposeKnown(h)')
  <1>1. OrdersStable /\ RowsStable
    BY OrdersStep, RowsStep
  <1>2. PreKnown(h) => PreKnown(h)'
    BY <1>1, PreOrdersGrow DEF PreKnown
  <1>3. CASE ParseBlock
    <2>1. ProposeKnown(h) => ProposeKnown(h)'
      <3>1. CASE UNCHANGED proposeRow
        BY <3>1 DEF ProposeKnown
      <3>2. ASSUME NEW k, ActionPropose(k) PROVE ProposeKnown(h) => ProposeKnown(h)'
        BY <3>2 DEF ActionPropose, ProposeKnown, IInv, TypeOK
      <3>3. ASSUME NEW k, ActionApplyRegister(k) \/ ActionPreRegister(k) \/ ActionConfirmProposal(k)
            PROVE  UNCHANGED proposeRow
        BY <3>3 DEF ActionApplyRegister, ActionPreRegister, ActionConfirmProposal
      <3> QED BY <1>3, <3>1, <3>2, <3>3 DEF ParseBlock, Handle
    <2> QED BY <1>2, <2>1
  <1>4. CASE UNCHANGED proposeRow
    BY <1>2, <1>4 DEF ProposeKnown
  <1>5. CASE HttpNext \/ TxToolNext \/ ChainNext \/ TimerNext \/ Crash \/ Age \/ UNCHANGED vars
    BY <1>4, <1>5, HttpFrame, TxToolFrame, ChainFrame, TimerFrame DEF rowVars, vars
  <1> QED BY <1>3, <1>5 DEF Next

\* After a block is handled its transactions are known.
LEMMA HandledKnown ==
    ASSUME IInv, ParseBlock, NEW h \in PreTxs
    PROVE  /\ Head(blocks) = <<"pre", h>> => PreKnown(h)'
           /\ Head(blocks) = <<"propose", h>> => ProposeKnown(h)'
  <1>1. ASSUME Head(blocks) = <<"pre", h>> PROVE PreKnown(h)'
    <2>1. ActionPreRegister(h)
      BY <1>1 DEF ParseBlock, Handle
    <2>2. CASE PreOrders(h) # {}
      BY <2>2, KnownStep DEF PreKnown, Next
    <2>3. CASE PreOrders(h) = {}
      <3>1. h \in Orders /\ Exists(h)'
        BY <2>1, <2>3 DEF ActionPreRegister, Exists, Orders, IInv, TypeOK
      <3> QED BY <3>1 DEF PreKnown, PreOrders
    <2> QED BY <2>2, <2>3
  <1>2. ASSUME Head(blocks) = <<"propose", h>> PROVE ProposeKnown(h)'
    <2>1. ActionPropose(h)
      BY <1>2 DEF ParseBlock, Handle
    <2> QED BY <2>1 DEF ActionPropose, ProposeKnown, IInv, TypeOK
  <1> QED BY <1>1, <1>2

\* Appending an event moves none before it, taking the first one off moves all
\* others one forward.
LEMMA BeforeAppend ==
    ASSUME NEW b \in Seq(Events), NEW x \in Events, NEW e, NEW j \in 1..(Len(b) + 1)
    PROVE  /\ Before(b, j, e) => Before(Append(b, x), j, e)
           /\ Before(b, j, e) => Before(Append(b, x), Len(b) + 2, e)
           /\ Before(Append(b, x), Len(b) + 2, x)
  <1>1. /\ Len(b) \in Nat /\ Append(b, x)[Len(b) + 1] = x
        /\ \A i \in 1..Len(b) : Append(b, x)[i] = b[i]
    OBVIOUS
  <1> QED BY <1>1 DEF Before

LEMMA BeforeTail ==
    ASSUME NEW b \in Seq(Events), b # <<>>, NEW e, NEW j \in 1..Len(b), Before(b, j + 1, e)
    PROVE  Head(b) = e \/ Before(Tail(b), j, e)
  <1>1. PICK i \in 1..j : b[i] = e
    BY DEF Before
  <1>2. /\ Len(b) \in Nat /\ Head(b) = b[1] /\ Len(Tail(b)) = Len(b) - 1
        /\ \A k \in 1..(Len(b) - 1) : Tail(b)[k] = b[k + 1]
    OBVIOUS
  <1>3. CASE i = 1
    BY <1>1, <1>2, <1>3
  <1>4. CASE i # 1
    <2>1. i - 1 \in 1..(j - 1) /\ i - 1 \in 1..(Len(b) - 1) /\ (i - 1) + 1 = i
      BY <1>1, <1>2, <1>4
    <2>2. Tail(b)[i - 1] = e
      BY <1>1, <1>2, <2>1
    <2> QED BY <2>1, <2>2 DEF Before
  <1> QED BY <1>3, <1>4

\* A step that leaves the blocks alone and brings nothing on the ledger.
LEMMA OrderKept ==
    ASSUME IInv, InOrder, [Next]_vars, blocks' = blocks,
           \A h \in PreTxs : (OnLedger(h)' => OnLedger(h)) /\ (Proposed(h)' => Proposed(h))
    PROVE  InOrder'
  <1>1. \A h \in PreTxs : (PreKnown(h) => PreKnown(h)') /\ (ProposeKnown(h) => ProposeKnown(h)')
    BY KnownStep
  <1> QED BY <1>1 DEF InOrder, Before

\* A step that appends an event.
LEMMA OrderAppended ==
    ASSUME IInv, InOrder, [Next]_vars, NEW x \in Events, blocks' = Append(blocks, x),
           \A h \in PreTxs : /\ OnLedger(h)' => OnLedger(h) \/ x = <<"pre", h>>
                             /\ Proposed(h)' => Proposed(h) \/ x = <<"propose", h>>
                             /\ x = <<"propose", h>> => OnLedger(h)
                             /\ x = <<"confirm", h>> => Proposed(h)
    PROVE  InOrder'
  <1>1. \A h \in PreTxs : (PreKnown(h) => PreKnown(h)') /\ (ProposeKnown(h) => ProposeKnown(h)')
    BY KnownStep
  <1>2. /\ blocks \in Seq(Events) /\ Len(blocks) \in Nat /\ Len(blocks') = Len(blocks) + 1
        /\ blocks'[Len(blocks) + 1] = x /\ \A i \in 1..Len(blocks) : blocks'[i] = blocks[i]
    BY DEF IInv, TypeOK
  <1>3. \A e : \A j \in 1..(Len(blocks) + 1) :
           Before(blocks, j, e) => Before(blocks', j, e) /\ Before(blocks', Len(blocks') + 1, e)
    BY <1>2, BeforeAppend
  <1>4. Before(blocks', Len(blocks') + 1, x)
    <2>1. 1 \in 1..(Len(blocks) + 1)
      BY <1>2
    <2> QED BY <1>2, <2>1, BeforeAppend
  <1>5. Len(blocks) + 1 \in 1..(Len(blocks) + 1)
    BY <1>2
  <1> SUFFICES ASSUME NEW h \in PreTxs
               PROVE  /\ OnLedger(h)' => PreKnown(h)' \/ Before(blocks', Len(blocks') + 1, <<"pre", h>>)
                      /\ Proposed(h)' => ProposeKnown(h)' \/ Before(blocks', Len(blocks') + 1, <<"propose", h>>)
                      /\ \A j \in 1..Len(blocks') :
                           /\ blocks'[j] = <<"propose", h>> => PreKnown(h)' \/ Before(blocks', j, <<"pre", h>>)
                           /\ blocks'[j] = <<"confirm", h>> => ProposeKnown(h)' \/ Before(blocks', j, <<"propose", h>>)
    BY DEF InOrder, Before
  <1>6. OnLedger(h)' => PreKnown(h)' \/ Before(blocks', Len(blocks') + 1, <<"pre", h>>)
    BY <1>1, <1>3, <1>4, <1>5 DEF InOrder
  <1>7. Proposed(h)' => ProposeKnown(h)' \/ Before(blocks', Len(blocks') + 1, <<"propose", h>>)
    BY <1>1, <1>3, <1>4, <1>5 DEF InOrder
  <1>8. ASSUME NEW j \in 1..Len(blocks')
        PROVE  /\ blocks'[j] = <<"propose", h>> => PreKnown(h)' \/ Before(blocks', j, <<"pre", h>>)
               /\ blocks'[j] = <<"confirm", h>> => ProposeKnown(h)' \/ Before(blocks', j, <<"propose", h>>)
    <2>1. j \in 1..(Len(blocks) + 1)
      BY <1>2
    <2>2. CASE j = Len(blocks) + 1
      BY <1>1, <1>2, <1>3, <1>5, <2>2 DEF InOrder
    <2>3. CASE j # Len(blocks) + 1
      <3>1. j \in 1..Len(blocks) /\ blocks'[j] = blocks[j]
        BY <1>2, <2>1, <2>3
      <3> QED BY <1>1, <1>3, <2>1, <3>1 DEF InOrder
    <2> QED BY <2>2, <2>3
  <1> QED BY <1>6, <1>7, <1>8

LEMMA OrderParsed == ASSUME IInv, InOrder, ParseBlock PROVE InOrder'
  <1>0. [Next]_vars /\ UNCHANGED preTx
    BY ParserFrame DEF Next
  <1>1. CASE blocks' = blocks
    BY <1>0, <1>1, OrderKept DEF OnLedger, Proposed
  <1>2. CASE blocks' = Tail(blocks)
    <2>1. \A h \in PreTxs : (PreKnown(h) => PreKnown(h)') /\ (ProposeKnown(h) => ProposeKnown(h)')
      BY <1>0, KnownStep
    <2>2. /\ blocks \in Seq(Events) /\ blocks # <<>> /\ Len(blocks) \in Nat /\ Len(blocks) > 0
          /\ Len(blocks') = Len(blocks) - 1 /\ \A i \in 1..Len(blocks') : blocks'[i] = blocks[i + 1]
      BY <1>2 DEF IInv, TypeOK, ParseBlock
    <2>3. \A e : \A j \in 1..Len(blocks) :
             Before(blocks, j + 1, e) => Head(blocks) = e \/ Before(blocks', j, e)
      BY <1>2, <2>2, BeforeTail
    <2> SUFFICES ASSUME NEW h \in PreTxs
                 PROVE  /\ OnLedger(h)' => PreKnown(h)' \/ Before(blocks', Len(blocks') + 1, <<"pre", h>>)
                        /\ Proposed(h)' => ProposeKnown(h)' \/ Before(blocks', Len(blocks') + 1, <<"propose", h>>)
                        /\ \A j \in 1..Len(blocks') :
                             /\ blocks'[j] = <<"propose", h>> => PreKnown(h)' \/ Before(blocks', j, <<"pre", h>>)
                             /\ blocks'[j] = <<"confirm", h>> => ProposeKnown(h)' \/ Before(blocks', j, <<"propose", h>>)
      BY DEF InOrder, Before
    <2>4. /\ Head(blocks) = <<"pre", h>> => PreKnown(h)'
          /\ Head(blocks) = <<"propose", h>> => ProposeKnown(h)'
      BY HandledKnown
    <2>5. Len(blocks) \in 1..Len(blocks) /\ Len(blocks') + 1 = Len(blocks)
      BY <2>2
    <2>6. OnLedger(h)' => PreKnown(h)' \/ Before(blocks', Len(blocks') + 1, <<"pre", h>>)
      BY <1>0, <2>1, <2>3, <2>4, <2>5 DEF InOrder, OnLedger
    <2>7. Proposed(h)' => ProposeKnown(h)' \/ Before(blocks', Len(blocks') + 1, <<"propose", h>>)
      BY <1>0, <2>1, <2>3, <2>4, <2>5 DEF InOrder, Proposed
    <2>8. ASSUME NEW j \in 1..Len(blocks')
          PROVE  /\ blocks'[j] = <<"propose", h>> => PreKnown(h)' \/ Before(blocks', j, <<"pre", h>>)
                 /\ blocks'[j] = <<"confirm", h>> => ProposeKnown(h)' \/ Before(blocks', j, <<"propose", h>>)
      <3>1. j + 1 \in 1..Len(blocks) /\ j \in 1..Len(blocks) /\ blocks'[j] = blocks[j + 1]
        BY <2>2
      <3> QED BY <2>1, <2>3, <2>4, <3>1 DEF InOrder
    <2> QED BY <2>6, <2>7, <2>8
  <1> QED BY <1>1, <1>2 DEF ParseBlock

LEMMA OrderStep == IInv /\ InOrder /\ [Next]_vars => InOrder'
  <1> SUFFICES ASSUME IInv, InOrder, [Next]_vars PROVE InOrder'
    OBVIOUS
  <1> USE DEF OnLedger, LedgerStates, Proposed
  <1>1. CASE UNCHANGED <<blocks, preTx>>
    BY <1>1, OrderKept
  <1>2. CASE TxToolNext
    <2>1. blocks' = blocks
      BY <1>2, TxToolFrame
    <2>2. CASE UNCHANGED preTx
      BY <1>1, <2>1, <2>2
    <2>3. ASSUME NEW o \in SelfOrders, SendPreTx(o) PROVE InOrder'
      <3>1. CASE UNCHANGED preTx
        BY <1>1, <2>1, <3>1
      <3>2. ASSUME NEW k, preTx' = [preTx EXCEPT ![k] = "pool"] PROVE InOrder'
        <4>1. \A h \in PreTxs : preTx'[h] = preTx[h] \/ preTx'[h] = "pool"
          BY <3>2 DEF IInv, TypeOK
        <4> QED BY <2>1, <4>1, OrderKept
      <3> QED BY <2>3, <3>1, <3>2 DEF SendPreTx, SendPreAccepted, chainVars
    <2>4. ASSUME NEW o \in SelfOrders, \/ DoOrderApplyTx(o) \/ DoOrderPreRegisterTx(o) \/ SendApplyTx(o)
                                       \/ RecordApplyTx(o) \/ RecordPreTx(o)
          PROVE  UNCHANGED preTx
      BY <2>4, RecordFrame DEF DoOrderApplyTx, DoOrderPreRegisterTx, BuildError, CloseForRefund, MarkApply,
                  MarkPre, RedoApply, SendApplyTx, SendApplyAccepted, chainVars
    <2>5. CASE DoOrderApplyTxList \/ DoOrderPreRegisterTxList
      BY <2>2, <2>5 DEF DoOrderApplyTxList, DoOrderPreRegisterTxList, chainVars
    <2> QED BY <1>2, <2>2, <2>3, <2>4, <2>5 DEF TxToolNext
  <1>3. CASE ChainNext
    <2>1. ASSUME NEW h \in Own, RejectApply(h) \/ DoRecycleApply(h) PROVE InOrder'
      BY <1>1, <2>1 DEF RejectApply, DoRecycleApply
    <2>2. ASSUME NEW h \in Own, CommitApply(h) PROVE InOrder'
      <3>1. /\ blocks' = Append(blocks, <<"apply", h>>) /\ preTx' = preTx
            /\ <<"apply", h>> \in Events
        BY <2>2 DEF CommitApply, Events
      <3> QED BY <3>1, OrderAppended
    <2>3. ASSUME NEW h \in PreTxs, RejectPre(h) \/ DoRecyclePre(h) PROVE InOrder'
      <3>1. blocks' = blocks
        BY <2>3 DEF RejectPre, DoRecyclePre
      <3>2. \A k \in PreTxs : (OnLedger(k)' => OnLedger(k)) /\ (Proposed(k)' => Proposed(k))
        BY <2>3 DEF RejectPre, DoRecyclePre, IInv, TypeOK
      <3> QED BY <3>1, <3>2, OrderKept
    <2>4. ASSUME NEW h \in PreTxs, CommitPre(h) \/ OtherPre(h) PROVE InOrder'
      <3>1. /\ blocks' = Append(blocks, <<"pre", h>>) /\ preTx' = [preTx EXCEPT ![h] = "live"]
            /\ <<"pre", h>> \in Events
        BY <2>4 DEF CommitPre, OtherPre, Events
      <3>2. \A k \in PreTxs : (preTx'[k] = preTx[k] \/ k = h) /\ preTx'[h] = "live"
        BY <3>1 DEF IInv, TypeOK
      <3> QED BY <3>1, <3>2, OrderAppended
    <2>5. ASSUME NEW h \in PreTxs, Propose(h) PROVE InOrder'
      <3>1. /\ blocks' = Append(blocks, <<"propose", h>>) /\ preTx' = [preTx EXCEPT ![h] = "proposed"]
            /\ <<"propose", h>> \in Events /\ preTx[h] = "live"
        BY <2>5 DEF Propose, Events
      <3>2. \A k \in PreTxs : preTx'[k] = preTx[k] \/ k = h
        BY <3>1 DEF IInv, TypeOK
      <3> QED BY <3>1, <3>2, OrderAppended
    <2>6. ASSUME NEW h \in PreTxs, Confirm(h) PROVE InOrder'
      <3>1. /\ blocks' = Append(blocks, <<"confirm", h>>) /\ preTx' = [preTx EXCEPT ![h] = "confirmed"]
            /\ <<"confirm", h>> \in Events /\ preTx[h] = "proposed"
        BY <2>6 DEF Confirm, Events
      <3>2. \A k \in PreTxs : preTx'[k] = preTx[k] \/ k = h
        BY <3>1 DEF IInv, TypeOK
      <3> QED BY <3>1, <3>2, OrderAppended
    <2> QED BY <1>3, <2>1, <2>2, <2>3, <2>4, <2>5, <2>6 DEF ChainNext, PreTxs
  <1>4. CASE ParseBlock
    BY <1>4, OrderParsed
  <1>5. CASE HttpNext \/ TimerNext \/ Crash \/ Age \/ UNCHANGED vars
    BY <1>1, <1>5, HttpFrame, TimerFrame DEF chainVars, vars
  <1> QED BY <1>2, <1>3, <1>4, <1>5 DEF Next

\* block_parser never meets a proposal or a confirmation without orders, so no
\* handler gives gorm an empty list and no block is retried for ever.
THEOREM ParserGoesOn == Spec => []ParserNeverHalts
  <1>1. Init => InOrder
    BY DEF Init, InOrder, OnLedger, LedgerStates, Proposed
  <1>2. ASSUME IInv, InOrder PROVE ParserNeverHalts
    <2> SUFFICES ASSUME blocks # <<>>
                 PROVE  /\ Head(blocks)[1] = "propose" => PreOrders(Head(blocks)[2]) # {}
                        /\ Head(blocks)[1] = "confirm" => proposeRow[Head(blocks)[2]] # {}
      BY DEF ParserNeverHalts
    <2>1. 1 \in 1..Len(blocks) /\ blocks[1] = Head(blocks) /\ Head(blocks) \in Events
      BY <1>2 DEF IInv, TypeOK
    <2>2. \A e : ~Before(blocks, 1, e)
      BY DEF Before
    <2>3. /\ Head(blocks)[1] # "apply" => Head(blocks)[2] \in PreTxs
          /\ Head(blocks) = <<Head(blocks)[1], Head(blocks)[2]>>
      BY <2>1 DEF Events
    <2> QED BY <1>2, <2>1, <2>2, <2>3 DEF InOrder, PreKnown, ProposeKnown
  <1>3. IInv /\ InOrder /\ [Next]_vars => InOrder'
    BY OrderStep
  <1> QED BY <1>1, <1>2, <1>3, Invariance, PTL DEF Spec
=============================================================================
