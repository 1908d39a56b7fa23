--------------------------- MODULE RenewalProofs ---------------------------
(***************************************************************************)
(* Theorems about module Renewal, for every set of orders, accounts and    *)
(* payments, every number of attempts and every fault.                     *)
(***************************************************************************)
EXTENDS Renewal, FiniteSetTheorems, TLAPS

-----------------------------------------------------------------------------
(* The inductive invariant.                                                *)

\* An order without a row has not been paid for.
Fresh == \A o \in Orders : orderStatus[o] = "none" => payStatus[o] = "Default"

\* A goroutine works on orders of its own.  What it lists waits to be sent,
\* except the one order in its hands, which is marked.
Hands ==
    \A l \in Loops :
        /\ \A o \in todo[l] : o \in LoopOrders(l) /\ (o \in sending[l] \/ payStatus[o] = "Sending")
        /\ \A o \in sending[l] : o \in LoopOrders(l) /\ payStatus[o] = "Ok" /\ sending[l] = {o}

\* A paid order of a customer is out of reach of checkExpired.
PaidIsApply ==
    \A o \in Orders \ InternalOrders : payStatus[o] # "Default" => regStatus[o] = "ApplyRegister"

\* A goroutine only works on open orders.
OpenHands ==
    \A l \in Loops : \A o \in (todo[l] \cup sending[l]) \ InternalOrders : orderStatus[o] = "open"

\* An order with a row of its own is marked and in nobody's hands.
RowIsMarked ==
    \A t \in Txs : row[t] # "none" /\ t \notin foreign =>
        payStatus[t[1]] = "Ok" /\ \A l \in Loops : t[1] \notin sending[l]

\* Transactions are numbered in the order in which the node took them.
Numbered ==
    /\ \A t \in Txs : t \in committed \/ t \in pool[Acct(t[1])] => t[2] <= sent[t[1]]
    /\ \A t \in Txs : row[t] # "none" => t[2] <= sent[t[1]]
    /\ \A o \in Orders : sent[o] > 0 => o \notin RegisterOrders /\ orderStatus[o] # "none"

\* What is to be sent is within the bound of the model.
Bounded == \A l \in Loops : \A o \in sending[l] : sent[o] < MaxSend

\* If no answer of the node is lost, an order that was sent stays marked.
SentIsMarked ==
    "lost" \notin Faults =>
        /\ \A l \in Loops : \A o \in sending[l] : sent[o] = 0
        /\ \A o \in Orders : sent[o] > 0 => sent[o] = 1 /\ payStatus[o] = "Ok"

\* A did-cell order is refunded after its only attempt failed.
RefundIsFinal ==
    "lost" \notin Faults =>
        \A p \in refund :
            \/ OrderOf[p] \in RegisterOrders
            \/ /\ OrderOf[p] \in DidOrders /\ payStatus[OrderOf[p]] = "Ok"
               /\ sent[OrderOf[p]] = 0 /\ OrderOf[p] \notin sending["did"]

\* Where block_parser is, the updates before have been made.
ParsingOrder ==
    \A t \in Txs :
        /\ parsing \in {<<t, "hedge">>, <<t, "confirm">>} =>
              /\ t \in blocks /\ row[t] # "none" /\ t \notin foreign
              /\ orderStatus[t[1]] = "closed"
        /\ parsing = <<t, "confirm">> => hedgeStatus[t[1]] # "Default"

IInv ==
    /\ TypeOK /\ Fresh /\ Hands /\ PaidIsApply /\ OpenHands /\ RowIsMarked
    /\ Numbered /\ Bounded /\ SentIsMarked /\ RefundIsFinal /\ ParsingOrder
    /\ HedgedIsServed /\ HandledIsComplete

-----------------------------------------------------------------------------
(* Every step keeps it.                                                    *)

LEMMA TxFacts == \A t \in Txs : t[1] \in Orders /\ t[2] \in 1..MaxSend /\ t = <<t[1], t[2]>>
  BY DEF Txs

LEMMA PayFacts == \A p \in Pays : OrderOf[p] \in Orders \ InternalOrders
  BY RenewalAssumption

\* The two goroutines have no order in common, and none of a registration.
LEMMA LoopFacts ==
    ASSUME NEW l \in Loops
    PROVE  /\ LoopOrders(l) \subseteq Orders /\ LoopOrders(l) \cap RegisterOrders = {}
           /\ \A m \in Loops : m # l => LoopOrders(l) \cap LoopOrders(m) = {}
  BY RenewalAssumption DEF Loops, LoopOrders, Orders, TxtoolOrders, DidOrders

LEMMA ToolFacts == IInv => \A l \in Loops : todo[l] \subseteq Orders /\ sending[l] \subseteq Orders
  BY DEF IInv, TypeOK

\* What is known of the order a goroutine is about to take.
LEMMA Listed ==
    ASSUME IInv, NEW l \in Loops, NEW o \in todo[l], sending[l] = {}
    PROVE  /\ o \in LoopOrders(l) /\ o \in Orders /\ payStatus[o] = "Sending"
           /\ \A m \in Loops : o \notin sending[m] /\ (m # l => o \notin todo[m])
           /\ \A t \in Txs : t[1] = o => row[t] = "none" \/ t \in foreign
           /\ "lost" \notin Faults => sent[o] = 0
  <1>1. o \in LoopOrders(l) /\ payStatus[o] = "Sending"
    BY DEF IInv, Hands
  <1>2. o \in Orders
    BY <1>1, LoopFacts
  <1>3. \A m \in Loops : o \notin sending[m] /\ (m # l => o \notin todo[m])
    BY <1>1, LoopFacts DEF IInv, Hands
  <1>4. \A t \in Txs : t[1] = o => row[t] = "none" \/ t \in foreign
    BY <1>1 DEF IInv, RowIsMarked
  <1>5. "lost" \notin Faults => sent[o] = 0
    <2>1. sent[o] \in Nat
      BY <1>2 DEF IInv, TypeOK
    <2> QED BY <1>1, <1>2, <2>1 DEF IInv, SentIsMarked
  <1> QED BY <1>1, <1>2, <1>3, <1>4, <1>5

\* What is known of the order in the hands of a goroutine.
LEMMA Held ==
    ASSUME IInv, NEW l \in Loops, NEW o \in sending[l]
    PROVE  /\ o \in LoopOrders(l) /\ o \in Orders /\ payStatus[o] = "Ok" /\ sending[l] = {o}
           /\ \A q \in todo[l] \ {o} : payStatus[q] = "Sending"
           /\ \A m \in Loops : m # l => o \notin sending[m] /\ o \notin todo[m]
           /\ \A t \in Txs : t[1] = o => row[t] = "none" \/ t \in foreign
           /\ orderStatus[o] # "none"
           /\ "lost" \notin Faults => sent[o] = 0
  <1>1. o \in LoopOrders(l) /\ payStatus[o] = "Ok" /\ sending[l] = {o}
    BY DEF IInv, Hands
  <1>2. o \in Orders
    BY <1>1, LoopFacts
  <1>3. \A m \in Loops : m # l => o \notin sending[m] /\ o \notin todo[m]
    BY <1>1, LoopFacts DEF IInv, Hands
  <1>4. \A t \in Txs : t[1] = o => row[t] = "none" \/ t \in foreign
    BY DEF IInv, RowIsMarked
  <1>5. \A q \in todo[l] \ {o} : payStatus[q] = "Sending"
    BY <1>1 DEF IInv, Hands
  <1>6. orderStatus[o] # "none"
    BY <1>1, <1>2 DEF IInv, Fresh
  <1>7. "lost" \notin Faults => sent[o] = 0
    BY DEF IInv, SentIsMarked
  <1> QED BY <1>1, <1>2, <1>3, <1>4, <1>5, <1>6, <1>7

\* What a call of SendTransaction leaves behind, whether the node took the
\* transaction or not.
LEMMA Delivery ==
    ASSUME IInv, NEW l \in Loops, NEW o \in sending[l], NodeTakes(o) \/ UNCHANGED chainVars
    PROVE  /\ pool' \in [Accounts -> SUBSET Txs] /\ sent' \in [Orders -> 0..MaxSend]
           /\ UNCHANGED <<cell, seen, cross, committed>>
           /\ \A q \in Orders : q # o => sent'[q] = sent[q]
           /\ \A t \in Txs : t[2] <= sent[t[1]] => t[2] <= sent'[t[1]]
           /\ \A t \in Txs : t \in committed' \/ t \in pool'[Acct(t[1])] => t[2] <= sent'[t[1]]
           /\ \A q \in Orders : sent'[q] > 0 => q \notin RegisterOrders /\ orderStatus[q] # "none"
  <1>1. o \in Orders /\ Acct(o) \in Accounts /\ sent \in [Orders -> 0..MaxSend]
    BY Held, RenewalAssumption DEF IInv, TypeOK, Acct
  <1>2. CASE UNCHANGED chainVars
    <2>1. UNCHANGED <<cell, seen, cross, pool, sent, committed>>
      BY <1>2 DEF chainVars
    <2> QED BY <2>1 DEF IInv, TypeOK, Numbered
  <1>3. CASE NodeTakes(o)
    <2>1. sent[o] + 1 \in 1..MaxSend
      BY <1>1, RenewalAssumption DEF IInv, Bounded
    <2>2. <<o, sent[o] + 1>> \in Txs
      BY <1>1, <2>1 DEF Txs
    <2>3. pool' \in [Accounts -> SUBSET Txs] /\ sent' \in [Orders -> 0..MaxSend]
      BY <1>1, <1>3, <2>1, <2>2 DEF NodeTakes, IInv, TypeOK
    <2>4. \A q \in Orders : sent'[q] = IF q = o THEN sent[q] + 1 ELSE sent[q]
      BY <1>1, <1>3 DEF NodeTakes
    <2>5. UNCHANGED <<cell, seen, cross, committed>>
      BY <1>3 DEF NodeTakes
    <2>6. sent \in [Orders -> Nat] /\ \A t \in Txs : t[1] \in Orders /\ t[2] \in Nat
      BY <1>1, TxFacts, RenewalAssumption
    <2>7. \A t \in Txs : t[2] <= sent[t[1]] => t[2] <= sent'[t[1]]
      BY <2>4, <2>6
    <2>8. ASSUME NEW t \in Txs, t \in committed' \/ t \in pool'[Acct(t[1])] PROVE t[2] <= sent'[t[1]]
      <3>1. t = <<o, sent[o] + 1>> \/ t \in committed \/ t \in pool[Acct(t[1])]
        BY <1>1, <1>3, <2>8, TxFacts, RenewalAssumption DEF NodeTakes, IInv, TypeOK, Acct
      <3>2. t = <<o, sent[o] + 1>> => t[2] <= sent'[t[1]]
        BY <1>1, <2>4, <2>6
      <3> QED BY <2>7, <3>1, <3>2 DEF IInv, Numbered
    <2>9. \A q \in Orders : sent'[q] > 0 => q \notin RegisterOrders /\ orderStatus[q] # "none"
      <3>1. o \notin RegisterOrders /\ orderStatus[o] # "none"
        BY Held, LoopFacts
      <3> QED BY <2>4, <3>1 DEF IInv, Numbered
    <2> QED BY <2>3, <2>4, <2>5, <2>7, <2>8, <2>9
  <1> QED BY <1>2, <1>3

\* A conjunct whose variables do not change still holds.
LEMMA Frame ==
    ASSUME IInv
    PROVE  /\ UNCHANGED <<orderStatus, payStatus>> => Fresh'
           /\ UNCHANGED <<payStatus, todo, sending>> => Hands'
           /\ UNCHANGED <<payStatus, regStatus>> => PaidIsApply'
           /\ UNCHANGED <<orderStatus, todo, sending>> => OpenHands'
           /\ UNCHANGED <<payStatus, row, foreign, sending>> => RowIsMarked'
           /\ UNCHANGED <<orderStatus, row, pool, sent, committed>> => Numbered'
           /\ UNCHANGED <<sending, sent>> => Bounded'
           /\ UNCHANGED <<payStatus, sending, sent>> => SentIsMarked'
           /\ UNCHANGED <<payStatus, refund, sending, sent>> => RefundIsFinal'
           /\ UNCHANGED <<orderStatus, hedgeStatus, row, foreign, blocks, parsing>> => ParsingOrder'
           /\ UNCHANGED <<hedgeStatus, committed>> => HedgedIsServed'
           /\ UNCHANGED <<orderStatus, hedgeStatus, row, foreign, committed, blocks>> => HandledIsComplete'
  <1>1. UNCHANGED <<orderStatus, payStatus>> => Fresh'
    BY DEF IInv, Fresh
  <1>2. UNCHANGED <<payStatus, todo, sending>> => Hands'
    BY DEF IInv, Hands
  <1>3. UNCHANGED <<payStatus, regStatus>> => PaidIsApply'
    BY DEF IInv, PaidIsApply
  <1>4. UNCHANGED <<orderStatus, todo, sending>> => OpenHands'
    BY DEF IInv, OpenHands
  <1>5. UNCHANGED <<payStatus, row, foreign, sending>> => RowIsMarked'
    BY DEF IInv, RowIsMarked
  <1>6. UNCHANGED <<orderStatus, row, pool, sent, committed>> => Numbered'
    BY DEF IInv, Numbered
  <1>7. UNCHANGED <<sending, sent>> => Bounded'
    BY DEF IInv, Bounded
  <1>8. UNCHANGED <<payStatus, sending, sent>> => SentIsMarked'
    BY DEF IInv, SentIsMarked
  <1>9. UNCHANGED <<payStatus, refund, sending, sent>> => RefundIsFinal'
    BY DEF IInv, RefundIsFinal
  <1>10. UNCHANGED <<orderStatus, hedgeStatus, row, foreign, blocks, parsing>> => ParsingOrder'
    BY DEF IInv, ParsingOrder
  <1>11. UNCHANGED <<hedgeStatus, committed>> => HedgedIsServed'
    BY DEF IInv, HedgedIsServed
  <1>12. UNCHANGED <<orderStatus, hedgeStatus, row, foreign, committed, blocks>> => HandledIsComplete'
    BY DEF IInv, HandledIsComplete
  <1> QED BY <1>1, <1>2, <1>3, <1>4, <1>5, <1>6, <1>7, <1>8, <1>9, <1>10, <1>11, <1>12

LEMMA HttpInv == IInv /\ HttpNext => IInv'
  <1> SUFFICES ASSUME IInv, HttpNext PROVE IInv'
    OBVIOUS
  <1> USE DEF orderVars, payVars, didVars, rowVars, toolVars, chainVars, parseVars
  <1>1. ASSUME NEW o \in Orders, NEW pay \in {"Default", "Sending"},
            NEW reg \in {"Default", "ConfirmPayment"}, CreateOrder(o, pay, reg),
            pay = "Default" \/ o \in InternalOrders, cache' = cache, built' \in [Orders -> Nat]
      PROVE IInv'
    <2>1. TypeOK'
      <3>1. id' \in [Orders -> Nat]
        <4>1. IsFiniteSet({q \in Orders : orderStatus[q] # "none"})
          BY RenewalAssumption, FS_Subset
        <4>2. Cardinality({q \in Orders : orderStatus[q] # "none"}) \in Nat
          BY <4>1, FS_CardinalityType
        <4> QED BY <1>1, <4>2 DEF CreateOrder, IInv, TypeOK
      <3>2. /\ orderStatus' \in [Orders -> {"none", "open", "closed"}]
            /\ payStatus' \in [Orders -> {"Default", "Sending", "Ok"}]
            /\ regStatus' \in [Orders -> {"Default", "ConfirmPayment", "ApplyRegister"}]
        BY <1>1 DEF CreateOrder, IInv, TypeOK
      <3> QED BY <1>1, <3>1, <3>2 DEF CreateOrder, IInv, TypeOK
    <2>2. Fresh'
      BY <1>1 DEF IInv, Fresh, TypeOK, CreateOrder
    <2>3. Hands'
      BY <1>1 DEF IInv, Hands, TypeOK, Fresh, CreateOrder
    <2>4. PaidIsApply'
      BY <1>1 DEF IInv, PaidIsApply, TypeOK, CreateOrder
    <2>5. OpenHands'
      BY <1>1 DEF IInv, OpenHands, TypeOK, CreateOrder
    <2>6. RowIsMarked'
      BY <1>1, TxFacts DEF IInv, RowIsMarked, TypeOK, Fresh, CreateOrder
    <2>7. Numbered'
      BY <1>1 DEF IInv, Numbered, TypeOK, CreateOrder
    <2>8. SentIsMarked'
      BY <1>1 DEF IInv, SentIsMarked, TypeOK, Numbered, Fresh, CreateOrder
    <2>9. RefundIsFinal'
      BY <1>1, PayFacts DEF IInv, RefundIsFinal, TypeOK, Fresh, CreateOrder
    <2>10. ParsingOrder'
      BY <1>1 DEF IInv, ParsingOrder, TypeOK, CreateOrder
    <2>11. HandledIsComplete'
      BY <1>1 DEF IInv, HandledIsComplete, TypeOK, CreateOrder
    <2>12. UNCHANGED <<hedgeStatus, sending, sent, committed>>
      BY <1>1 DEF CreateOrder
    <2> QED BY <2>1, <2>2, <2>3, <2>4, <2>5, <2>6, <2>7, <2>8, <2>9, <2>10, <2>11, <2>12, Frame DEF IInv
  <1>2. ASSUME NEW o \in Orders, TransactionSend(o) PROVE IInv'
    <2>1. TypeOK'
      BY <1>2 DEF IInv, TypeOK, TransactionSend
    <2>2. UNCHANGED <<orderStatus, payStatus, regStatus, hedgeStatus, refund, row, foreign, todo, sending, pool, sent, committed, blocks, parsing>>
      BY <1>2 DEF TransactionSend
    <2> QED BY <2>1, <2>2, Frame DEF IInv
  <1>3. ASSUME NEW o \in Orders, CacheExpires(o) PROVE IInv'
    <2>1. TypeOK'
      BY <1>3 DEF IInv, TypeOK, CacheExpires
    <2>2. UNCHANGED <<orderStatus, payStatus, regStatus, hedgeStatus, refund, row, foreign, todo, sending, pool, sent, committed, blocks, parsing>>
      BY <1>3 DEF CacheExpires
    <2> QED BY <2>1, <2>2, Frame DEF IInv
  <1>4. ASSUME NEW p \in Pays, UpdatePayment(p) PROVE IInv'
    <2>1. TypeOK'
      <3>1. payStatus' \in [Orders -> {"Default", "Sending", "Ok"}]
        BY <1>4, PayFacts DEF UpdatePayment, IInv, TypeOK
      <3>2. regStatus' \in [Orders -> {"Default", "ConfirmPayment", "ApplyRegister"}]
        <4>1. CASE payStatus[OrderOf[p]] = "Default"
          BY <1>4, <4>1, PayFacts DEF UpdatePayment, IInv, TypeOK
        <4>2. CASE payStatus[OrderOf[p]] # "Default"
          BY <1>4, <4>2 DEF UpdatePayment, IInv, TypeOK
        <4> QED BY <4>1, <4>2
      <3> QED BY <1>4, <3>1, <3>2 DEF UpdatePayment, IInv, TypeOK
    <2>2. Fresh'
      BY <1>4 DEF IInv, Fresh, TypeOK, UpdatePayment
    <2>3. Hands'
      BY <1>4 DEF IInv, Hands, TypeOK, UpdatePayment
    <2>4. PaidIsApply'
      BY <1>4, PayFacts DEF IInv, PaidIsApply, TypeOK, UpdatePayment
    <2>5. RowIsMarked'
      BY <1>4, PayFacts, TxFacts DEF IInv, RowIsMarked, TypeOK, UpdatePayment
    <2>6. SentIsMarked'
      BY <1>4 DEF IInv, SentIsMarked, TypeOK, UpdatePayment
    <2>7. RefundIsFinal'
      BY <1>4, PayFacts DEF IInv, RefundIsFinal, TypeOK, UpdatePayment
    <2>8. UNCHANGED <<orderStatus, hedgeStatus, row, foreign, todo, sending, pool, sent, committed, blocks, parsing>>
      BY <1>4 DEF UpdatePayment
    <2> QED BY <2>1, <2>2, <2>3, <2>4, <2>5, <2>6, <2>7, <2>8, Frame DEF IInv
  <1>5. \A o \in Orders : seen[Acct(o)] \in Nat
    BY RenewalAssumption DEF IInv, TypeOK, Acct
  <1>6. ASSUME NEW o \in Orders, \/ DoRenewOrder(o) \/ DoInternalRenewOrder(o)
                                 \/ DoDidCellRenew(o) \/ DoDidCellEditOwner(o)
                                 \/ DoRegisterOrder(o)
        PROVE  IInv'
    <2>1. cache' = cache
      BY <1>6 DEF DoRenewOrder, DoInternalRenewOrder, DoDidCellRenew, DoDidCellEditOwner,
             CreateDidCellOrder, DoRegisterOrder
    <2>2. built' \in [Orders -> Nat]
      BY <1>5, <1>6 DEF DoRenewOrder, DoInternalRenewOrder, DoDidCellRenew, DoDidCellEditOwner,
             CreateDidCellOrder, DoRegisterOrder, IInv, TypeOK
    <2>3. \/ CreateOrder(o, "Default", "Default") \/ CreateOrder(o, "Default", "ConfirmPayment")
          \/ CreateOrder(o, "Sending", "ConfirmPayment") /\ o \in InternalOrders
      BY <1>6 DEF DoRenewOrder, DoInternalRenewOrder, DoDidCellRenew, DoDidCellEditOwner,
             CreateDidCellOrder, DoRegisterOrder
    <2> QED BY <1>1, <2>1, <2>2, <2>3
  <1> QED BY <1>2, <1>3, <1>4, <1>6 DEF HttpNext

LEMMA TxToolInv == IInv /\ TxToolNext => IInv'
  <1> SUFFICES ASSUME IInv, TxToolNext PROVE IInv'
    OBVIOUS
  <1> USE DEF orderVars, payVars, didVars, rowVars, toolVars, chainVars, parseVars
  <1>1. ASSUME NEW l \in Loops, List(l) PROVE IInv'
    <2>1. TypeOK'
      BY <1>1, LoopFacts DEF IInv, TypeOK, List, NeedSend
    <2>2. Hands'
      BY <1>1 DEF IInv, Hands, TypeOK, List, NeedSend
    <2>3. OpenHands'
      BY <1>1 DEF IInv, OpenHands, TypeOK, List, NeedSend
    <2>4. UNCHANGED <<orderStatus, payStatus, regStatus, hedgeStatus, refund, row, foreign, sending, pool, sent, committed, blocks, parsing>>
      BY <1>1 DEF List
    <2> QED BY <2>1, <2>2, <2>3, <2>4, Frame DEF IInv
  <1>2. ASSUME NEW l \in Loops, BatchFails(l) PROVE IInv'
    <2>1. TypeOK'
      BY <1>2 DEF IInv, TypeOK, BatchFails, Abort
    <2>2. Hands'
      BY <1>2 DEF IInv, Hands, TypeOK, BatchFails, Abort
    <2>3. OpenHands'
      BY <1>2 DEF IInv, OpenHands, TypeOK, BatchFails, Abort
    <2>4. UNCHANGED <<orderStatus, payStatus, regStatus, hedgeStatus, refund, row, foreign, sending, pool, sent, committed, blocks, parsing>>
      BY <1>2 DEF BatchFails
    <2> QED BY <2>1, <2>2, <2>3, <2>4, Frame DEF IInv
  <1>3. ASSUME NEW l \in Loops, NEW o \in Orders, Sent(l, o) PROVE IInv'
    <2>1. TypeOK'
      <3>1. /\ pool' \in [Accounts -> SUBSET Txs] /\ sent' \in [Orders -> 0..MaxSend]
            /\ UNCHANGED <<cell, seen, cross, committed>>
        BY <1>3, Delivery DEF Sent
      <3>2. row' \in [Txs -> {"none", "Default", "Confirm", "Rejected"}]
        BY <1>3 DEF IInv, TypeOK, Sent
      <3>3. todo' \in [Loops -> SUBSET Orders] /\ sending' \in [Loops -> SUBSET Orders]
        BY <1>3 DEF IInv, TypeOK, Sent, Served
      <3> QED BY <1>3, <3>1, <3>2, <3>3 DEF IInv, TypeOK, Sent
    <2>2. Hands'
      BY <1>3, Held DEF IInv, Hands, TypeOK, Sent, Served
    <2>3. OpenHands'
      BY <1>3 DEF IInv, OpenHands, TypeOK, Sent, NodeTakes, Served
    <2>4. RowIsMarked'
      <3> SUFFICES ASSUME NEW t \in Txs, row'[t] # "none", t \notin foreign
                   PROVE  payStatus[t[1]] = "Ok" /\ \A m \in Loops : t[1] \notin sending'[m]
        BY <1>3 DEF RowIsMarked, Sent
      <3>1. CASE t[1] = o
        BY <1>3, <3>1, Held DEF Sent, IInv, TypeOK
      <3>2. CASE t[1] # o
        <4>1. row'[t] = row[t]
          BY <1>3, <3>2 DEF Sent, IInv, TypeOK
        <4>2. \A m \in Loops : sending'[m] \subseteq sending[m]
          BY <1>3 DEF Sent, IInv, TypeOK
        <4> QED BY <4>1, <4>2 DEF IInv, RowIsMarked
      <3> QED BY <3>1, <3>2
    <2>5. Numbered'
      <3>1. ASSUME NEW t \in Txs, row'[t] # "none" PROVE t[2] <= sent'[t[1]]
        <4>1. CASE t = <<o, sent[o] + 1>>
          <5>1. sent[o] + 1 <= sent[o] + 1
            BY DEF IInv, TypeOK
          <5> QED BY <1>3, <4>1, <5>1 DEF Sent, NodeTakes, IInv, TypeOK
        <4>2. CASE t # <<o, sent[o] + 1>>
          <5>1. row[t] # "none"
            BY <1>3, <3>1, <4>2 DEF Sent, IInv, TypeOK
          <5> QED BY <1>3, <5>1, Delivery DEF Sent, IInv, Numbered
        <4> QED BY <4>1, <4>2
      <3> QED BY <1>3, <3>1, Delivery DEF Numbered, Sent
    <2>6. Bounded'
      <3>1. \A m \in Loops : sending'[m] = IF m = l THEN {} ELSE sending[m]
        BY <1>3 DEF Sent, IInv, TypeOK
      <3>2. \A m \in Loops : m # l => o \notin sending[m]
        BY <1>3, Held DEF Sent
      <3>3. \A q \in Orders : q # o => sent'[q] = sent[q]
        BY <1>3 DEF Sent, NodeTakes, IInv, TypeOK
      <3> QED BY <3>1, <3>2, <3>3 DEF IInv, TypeOK, Bounded
    <2>7. SentIsMarked'
      <3>1. \A q \in Orders : sent'[q] = IF q = o THEN sent[q] + 1 ELSE sent[q]
        BY <1>3 DEF Sent, NodeTakes, IInv, TypeOK
      <3>2. \A m \in Loops : sending'[m] = IF m = l THEN {} ELSE sending[m]
        BY <1>3 DEF Sent, IInv, TypeOK
      <3>3. payStatus' = payStatus /\ payStatus[o] = "Ok" /\ ("lost" \notin Faults => sent[o] = 0)
        BY <1>3, Held DEF Sent
      <3>4. \A m \in Loops : m # l => o \notin sending[m] /\ sending[m] \subseteq Orders
        BY <1>3, Held DEF Sent, IInv, TypeOK
      <3> QED BY <3>1, <3>2, <3>3, <3>4 DEF IInv, SentIsMarked
    <2>8. RefundIsFinal'
      <3> SUFFICES ASSUME "lost" \notin Faults, NEW p \in refund, OrderOf[p] \notin RegisterOrders
                   PROVE  /\ OrderOf[p] \in DidOrders /\ payStatus[OrderOf[p]] = "Ok"
                          /\ sent'[OrderOf[p]] = 0 /\ OrderOf[p] \notin sending'["did"]
        BY <1>3 DEF RefundIsFinal, Sent
      <3>1. /\ OrderOf[p] \in DidOrders /\ payStatus[OrderOf[p]] = "Ok"
            /\ sent[OrderOf[p]] = 0 /\ OrderOf[p] \notin sending["did"]
        BY DEF IInv, RefundIsFinal
      <3>2. o # OrderOf[p]
        BY <1>3, <3>1, Held, LoopFacts DEF Sent, Loops, LoopOrders
      <3>3. sent'[OrderOf[p]] = sent[OrderOf[p]]
        BY <1>3, <3>2, PayFacts DEF Sent, NodeTakes, IInv, TypeOK
      <3>4. sending'["did"] \subseteq sending["did"]
        BY <1>3 DEF Sent, IInv, TypeOK, Loops
      <3> QED BY <3>1, <3>3, <3>4
    <2>9. ParsingOrder'
      <3>1. \A t \in Txs : row[t] # "none" => row'[t] # "none"
        BY <1>3 DEF Sent, IInv, TypeOK
      <3> QED BY <1>3, <3>1 DEF IInv, ParsingOrder, Sent
    <2>10. HandledIsComplete'
      <3>1. \A t \in committed : row'[t] = row[t]
        <4>1. \A t \in committed : t \in Txs /\ t # <<o, sent[o] + 1>>
          BY TxFacts DEF IInv, TypeOK, Numbered
        <4> QED BY <1>3, <4>1 DEF Sent, IInv, TypeOK
      <3> QED BY <1>3, <3>1 DEF IInv, HandledIsComplete, Sent, NodeTakes
    <2>11. UNCHANGED <<orderStatus, payStatus, regStatus, hedgeStatus, committed>>
      BY <1>3 DEF Sent, NodeTakes
    <2> QED BY <2>1, <2>2, <2>3, <2>4, <2>5, <2>6, <2>7, <2>8, <2>9, <2>10, <2>11, Frame DEF IInv
  <1>4. ASSUME NEW o \in Orders, OrderOnCross(o) PROVE IInv'
    <2>1. TypeOK'
      BY <1>4 DEF IInv, TypeOK, OrderOnCross, Head, Close, Served
    <2>2. Fresh'
      BY <1>4 DEF IInv, Fresh, TypeOK, OrderOnCross, Head, Close, Served
    <2>3. Hands'
      BY <1>4 DEF IInv, Hands, TypeOK, OrderOnCross, Head, Close, Served
    <2>4. OpenHands'
      <3>1. /\ o \in todo["renew"] /\ sending["renew"] = {} /\ "renew" \in Loops
            /\ todo' = [todo EXCEPT !["renew"] = todo["renew"] \ {o}] /\ UNCHANGED sending
        BY <1>4 DEF OrderOnCross, Head, Served, Loops
      <3>2. \A m \in Loops : todo'[m] = IF m = "renew" THEN todo[m] \ {o} ELSE todo[m]
        BY <3>1 DEF IInv, TypeOK
      <3>3. \A m \in Loops : o \notin todo'[m] /\ o \notin sending'[m]
        BY <3>1, <3>2, Listed
      <3>4. \A q \in Orders : q # o => orderStatus'[q] = orderStatus[q]
        BY <1>4 DEF OrderOnCross, Close, IInv, TypeOK
      <3> QED BY <3>1, <3>2, <3>3, <3>4, ToolFacts DEF IInv, OpenHands
    <2>5. Numbered'
      BY <1>4 DEF IInv, Numbered, TypeOK, OrderOnCross, Head, Close, Served
    <2>6. ParsingOrder'
      BY <1>4 DEF IInv, ParsingOrder, TypeOK, OrderOnCross, Head, Close, Served
    <2>7. HandledIsComplete'
      BY <1>4 DEF IInv, HandledIsComplete, TypeOK, OrderOnCross, Head, Close, Served
    <2>8. UNCHANGED <<payStatus, regStatus, hedgeStatus, refund, row, foreign, sending, sent, committed>>
      BY <1>4 DEF OrderOnCross
    <2> QED BY <2>1, <2>2, <2>3, <2>4, <2>5, <2>6, <2>7, <2>8, Frame DEF IInv
  <1>5. ASSUME NEW o \in Orders, DoOrderRenewTx(o) PROVE IInv'
    <2>1. TypeOK'
      <3>1. payStatus' \in [Orders -> {"Default", "Sending", "Ok"}]
        BY <1>5 DEF DoOrderRenewTx, UpdatePayStatus, IInv, TypeOK
      <3>2. built' \in [Orders -> Nat]
        BY <1>5, RenewalAssumption DEF DoOrderRenewTx, IInv, TypeOK, Acct
      <3> QED BY <1>5, <3>1, <3>2 DEF DoOrderRenewTx, IInv, TypeOK
    <2>2. Fresh'
      BY <1>5 DEF IInv, Fresh, TypeOK, DoOrderRenewTx, Head, UpdatePayStatus
    <2>3. Hands'
      <3>1. o \in todo["renew"] /\ sending["renew"] = {} /\ "renew" \in Loops
        BY <1>5 DEF DoOrderRenewTx, Head, Loops
      <3>2. \A q \in Orders : payStatus'[q] = IF q = o THEN "Ok" ELSE payStatus[q]
        BY <1>5, <3>1, Listed DEF DoOrderRenewTx, UpdatePayStatus, IInv, TypeOK
      <3>3. \A m \in Loops : sending'[m] = IF m = "renew" THEN {o} ELSE sending[m]
        BY <1>5 DEF DoOrderRenewTx, IInv, TypeOK
      <3>4. /\ o \in LoopOrders("renew") /\ \A m \in Loops : o \notin sending[m] /\ (m # "renew" => o \notin todo[m])
            /\ UNCHANGED todo
        BY <1>5, <3>1, Listed DEF DoOrderRenewTx
      <3>5. ASSUME NEW m \in Loops, NEW q \in todo'[m]
            PROVE  q \in LoopOrders(m) /\ (q \in sending'[m] \/ payStatus'[q] = "Sending")
        BY <3>1, <3>2, <3>3, <3>4, <3>5, ToolFacts DEF IInv, Hands
      <3>6. ASSUME NEW m \in Loops, NEW q \in sending'[m]
            PROVE  q \in LoopOrders(m) /\ payStatus'[q] = "Ok" /\ sending'[m] = {q}
        <4>1. CASE m = "renew"
          BY <3>2, <3>3, <3>4, <3>6, <4>1
        <4>2. CASE m # "renew"
          BY <3>2, <3>3, <3>4, <3>6, <4>2, ToolFacts DEF IInv, Hands
        <4> QED BY <4>1, <4>2
      <3> QED BY <3>5, <3>6 DEF Hands
    <2>4. PaidIsApply'
      BY <1>5 DEF IInv, PaidIsApply, TypeOK, DoOrderRenewTx, Head, UpdatePayStatus
    <2>5. OpenHands'
      BY <1>5 DEF IInv, OpenHands, TypeOK, DoOrderRenewTx, Head, UpdatePayStatus
    <2>6. RowIsMarked'
      <3>1. o \in todo["renew"] /\ sending["renew"] = {} /\ "renew" \in Loops
        BY <1>5 DEF DoOrderRenewTx, Head, Loops
      <3>2. \A t \in Txs : row[t] # "none" /\ t \notin foreign => t[1] # o
        BY <3>1, Listed
      <3> QED BY <1>5, <3>1, <3>2, TxFacts DEF DoOrderRenewTx, UpdatePayStatus, IInv, RowIsMarked, TypeOK
    <2>7. Bounded'
      BY <1>5 DEF IInv, Bounded, TypeOK, DoOrderRenewTx, Head, UpdatePayStatus
    <2>8. SentIsMarked'
      <3>1. o \in todo["renew"] /\ sending["renew"] = {} /\ "renew" \in Loops
        BY <1>5 DEF DoOrderRenewTx, Head, Loops
      <3>2. "lost" \notin Faults => sent[o] = 0
        BY <3>1, Listed
      <3> QED BY <1>5, <3>1, <3>2 DEF DoOrderRenewTx, UpdatePayStatus, IInv, SentIsMarked, TypeOK
    <2>9. RefundIsFinal'
      <3>1. \A p \in refund : payStatus[OrderOf[p]] = "Ok" => payStatus'[OrderOf[p]] = "Ok"
        BY <1>5, PayFacts DEF DoOrderRenewTx, UpdatePayStatus, IInv, TypeOK
      <3>2. sending'["did"] = sending["did"]
        BY <1>5 DEF DoOrderRenewTx, IInv, TypeOK, Loops
      <3> QED BY <1>5, <3>1, <3>2 DEF DoOrderRenewTx, IInv, RefundIsFinal
    <2>10. UNCHANGED <<orderStatus, hedgeStatus, row, foreign, pool, sent, committed, blocks, parsing>>
      BY <1>5 DEF DoOrderRenewTx
    <2> QED BY <2>1, <2>2, <2>3, <2>4, <2>5, <2>6, <2>7, <2>8, <2>9, <2>10, Frame DEF IInv
  <1>6. ASSUME NEW o \in Orders, RenewSendFails(o) PROVE IInv'
    <2>1. TypeOK'
      <3>1. o \in sending["renew"] /\ "renew" \in Loops /\ (NodeTakes(o) \/ UNCHANGED chainVars)
        BY <1>6 DEF RenewSendFails, SendError, Loops
      <3>2. payStatus' \in [Orders -> {"Default", "Sending", "Ok"}]
        BY <1>6 DEF RenewSendFails, UpdatePayStatus, IInv, TypeOK
      <3>3. todo' \in [Loops -> SUBSET Orders] /\ sending' \in [Loops -> SUBSET Orders]
        BY <1>6 DEF RenewSendFails, Abort, IInv, TypeOK
      <3>4. /\ pool' \in [Accounts -> SUBSET Txs] /\ sent' \in [Orders -> 0..MaxSend]
            /\ UNCHANGED <<cell, seen, cross, committed>>
        BY <3>1, Delivery
      <3> QED BY <1>6, <3>2, <3>3, <3>4 DEF RenewSendFails, IInv, TypeOK
    <2>2. Fresh'
      BY <1>6 DEF IInv, Fresh, TypeOK, RenewSendFails, SendError, NodeTakes, UpdatePayStatus, Abort
    <2>3. Hands'
      <3>1. o \in sending["renew"] /\ "renew" \in Loops /\ (NodeTakes(o) \/ UNCHANGED chainVars)
        BY <1>6 DEF RenewSendFails, SendError, Loops
      <3>2. \A q \in Orders : q # o => payStatus'[q] = payStatus[q]
        BY <1>6 DEF RenewSendFails, UpdatePayStatus, IInv, TypeOK
      <3>3. \A m \in Loops : /\ sending'[m] = IF m = "renew" THEN {} ELSE sending[m]
                             /\ todo'[m] = IF m = "renew" THEN {} ELSE todo[m]
        BY <1>6 DEF RenewSendFails, Abort, IInv, TypeOK
      <3>4. \A m \in Loops : m # "renew" => o \notin sending[m] /\ o \notin todo[m]
        BY <3>1, Held
      <3> QED BY <3>2, <3>3, <3>4, ToolFacts DEF IInv, Hands
    <2>4. PaidIsApply'
      BY <1>6 DEF IInv, PaidIsApply, TypeOK, RenewSendFails, SendError, NodeTakes, UpdatePayStatus, Abort
    <2>5. OpenHands'
      BY <1>6 DEF IInv, OpenHands, TypeOK, RenewSendFails, SendError, NodeTakes, UpdatePayStatus, Abort
    <2>6. RowIsMarked'
      <3>1. o \in sending["renew"] /\ "renew" \in Loops /\ (NodeTakes(o) \/ UNCHANGED chainVars)
        BY <1>6 DEF RenewSendFails, SendError, Loops
      <3>2. \A q \in Orders : q # o => payStatus'[q] = payStatus[q]
        BY <1>6 DEF RenewSendFails, UpdatePayStatus, IInv, TypeOK
      <3>3. \A m \in Loops : /\ sending'[m] = IF m = "renew" THEN {} ELSE sending[m]
                             /\ todo'[m] = IF m = "renew" THEN {} ELSE todo[m]
        BY <1>6 DEF RenewSendFails, Abort, IInv, TypeOK
      <3>4. \A t \in Txs : row[t] # "none" /\ t \notin foreign => t[1] # o
        BY <3>1, Held
      <3>5. UNCHANGED <<row, foreign>>
        BY <1>6 DEF RenewSendFails
      <3> QED BY <3>2, <3>3, <3>4, <3>5, TxFacts DEF IInv, RowIsMarked
    <2>7. Numbered'
      <3>1. o \in sending["renew"] /\ "renew" \in Loops /\ (NodeTakes(o) \/ UNCHANGED chainVars)
        BY <1>6 DEF RenewSendFails, SendError, Loops
      <3>2. UNCHANGED <<row, orderStatus>>
        BY <1>6 DEF RenewSendFails
      <3> QED BY <3>1, <3>2, Delivery DEF IInv, Numbered
    <2>8. Bounded'
      <3>1. o \in sending["renew"] /\ "renew" \in Loops /\ (NodeTakes(o) \/ UNCHANGED chainVars)
        BY <1>6 DEF RenewSendFails, SendError, Loops
      <3>2. \A q \in Orders : q # o => payStatus'[q] = payStatus[q]
        BY <1>6 DEF RenewSendFails, UpdatePayStatus, IInv, TypeOK
      <3>3. \A m \in Loops : /\ sending'[m] = IF m = "renew" THEN {} ELSE sending[m]
                             /\ todo'[m] = IF m = "renew" THEN {} ELSE todo[m]
        BY <1>6 DEF RenewSendFails, Abort, IInv, TypeOK
      <3>4. \A m \in Loops : m # "renew" => o \notin sending[m]
        BY <3>1, Held
      <3>5. \A q \in Orders : q # o => sent'[q] = sent[q]
        BY <3>1, Delivery
      <3> QED BY <3>3, <3>4, <3>5, ToolFacts DEF IInv, Bounded
    <2>9. SentIsMarked'
      <3>1. o \in sending["renew"] /\ "renew" \in Loops /\ (NodeTakes(o) \/ UNCHANGED chainVars)
        BY <1>6 DEF RenewSendFails, SendError, Loops
      <3>2. \A q \in Orders : q # o => payStatus'[q] = payStatus[q]
        BY <1>6 DEF RenewSendFails, UpdatePayStatus, IInv, TypeOK
      <3>3. \A m \in Loops : /\ sending'[m] = IF m = "renew" THEN {} ELSE sending[m]
                             /\ todo'[m] = IF m = "renew" THEN {} ELSE todo[m]
        BY <1>6 DEF RenewSendFails, Abort, IInv, TypeOK
      <3>4. "lost" \notin Faults => sent' = sent /\ sent[o] = 0
        BY <1>6, <3>1, Held DEF RenewSendFails, SendError
      <3> QED BY <3>2, <3>3, <3>4 DEF IInv, SentIsMarked
    <2>10. RefundIsFinal'
      <3>1. o \in sending["renew"] /\ "renew" \in Loops /\ (NodeTakes(o) \/ UNCHANGED chainVars)
        BY <1>6 DEF RenewSendFails, SendError, Loops
      <3>2. \A q \in Orders : q # o => payStatus'[q] = payStatus[q]
        BY <1>6 DEF RenewSendFails, UpdatePayStatus, IInv, TypeOK
      <3>3. \A m \in Loops : /\ sending'[m] = IF m = "renew" THEN {} ELSE sending[m]
                             /\ todo'[m] = IF m = "renew" THEN {} ELSE todo[m]
        BY <1>6 DEF RenewSendFails, Abort, IInv, TypeOK
      <3>4. "lost" \notin Faults => sent' = sent
        BY <1>6 DEF RenewSendFails, SendError
      <3>5. o \notin DidOrders /\ sending'["did"] = sending["did"]
        BY <3>1, <3>3, Held, LoopFacts DEF Loops, LoopOrders
      <3>6. refund' = refund /\ refund \subseteq Pays
        BY <1>6 DEF RenewSendFails, IInv, TypeOK
      <3> QED BY <3>2, <3>4, <3>5, <3>6, PayFacts DEF IInv, RefundIsFinal
    <2>11. UNCHANGED <<orderStatus, hedgeStatus, row, foreign, committed, blocks, parsing>>
      BY <1>6 DEF RenewSendFails, SendError, NodeTakes
    <2> QED BY <2>1, <2>2, <2>3, <2>4, <2>5, <2>6, <2>7, <2>8, <2>9, <2>10, <2>11, Frame DEF IInv
  <1>7. ASSUME NEW o \in Orders, DidCellNoCache(o) PROVE IInv'
    <2>1. TypeOK'
      BY <1>7 DEF IInv, TypeOK, DidCellNoCache, Abort
    <2>2. Hands'
      BY <1>7 DEF IInv, Hands, TypeOK, DidCellNoCache, Abort
    <2>3. OpenHands'
      BY <1>7 DEF IInv, OpenHands, TypeOK, DidCellNoCache, Abort
    <2>4. UNCHANGED <<orderStatus, payStatus, regStatus, hedgeStatus, refund, row, foreign, sending, pool, sent, committed, blocks, parsing>>
      BY <1>7 DEF DidCellNoCache
    <2> QED BY <2>1, <2>2, <2>3, <2>4, Frame DEF IInv
  <1>8. ASSUME NEW o \in Orders, DoDidCellTx(o) PROVE IInv'
    <2>1. TypeOK'
      BY <1>8 DEF IInv, TypeOK, DoDidCellTx, Head, UpdatePayStatus
    <2>2. Fresh'
      BY <1>8 DEF IInv, Fresh, TypeOK, DoDidCellTx, Head, UpdatePayStatus
    <2>3. Hands'
      <3>1. o \in todo["did"] /\ sending["did"] = {} /\ "did" \in Loops
        BY <1>8 DEF DoDidCellTx, Head, Loops
      <3>2. \A q \in Orders : payStatus'[q] = IF q = o THEN "Ok" ELSE payStatus[q]
        BY <1>8, <3>1, Listed DEF DoDidCellTx, UpdatePayStatus, IInv, TypeOK
      <3>3. \A m \in Loops : sending'[m] = IF m = "did" THEN {o} ELSE sending[m]
        BY <1>8 DEF DoDidCellTx, IInv, TypeOK
      <3>4. /\ o \in LoopOrders("did") /\ \A m \in Loops : o \notin sending[m] /\ (m # "did" => o \notin todo[m])
            /\ UNCHANGED todo
        BY <1>8, <3>1, Listed DEF DoDidCellTx
      <3>5. ASSUME NEW m \in Loops, NEW q \in todo'[m]
            PROVE  q \in LoopOrders(m) /\ (q \in sending'[m] \/ payStatus'[q] = "Sending")
        BY <3>1, <3>2, <3>3, <3>4, <3>5, ToolFacts DEF IInv, Hands
      <3>6. ASSUME NEW m \in Loops, NEW q \in sending'[m]
            PROVE  q \in LoopOrders(m) /\ payStatus'[q] = "Ok" /\ sending'[m] = {q}
        <4>1. CASE m = "did"
          BY <3>2, <3>3, <3>4, <3>6, <4>1
        <4>2. CASE m # "did"
          BY <3>2, <3>3, <3>4, <3>6, <4>2, ToolFacts DEF IInv, Hands
        <4> QED BY <4>1, <4>2
      <3> QED BY <3>5, <3>6 DEF Hands
    <2>4. PaidIsApply'
      BY <1>8 DEF IInv, PaidIsApply, TypeOK, DoDidCellTx, Head, UpdatePayStatus
    <2>5. OpenHands'
      BY <1>8 DEF IInv, OpenHands, TypeOK, DoDidCellTx, Head, UpdatePayStatus
    <2>6. RowIsMarked'
      <3>1. o \in todo["did"] /\ sending["did"] = {} /\ "did" \in Loops
        BY <1>8 DEF DoDidCellTx, Head, Loops
      <3>2. \A t \in Txs : row[t] # "none" /\ t \notin foreign => t[1] # o
        BY <3>1, Listed
      <3> QED BY <1>8, <3>1, <3>2, TxFacts DEF DoDidCellTx, UpdatePayStatus, IInv, RowIsMarked, TypeOK
    <2>7. Bounded'
      BY <1>8 DEF IInv, Bounded, TypeOK, DoDidCellTx, Head, UpdatePayStatus
    <2>8. SentIsMarked'
      <3>1. o \in todo["did"] /\ sending["did"] = {} /\ "did" \in Loops
        BY <1>8 DEF DoDidCellTx, Head, Loops
      <3>2. "lost" \notin Faults => sent[o] = 0
        BY <3>1, Listed
      <3> QED BY <1>8, <3>1, <3>2 DEF DoDidCellTx, UpdatePayStatus, IInv, SentIsMarked, TypeOK
    <2>9. RefundIsFinal'
      <3>1. o \in todo["did"] /\ sending["did"] = {} /\ "did" \in Loops
        BY <1>8 DEF DoDidCellTx, Head, Loops
      <3>2. payStatus[o] = "Sending"
        BY <3>1, Listed
      <3> QED BY <1>8, <3>1, <3>2, PayFacts DEF DoDidCellTx, UpdatePayStatus, IInv, RefundIsFinal, TypeOK
    <2>10. UNCHANGED <<orderStatus, hedgeStatus, row, foreign, pool, sent, committed, blocks, parsing>>
      BY <1>8 DEF DoDidCellTx
    <2> QED BY <2>1, <2>2, <2>3, <2>4, <2>5, <2>6, <2>7, <2>8, <2>9, <2>10, Frame DEF IInv
  <1>9. ASSUME NEW o \in Orders, DidCellSendFails(o) PROVE IInv'
    <2>1. TypeOK'
      <3>1. o \in sending["did"] /\ "did" \in Loops /\ (NodeTakes(o) \/ UNCHANGED chainVars)
        BY <1>9 DEF DidCellSendFails, SendError, Loops
      <3>2. orderStatus' \in [Orders -> {"none", "open", "closed"}] /\ refund' \subseteq Pays
        BY <1>9 DEF DidCellSendFails, Close, PaidFor, IInv, TypeOK
      <3>3. todo' \in [Loops -> SUBSET Orders] /\ sending' \in [Loops -> SUBSET Orders]
        BY <1>9 DEF DidCellSendFails, Abort, IInv, TypeOK
      <3>4. /\ pool' \in [Accounts -> SUBSET Txs] /\ sent' \in [Orders -> 0..MaxSend]
            /\ UNCHANGED <<cell, seen, cross, committed>>
        BY <3>1, Delivery
      <3> QED BY <1>9, <3>2, <3>3, <3>4 DEF DidCellSendFails, IInv, TypeOK
    <2>2. Fresh'
      BY <1>9 DEF IInv, Fresh, TypeOK, DidCellSendFails, SendError, NodeTakes, Close, Abort, PaidFor
    <2>3. Hands'
      BY <1>9 DEF IInv, Hands, TypeOK, DidCellSendFails, SendError, NodeTakes, Close, Abort, PaidFor
    <2>4. OpenHands'
      <3>1. o \in sending["did"] /\ "did" \in Loops /\ (NodeTakes(o) \/ UNCHANGED chainVars)
        BY <1>9 DEF DidCellSendFails, SendError, Loops
      <3>2. \A q \in Orders : q # o => orderStatus'[q] = orderStatus[q]
        BY <1>9 DEF DidCellSendFails, Close, IInv, TypeOK
      <3>3. \A m \in Loops : /\ sending'[m] = IF m = "did" THEN {} ELSE sending[m]
                             /\ todo'[m] = IF m = "did" THEN {} ELSE todo[m]
        BY <1>9 DEF DidCellSendFails, Abort, IInv, TypeOK
      <3>4. \A m \in Loops : m # "did" => o \notin sending[m] /\ o \notin todo[m]
        BY <3>1, Held
      <3> QED BY <3>2, <3>3, <3>4, ToolFacts DEF IInv, OpenHands
    <2>5. RowIsMarked'
      BY <1>9 DEF IInv, RowIsMarked, TypeOK, DidCellSendFails, SendError, NodeTakes, Close, Abort, PaidFor
    <2>6. Numbered'
      <3>1. o \in sending["did"] /\ "did" \in Loops /\ (NodeTakes(o) \/ UNCHANGED chainVars)
        BY <1>9 DEF DidCellSendFails, SendError, Loops
      <3>2. row' = row /\ \A q \in Orders : orderStatus[q] # "none" => orderStatus'[q] # "none"
        BY <1>9 DEF DidCellSendFails, Close, IInv, TypeOK
      <3> QED BY <3>1, <3>2, Delivery DEF IInv, Numbered
    <2>7. Bounded'
      <3>1. o \in sending["did"] /\ "did" \in Loops /\ (NodeTakes(o) \/ UNCHANGED chainVars)
        BY <1>9 DEF DidCellSendFails, SendError, Loops
      <3>2. \A q \in Orders : q # o => orderStatus'[q] = orderStatus[q]
        BY <1>9 DEF DidCellSendFails, Close, IInv, TypeOK
      <3>3. \A m \in Loops : /\ sending'[m] = IF m = "did" THEN {} ELSE sending[m]
                             /\ todo'[m] = IF m = "did" THEN {} ELSE todo[m]
        BY <1>9 DEF DidCellSendFails, Abort, IInv, TypeOK
      <3>4. \A m \in Loops : m # "did" => o \notin sending[m]
        BY <3>1, Held
      <3>5. \A q \in Orders : q # o => sent'[q] = sent[q]
        BY <3>1, Delivery
      <3> QED BY <3>3, <3>4, <3>5, ToolFacts DEF IInv, Bounded
    <2>8. SentIsMarked'
      BY <1>9 DEF IInv, SentIsMarked, TypeOK, DidCellSendFails, SendError, NodeTakes, Close, Abort, PaidFor
    <2>9. RefundIsFinal'
      <3>1. o \in sending["did"] /\ "did" \in Loops /\ (NodeTakes(o) \/ UNCHANGED chainVars)
        BY <1>9 DEF DidCellSendFails, SendError, Loops
      <3>2. "lost" \notin Faults => sent' = sent /\ sent[o] = 0
        BY <1>9, <3>1, Held DEF DidCellSendFails, SendError
      <3>3. refund' \subseteq refund \cup {p \in Pays : OrderOf[p] = o}
        BY <1>9 DEF DidCellSendFails, PaidFor, IInv, TypeOK
      <3>4. sending'["did"] = {} /\ payStatus' = payStatus
        BY <1>9, <3>1 DEF DidCellSendFails, IInv, TypeOK
      <3>5. o \in DidOrders /\ payStatus[o] = "Ok"
        BY <3>1, Held DEF LoopOrders
      <3> QED BY <3>2, <3>3, <3>4, <3>5 DEF IInv, RefundIsFinal
    <2>10. ParsingOrder'
      <3>1. \A q \in Orders : orderStatus[q] = "closed" => orderStatus'[q] = "closed"
        BY <1>9 DEF DidCellSendFails, Close, IInv, TypeOK
      <3> QED BY <1>9, <3>1, TxFacts DEF DidCellSendFails, IInv, ParsingOrder
    <2>11. HandledIsComplete'
      <3>1. \A q \in Orders : orderStatus[q] = "closed" => orderStatus'[q] = "closed"
        BY <1>9 DEF DidCellSendFails, Close, IInv, TypeOK
      <3>2. committed' = committed
        BY <1>9 DEF DidCellSendFails, SendError, NodeTakes
      <3> QED BY <1>9, <3>1, <3>2, TxFacts DEF DidCellSendFails, IInv, TypeOK, HandledIsComplete
    <2>12. UNCHANGED <<payStatus, regStatus, hedgeStatus, committed>>
      BY <1>9 DEF DidCellSendFails, SendError, NodeTakes
    <2> QED BY <2>1, <2>2, <2>3, <2>4, <2>5, <2>6, <2>7, <2>8, <2>9, <2>10, <2>11, <2>12, Frame DEF IInv
  <1> QED BY <1>1, <1>2, <1>3, <1>4, <1>5, <1>6, <1>7, <1>8, <1>9 DEF TxToolNext

LEMMA ChainInv == IInv /\ ChainNext => IInv'
  <1> SUFFICES ASSUME IInv, ChainNext PROVE IInv'
    OBVIOUS
  <1> USE DEF orderVars, payVars, didVars, rowVars, toolVars, chainVars, parseVars
  <1>1. ASSUME NEW t \in Txs, Commit(t) PROVE IInv'
    <2>1. TypeOK'
      <3>1. Acct(t[1]) \in Accounts
        BY TxFacts, RenewalAssumption DEF Acct
      <3>2. pool' \in [Accounts -> SUBSET Txs] /\ cell' \in [Accounts -> Nat]
        BY <1>1, <3>1 DEF Commit, IInv, TypeOK
      <3>3. committed' \subseteq Txs /\ blocks' \subseteq committed'
        BY <1>1 DEF Commit, IInv, TypeOK
      <3> QED BY <1>1, <3>2, <3>3 DEF Commit, IInv, TypeOK
    <2>2. Numbered'
      BY <1>1 DEF IInv, Numbered, TypeOK, Commit
    <2>3. ParsingOrder'
      BY <1>1 DEF IInv, ParsingOrder, TypeOK, Commit
    <2>4. HedgedIsServed'
      BY <1>1 DEF IInv, HedgedIsServed, TypeOK, Commit
    <2>5. HandledIsComplete'
      BY <1>1 DEF IInv, HandledIsComplete, TypeOK, Commit
    <2>6. UNCHANGED <<orderStatus, payStatus, regStatus, refund, row, foreign, todo, sending, sent>>
      BY <1>1 DEF Commit
    <2> QED BY <2>1, <2>2, <2>3, <2>4, <2>5, <2>6, Frame DEF IInv
  <1>2. ASSUME NEW t \in Txs, Reject(t) PROVE IInv'
    <2>1. TypeOK'
      BY <1>2 DEF IInv, TypeOK, Reject
    <2>2. Numbered'
      BY <1>2 DEF IInv, Numbered, TypeOK, Reject
    <2>3. UNCHANGED <<orderStatus, payStatus, regStatus, hedgeStatus, refund, row, foreign, todo, sending, sent, committed, blocks, parsing>>
      BY <1>2 DEF Reject
    <2> QED BY <2>1, <2>2, <2>3, Frame DEF IInv
  <1>3. ASSUME NEW a \in Accounts, OtherTx(a) PROVE IInv'
    <2>1. TypeOK'
      BY <1>3 DEF IInv, TypeOK, OtherTx
    <2>2. UNCHANGED <<orderStatus, payStatus, regStatus, hedgeStatus, refund, row, foreign, todo, sending, pool, sent, committed, blocks, parsing>>
      BY <1>3 DEF OtherTx
    <2> QED BY <2>1, <2>2, Frame DEF IInv
  <1>4. ASSUME NEW a \in Accounts, SyncAccount(a) PROVE IInv'
    <2>1. TypeOK'
      BY <1>4 DEF IInv, TypeOK, SyncAccount
    <2>2. UNCHANGED <<orderStatus, payStatus, regStatus, hedgeStatus, refund, row, foreign, todo, sending, pool, sent, committed, blocks, parsing>>
      BY <1>4 DEF SyncAccount
    <2> QED BY <2>1, <2>2, Frame DEF IInv
  <1>5. ASSUME NEW a \in Accounts, OnCross(a) PROVE IInv'
    <2>1. TypeOK'
      BY <1>5 DEF IInv, TypeOK, OnCross
    <2>2. UNCHANGED <<orderStatus, payStatus, regStatus, hedgeStatus, refund, row, foreign, todo, sending, pool, sent, committed, blocks, parsing>>
      BY <1>5 DEF OnCross
    <2> QED BY <2>1, <2>2, Frame DEF IInv
  <1> QED BY <1>1, <1>2, <1>3, <1>4, <1>5 DEF ChainNext

LEMMA ParserInv == IInv /\ ParserNext => IInv'
  <1> SUFFICES ASSUME IInv, ParserNext PROVE IInv'
    OBVIOUS
  <1> USE DEF orderVars, payVars, didVars, rowVars, toolVars, chainVars, parseVars
  <1>1. ASSUME NEW t \in Txs, ActionTransferAccount(t) PROVE IInv'
    <2>1. TypeOK'
      BY <1>1 DEF IInv, TypeOK, ActionTransferAccount, Parsed
    <2>2. ParsingOrder'
      BY <1>1 DEF IInv, ParsingOrder, TypeOK, ActionTransferAccount, Parsed
    <2>3. HandledIsComplete'
      BY <1>1 DEF IInv, HandledIsComplete, TypeOK, ActionTransferAccount, Parsed
    <2>4. UNCHANGED <<orderStatus, payStatus, regStatus, hedgeStatus, refund, row, foreign, todo, sending, pool, sent, committed>>
      BY <1>1 DEF ActionTransferAccount
    <2> QED BY <2>1, <2>2, <2>3, <2>4, Frame DEF IInv
  <1>2. ASSUME NEW t \in Txs, ActionRenewUnknown(t) PROVE IInv'
    <2>1. TypeOK'
      BY <1>2 DEF IInv, TypeOK, ActionRenewUnknown, Parsed
    <2>2. RowIsMarked'
      BY <1>2 DEF IInv, RowIsMarked, TypeOK, ActionRenewUnknown, Parsed
    <2>3. Numbered'
      BY <1>2 DEF IInv, Numbered, TypeOK, ActionRenewUnknown, Parsed
    <2>4. ParsingOrder'
      BY <1>2 DEF IInv, ParsingOrder, TypeOK, ActionRenewUnknown, Parsed
    <2>5. HandledIsComplete'
      BY <1>2 DEF IInv, HandledIsComplete, TypeOK, ActionRenewUnknown, Parsed
    <2>6. UNCHANGED <<orderStatus, payStatus, regStatus, hedgeStatus, refund, todo, sending, sent, committed>>
      BY <1>2 DEF ActionRenewUnknown
    <2> QED BY <2>1, <2>2, <2>3, <2>4, <2>5, <2>6, Frame DEF IInv
  <1>3. ASSUME NEW t \in Txs, RenewClose(t) PROVE IInv'
    <2>1. TypeOK'
      BY <1>3 DEF IInv, TypeOK, RenewClose, Close
    <2>2. Fresh'
      BY <1>3 DEF IInv, Fresh, TypeOK, RenewClose, Close
    <2>3. OpenHands'
      <3>1. payStatus[t[1]] = "Ok" /\ \A l \in Loops : t[1] \notin sending[l]
        BY <1>3 DEF RenewClose, IInv, RowIsMarked
      <3>2. \A l \in Loops : t[1] \notin todo[l]
        BY <3>1 DEF IInv, Hands
      <3>3. \A q \in Orders : q # t[1] => orderStatus'[q] = orderStatus[q]
        BY <1>3 DEF RenewClose, Close, IInv, TypeOK
      <3>4. UNCHANGED <<todo, sending>>
        BY <1>3 DEF RenewClose
      <3> QED BY <3>1, <3>2, <3>3, <3>4, ToolFacts DEF IInv, OpenHands
    <2>4. Numbered'
      BY <1>3 DEF IInv, Numbered, TypeOK, RenewClose, Close
    <2>5. ParsingOrder'
      <3>1. t[1] \in Orders /\ t[2] \in Nat /\ sent[t[1]] \in Nat /\ t[2] > 0
        BY TxFacts DEF IInv, TypeOK
      <3>2. sent[t[1]] > 0
        BY <1>3, <3>1 DEF RenewClose, IInv, Numbered
      <3>3. orderStatus[t[1]] # "none"
        BY <3>1, <3>2 DEF IInv, Numbered
      <3>4. orderStatus'[t[1]] = "closed"
        BY <1>3, <3>1, <3>3 DEF RenewClose, Close, IInv, TypeOK
      <3>5. \A u \in Txs : parsing' # <<u, "confirm">> /\ (parsing' = <<u, "hedge">> => u = t)
        BY <1>3 DEF RenewClose
      <3> QED BY <1>3, <3>4, <3>5 DEF RenewClose, ParsingOrder
    <2>6. HandledIsComplete'
      BY <1>3 DEF IInv, HandledIsComplete, TypeOK, RenewClose, Close
    <2>7. UNCHANGED <<payStatus, regStatus, hedgeStatus, refund, row, foreign, todo, sending, sent, committed>>
      BY <1>3 DEF RenewClose
    <2> QED BY <2>1, <2>2, <2>3, <2>4, <2>5, <2>6, <2>7, Frame DEF IInv
  <1>4. ASSUME NEW t \in Txs, RenewHedge(t) PROVE IInv'
    <2>1. TypeOK'
      BY <1>4 DEF IInv, TypeOK, RenewHedge
    <2>2. ParsingOrder'
      <3>1. /\ t \in blocks /\ row[t] # "none" /\ t \notin foreign
            /\ orderStatus[t[1]] = "closed"
        BY <1>4 DEF RenewHedge, IInv, ParsingOrder
      <3>2. hedgeStatus'[t[1]] # "Default"
        BY <1>4, TxFacts DEF RenewHedge, IInv, TypeOK
      <3>3. \A u \in Txs : parsing' # <<u, "hedge">> /\ (parsing' = <<u, "confirm">> => u = t)
        BY <1>4 DEF RenewHedge
      <3> QED BY <1>4, <3>1, <3>2, <3>3 DEF RenewHedge, ParsingOrder
    <2>3. HedgedIsServed'
      <3>1. t \in committed
        BY <1>4 DEF RenewHedge, IInv, ParsingOrder, TypeOK
      <3>2. \A o \in Orders : o # t[1] => hedgeStatus'[o] = hedgeStatus[o]
        BY <1>4 DEF RenewHedge, IInv, TypeOK
      <3>3. committed' = committed
        BY <1>4 DEF RenewHedge
      <3> QED BY <3>1, <3>2, <3>3 DEF IInv, HedgedIsServed
    <2>4. HandledIsComplete'
      BY <1>4 DEF IInv, HandledIsComplete, TypeOK, RenewHedge
    <2>5. UNCHANGED <<orderStatus, payStatus, regStatus, refund, row, foreign, todo, sending, pool, sent, committed>>
      BY <1>4 DEF RenewHedge
    <2> QED BY <2>1, <2>2, <2>3, <2>4, <2>5, Frame DEF IInv
  <1>5. ASSUME NEW t \in Txs, RenewConfirm(t) PROVE IInv'
    <2>1. TypeOK'
      BY <1>5 DEF IInv, TypeOK, RenewConfirm, Parsed
    <2>2. RowIsMarked'
      <3>1. /\ t \in blocks /\ row[t] # "none" /\ t \notin foreign
            /\ orderStatus[t[1]] = "closed" /\ hedgeStatus[t[1]] # "Default"
        BY <1>5 DEF RenewConfirm, IInv, ParsingOrder
      <3>2. \A u \in Txs : row'[u] = IF u = t THEN "Confirm" ELSE row[u]
        BY <1>5 DEF RenewConfirm, IInv, TypeOK
      <3> QED BY <1>5, <3>1, <3>2 DEF RenewConfirm, IInv, RowIsMarked
    <2>3. Numbered'
      <3>1. /\ t \in blocks /\ row[t] # "none" /\ t \notin foreign
            /\ orderStatus[t[1]] = "closed" /\ hedgeStatus[t[1]] # "Default"
        BY <1>5 DEF RenewConfirm, IInv, ParsingOrder
      <3>2. \A u \in Txs : row'[u] = IF u = t THEN "Confirm" ELSE row[u]
        BY <1>5 DEF RenewConfirm, IInv, TypeOK
      <3> QED BY <1>5, <3>1, <3>2 DEF RenewConfirm, IInv, Numbered
    <2>4. ParsingOrder'
      BY <1>5 DEF IInv, ParsingOrder, TypeOK, RenewConfirm, Parsed
    <2>5. HandledIsComplete'
      <3>1. /\ t \in blocks /\ row[t] # "none" /\ t \notin foreign
            /\ orderStatus[t[1]] = "closed" /\ hedgeStatus[t[1]] # "Default"
        BY <1>5 DEF RenewConfirm, IInv, ParsingOrder
      <3>2. \A u \in Txs : row'[u] = IF u = t THEN "Confirm" ELSE row[u]
        BY <1>5 DEF RenewConfirm, IInv, TypeOK
      <3>3. committed \subseteq Txs /\ blocks \ {t} \subseteq blocks'
        BY <1>5 DEF RenewConfirm, Parsed, IInv, TypeOK
      <3> QED BY <1>5, <3>1, <3>2, <3>3 DEF RenewConfirm, IInv, HandledIsComplete
    <2>6. UNCHANGED <<orderStatus, payStatus, regStatus, hedgeStatus, refund, todo, sending, sent, committed>>
      BY <1>5 DEF RenewConfirm
    <2> QED BY <2>1, <2>2, <2>3, <2>4, <2>5, <2>6, Frame DEF IInv
  <1>6. ASSUME NEW t \in Txs, ParseFails(t) PROVE IInv'
    <2>1. TypeOK'
      BY <1>6 DEF IInv, TypeOK, ParseFails
    <2>2. ParsingOrder'
      BY <1>6 DEF IInv, ParsingOrder, TypeOK, ParseFails
    <2>3. UNCHANGED <<orderStatus, payStatus, regStatus, hedgeStatus, refund, row, foreign, todo, sending, pool, sent, committed, blocks>>
      BY <1>6 DEF ParseFails
    <2> QED BY <2>1, <2>2, <2>3, Frame DEF IInv
  <1> QED BY <1>1, <1>2, <1>3, <1>4, <1>5, <1>6 DEF ParserNext

LEMMA TimerInv == IInv /\ TimerNext => IInv'
  <1> SUFFICES ASSUME IInv, TimerNext PROVE IInv'
    OBVIOUS
  <1> USE DEF orderVars, payVars, didVars, rowVars, toolVars, chainVars, parseVars
  <1>1. ASSUME NEW o \in Orders, CheckExpired(o) PROVE IInv'
    <2>1. TypeOK'
      BY <1>1 DEF IInv, TypeOK, CheckExpired, Close
    <2>2. Fresh'
      BY <1>1 DEF IInv, Fresh, TypeOK, CheckExpired, Close
    <2>3. OpenHands'
      <3>1. ASSUME NEW l \in Loops, NEW q \in todo[l] \cup sending[l], q \notin InternalOrders
            PROVE  regStatus[q] = "ApplyRegister" /\ q \in Orders
        <4>1. q \in Orders /\ payStatus[q] # "Default"
          BY <3>1, ToolFacts DEF IInv, Hands
        <4> QED BY <3>1, <4>1 DEF IInv, PaidIsApply
      <3>2. \A q \in Orders : q # o => orderStatus'[q] = orderStatus[q]
        BY <1>1 DEF CheckExpired, Close, IInv, TypeOK
      <3>3. UNCHANGED <<todo, sending>> /\ regStatus[o] # "ApplyRegister"
        BY <1>1 DEF CheckExpired
      <3> QED BY <3>1, <3>2, <3>3 DEF IInv, OpenHands
    <2>4. Numbered'
      BY <1>1 DEF IInv, Numbered, TypeOK, CheckExpired, Close
    <2>5. ParsingOrder'
      BY <1>1 DEF IInv, ParsingOrder, TypeOK, CheckExpired, Close
    <2>6. HandledIsComplete'
      BY <1>1 DEF IInv, HandledIsComplete, TypeOK, CheckExpired, Close
    <2>7. UNCHANGED <<payStatus, regStatus, hedgeStatus, refund, row, foreign, todo, sending, sent, committed>>
      BY <1>1 DEF CheckExpired
    <2> QED BY <2>1, <2>2, <2>3, <2>4, <2>5, <2>6, <2>7, Frame DEF IInv
  <1>2. ASSUME NEW o \in Orders, DoCheckClosedAndUnRefund(o) PROVE IInv'
    <2>1. TypeOK'
      BY <1>2 DEF IInv, TypeOK, DoCheckClosedAndUnRefund, ClosedAndUnRefund, PaidFor
    <2>2. RefundIsFinal'
      BY <1>2 DEF IInv, RefundIsFinal, TypeOK, DoCheckClosedAndUnRefund, ClosedAndUnRefund, PaidFor
    <2>3. UNCHANGED <<orderStatus, payStatus, regStatus, hedgeStatus, row, foreign, todo, sending, pool, sent, committed, blocks, parsing>>
      BY <1>2 DEF DoCheckClosedAndUnRefund
    <2> QED BY <2>1, <2>2, <2>3, Frame DEF IInv
  <1>3. ASSUME NEW o \in Orders, DoOrderHedge(o) PROVE IInv'
    <2>1. TypeOK'
      BY <1>3 DEF IInv, TypeOK, DoOrderHedge
    <2>2. ParsingOrder'
      BY <1>3 DEF IInv, ParsingOrder, TypeOK, DoOrderHedge
    <2>3. HedgedIsServed'
      BY <1>3 DEF IInv, HedgedIsServed, TypeOK, DoOrderHedge
    <2>4. HandledIsComplete'
      BY <1>3 DEF IInv, HandledIsComplete, TypeOK, DoOrderHedge
    <2>5. UNCHANGED <<orderStatus, payStatus, regStatus, refund, row, foreign, todo, sending, pool, sent, committed>>
      BY <1>3 DEF DoOrderHedge
    <2> QED BY <2>1, <2>2, <2>3, <2>4, <2>5, Frame DEF IInv
  <1>4. ASSUME NEW t \in Txs, DoTxRejected(t) PROVE IInv'
    <2>1. TypeOK'
      BY <1>4 DEF IInv, TypeOK, DoTxRejected
    <2>2. RowIsMarked'
      BY <1>4 DEF IInv, RowIsMarked, TypeOK, DoTxRejected
    <2>3. Numbered'
      BY <1>4 DEF IInv, Numbered, TypeOK, DoTxRejected
    <2>4. ParsingOrder'
      BY <1>4 DEF IInv, ParsingOrder, TypeOK, DoTxRejected
    <2>5. HandledIsComplete'
      BY <1>4 DEF IInv, HandledIsComplete, TypeOK, DoTxRejected
    <2>6. UNCHANGED <<orderStatus, payStatus, regStatus, hedgeStatus, refund, todo, sending, sent, committed>>
      BY <1>4 DEF DoTxRejected
    <2> QED BY <2>1, <2>2, <2>3, <2>4, <2>5, <2>6, Frame DEF IInv
  <1> QED BY <1>1, <1>2, <1>3, <1>4 DEF TimerNext
LEMMA CrashInv == IInv /\ Crash => IInv'
  <1> SUFFICES ASSUME IInv, Crash PROVE IInv'
    OBVIOUS
  <1> USE DEF orderVars, payVars, didVars, rowVars, chainVars
  <1>1. TypeOK'
    BY DEF IInv, TypeOK, Crash
  <1>2. \A l \in Loops : todo'[l] = {} /\ sending'[l] = {}
    BY DEF Crash
  <1>3. UNCHANGED <<orderVars, payVars, rowVars, chainVars, blocks>>
    BY DEF Crash
  <1>4. Hands' /\ OpenHands' /\ Bounded' /\ SentIsMarked'
    BY <1>2, <1>3 DEF IInv, Hands, OpenHands, Bounded, SentIsMarked
  <1>5. RowIsMarked' /\ RefundIsFinal'
    BY <1>2, <1>3 DEF IInv, RowIsMarked, RefundIsFinal, Loops
  <1>6. ParsingOrder'
    BY DEF Crash, ParsingOrder
  <1> QED BY <1>1, <1>3, <1>4, <1>5, <1>6, Frame DEF IInv

LEMMA InitIInv == Init => IInv
  <1> SUFFICES ASSUME Init PROVE IInv
    OBVIOUS
  <1>1. TypeOK
    BY RenewalAssumption DEF Init, TypeOK
  <1>2. Fresh /\ Hands /\ PaidIsApply /\ OpenHands /\ RowIsMarked
    BY DEF Init, Fresh, Hands, PaidIsApply, OpenHands, RowIsMarked
  <1>3. Numbered /\ Bounded /\ SentIsMarked /\ RefundIsFinal
    BY TxFacts, RenewalAssumption DEF Init, Numbered, Bounded, SentIsMarked, RefundIsFinal, Acct
  <1>4. ParsingOrder /\ HedgedIsServed /\ HandledIsComplete
    BY DEF Init, ParsingOrder, HedgedIsServed, HandledIsComplete
  <1> QED BY <1>1, <1>2, <1>3, <1>4 DEF IInv

LEMMA NextIInv == IInv /\ [Next]_vars => IInv'
  <1>1. IInv /\ Next => IInv'
    BY HttpInv, TxToolInv, ChainInv, ParserInv, TimerInv, CrashInv DEF Next
  <1>2. IInv /\ UNCHANGED vars => IInv'
    <2> SUFFICES ASSUME IInv, UNCHANGED vars PROVE IInv'
      OBVIOUS
    <2> USE DEF vars, orderVars, payVars, didVars, rowVars, toolVars, chainVars, parseVars
    <2>1. TypeOK'
      BY DEF IInv, TypeOK
    <2> QED BY <2>1, Frame DEF IInv
  <1> QED BY <1>1, <1>2

\* The conjunction of the parts holds in every reachable state.
THEOREM Inductive == Spec => []IInv
  BY InitIInv, NextIInv, PTL DEF Spec

-----------------------------------------------------------------------------
(* What follows from it.                                                   *)

\* Columns, lists, cells and transactions keep their types.
THEOREM TypeCorrect == Spec => []TypeOK
  <1>1. IInv => TypeOK
    BY DEF IInv
  <1> QED BY <1>1, Inductive, PTL

LEMMA OneTransaction == IInv /\ "lost" \notin Faults => ServedOnce
  <1> SUFFICES ASSUME IInv, "lost" \notin Faults, NEW o \in Orders,
                      NEW t \in committed, NEW u \in committed, t[1] = o, u[1] = o
               PROVE  t = u
    BY DEF ServedOnce
  <1>1. t \in Txs /\ u \in Txs
    BY DEF IInv, TypeOK
  <1>2. /\ t = <<o, t[2]>> /\ t[2] \in Nat /\ t[2] >= 1
        /\ u = <<o, u[2]>> /\ u[2] \in Nat /\ u[2] >= 1
    BY <1>1, TxFacts
  <1>3. t[2] <= sent[o] /\ u[2] <= sent[o] /\ sent[o] \in Nat
    BY <1>1 DEF IInv, Numbered, TypeOK
  <1>4. sent[o] = 1
    BY <1>2, <1>3 DEF IInv, SentIsMarked
  <1> QED BY <1>2, <1>3, <1>4

\* As long as txtool learns whether the node took a transaction, it serves no
\* order twice, whatever else fails, crashes, is repeated or runs late.
THEOREM NeverServedTwice == "lost" \notin Faults => (Spec => []ServedOnce)
  <1> SUFFICES ASSUME "lost" \notin Faults PROVE Spec => []ServedOnce
    OBVIOUS
  <1>1. IInv => ServedOnce
    BY OneTransaction
  <1> QED BY <1>1, Inductive, PTL

LEMMA RefundOrService == IInv /\ "lost" \notin Faults => ServedNotRefunded
  <1> SUFFICES ASSUME IInv, "lost" \notin Faults, NEW p \in refund,
                      NEW t \in committed \cup pool[Acct(OrderOf[p])], t[1] = OrderOf[p]
               PROVE  FALSE
    BY DEF ServedNotRefunded
  <1>1. OrderOf[p] \in Orders
    BY PayFacts DEF IInv, TypeOK
  <1>2. t \in Txs /\ sent[t[1]] \in Nat
    BY <1>1, RenewalAssumption DEF IInv, TypeOK, Acct
  <1>3. t[2] <= sent[t[1]] /\ t[2] \in Nat /\ t[2] >= 1
    BY <1>2, TxFacts DEF IInv, Numbered
  <1>4. sent[t[1]] > 0
    BY <1>2, <1>3
  <1>5. OrderOf[p] \notin RegisterOrders
    BY <1>1, <1>4 DEF IInv, Numbered
  <1>6. sent[OrderOf[p]] = 0
    BY <1>5 DEF IInv, RefundIsFinal
  <1> QED BY <1>4, <1>6

\* On the same condition nobody is served and paid back as well.
THEOREM NeverServedAndRefunded == "lost" \notin Faults => (Spec => []ServedNotRefunded)
  <1> SUFFICES ASSUME "lost" \notin Faults PROVE Spec => []ServedNotRefunded
    OBVIOUS
  <1>1. IInv => ServedNotRefunded
    BY RefundOrService
  <1> QED BY <1>1, Inductive, PTL

\* Without any condition: DoActionRenewAccount hedges only what is on chain.
THEOREM HedgedOnlyIfServed == Spec => []HedgedIsServed
  <1>1. IInv => HedgedIsServed
    BY DEF IInv
  <1> QED BY <1>1, Inductive, PTL

\* Without any condition: a block that counts as handled has had all three
\* updates of DoActionRenewAccount, although two are not in its transaction.
THEOREM HandledCompletely == Spec => []HandledIsComplete
  <1>1. IInv => HandledIsComplete
    BY DEF IInv
  <1> QED BY <1>1, Inductive, PTL

\* Only an order in the hands of txtool is sent.
LEMMA SentFromHands ==
    ASSUME IInv, Next
    PROVE  \A o \in Orders : sent'[o] # sent[o] => \E l \in Loops : o \in sending[l]
  <1>1. CASE HttpNext
    BY <1>1 DEF HttpNext, DoRenewOrder, DoInternalRenewOrder, DoDidCellRenew, DoDidCellEditOwner,
             CreateDidCellOrder, DoRegisterOrder,
       CreateOrder, TransactionSend, CacheExpires, UpdatePayment, chainVars
  <1>2. CASE TxToolNext
    <2>1. ASSUME NEW o \in Orders, NEW l \in Loops, o \in sending[l],
                 NodeTakes(o) \/ UNCHANGED chainVars
          PROVE  \A q \in Orders : sent'[q] # sent[q] => q \in sending[l]
      BY <2>1, Delivery
    <2>2. ASSUME NEW l \in Loops, List(l) \/ BatchFails(l) PROVE sent' = sent
      BY <2>2 DEF List, BatchFails, chainVars
    <2>3. ASSUME NEW l \in Loops, NEW o \in Orders, Sent(l, o)
          PROVE  \A q \in Orders : sent'[q] # sent[q] => q \in sending[l]
      BY <2>1, <2>3 DEF Sent
    <2>4. ASSUME NEW o \in Orders, OrderOnCross(o) \/ DoOrderRenewTx(o) \/ DidCellNoCache(o) \/ DoDidCellTx(o)
          PROVE  sent' = sent
      BY <2>4 DEF OrderOnCross, DoOrderRenewTx, DidCellNoCache, DoDidCellTx, chainVars
    <2>5. ASSUME NEW o \in Orders, RenewSendFails(o)
          PROVE  \A q \in Orders : sent'[q] # sent[q] => q \in sending["renew"]
      BY <2>1, <2>5 DEF RenewSendFails, SendError, Loops
    <2>6. ASSUME NEW o \in Orders, DidCellSendFails(o)
          PROVE  \A q \in Orders : sent'[q] # sent[q] => q \in sending["did"]
      BY <2>1, <2>6 DEF DidCellSendFails, SendError, Loops
    <2>7. "renew" \in Loops /\ "did" \in Loops
      BY DEF Loops
    <2> QED BY <1>2, <2>2, <2>3, <2>4, <2>5, <2>6, <2>7 DEF TxToolNext
  <1>3. CASE ChainNext
    BY <1>3 DEF ChainNext, Commit, Reject, OtherTx, SyncAccount, OnCross
  <1>4. CASE ParserNext
    BY <1>4 DEF ParserNext, ActionTransferAccount, ActionRenewUnknown, RenewClose, RenewHedge,
       RenewConfirm, ParseFails, chainVars
  <1>5. CASE TimerNext
    BY <1>5 DEF TimerNext, CheckExpired, DoCheckClosedAndUnRefund, DoOrderHedge, DoTxRejected, chainVars
  <1>6. CASE Crash
    BY <1>6 DEF Crash, chainVars
  <1> QED BY <1>1, <1>2, <1>3, <1>4, <1>5, <1>6 DEF Next

\* A customer's order that expiry, the cross check, a refund or block_parser
\* has closed is never sent, although the mark does not look at order_status.
THEOREM ClosedNeverSent == Spec => ClosedNotSent
  <1>1. IInv /\ [Next]_vars =>
          [\A o \in Orders \ InternalOrders : sent'[o] # sent[o] => orderStatus[o] = "open"]_vars
    <2> SUFFICES ASSUME IInv, Next, NEW o \in Orders \ InternalOrders, sent'[o] # sent[o]
                 PROVE  orderStatus[o] = "open"
      OBVIOUS
    <2>1. PICK l \in Loops : o \in sending[l]
      BY SentFromHands
    <2> QED BY <2>1 DEF IInv, OpenHands
  <1> QED BY <1>1, Inductive, PTL DEF Spec, ClosedNotSent

=============================================================================
