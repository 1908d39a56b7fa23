--------------------------- MODULE PendingTxProofs ---------------------------
(***************************************************************************)
(* Theorems about module PendingTx, for any number of requests, users and  *)
(* coins and every scenario: what a handler checked on a stale row still   *)
(* holds of the cell its transaction spends, and what the database says of *)
(* a transaction is true.                                                  *)
(***************************************************************************)
EXTENDS PendingTx, TLAPS

-----------------------------------------------------------------------------
(* The inductive invariant.                                                *)

\* What a handler checked, said of the account cell c at time n.
AccPermits(t, c, n) ==
    /\ t.handler \in {"EditOwner", "EditManager", "EditScript", "EditRecords",
                      "DidCellEditRecord", "Bid"}
    /\ t.handler \in {"EditOwner", "EditManager", "EditScript"} => c.owner = t.user
    /\ t.handler \in {"EditRecords", "DidCellEditRecord"} => c.manager = t.user
    /\ t.handler = "Bid" => c.expiry + Grace < n

\* The same of the did cell.
DidPermits(t, c, n) ==
    /\ c.owner = t.user
    /\ t.handler = "DidCellRecycle" => c.expiry + Grace <= n

\* A transaction was built on one cell and fits it.  Cells never change, so this
\* stays true however old the cell gets.
Fits(t, a, d, n) ==
    /\ t.acc # 0 => /\ t.acc \in 1..Len(a) /\ t.out \in Cells
                    /\ AccPermits(t, a[t.acc], n) /\ Kept(t, a[t.acc], t.out)
    /\ t.did # 0 => /\ t.did \in 1..Len(d) /\ t.out \in Cells
                    /\ DidPermits(t, d[t.did], n) /\ Kept(t, d[t.did], t.out)

Built == \A r \in Requests : tx[r] # NoTx => Fits(tx[r], acc, did, now)

\* Only what was built is signed and sent, and block_parser sees only what is
\* committed.
Sent ==
    /\ \A r \in Requests : (r \in signable \/ node[r] # "none") => tx[r] # NoTx
    /\ \A r \in blocks : node[r] = "committed"

\* What checkRejected listed has a row; if the transaction was committed and
\* handled since the node was asked, the row was confirmed.
Listed ==
    /\ \A r \in list \cup rejectedIDs : row[r] # "none"
    /\ \A r \in rejectedIDs :
          (node[r] = "committed" /\ r \notin blocks /\ Confirmable(tx[r])) => row[r] = "Confirm"

IInv == TypeOK /\ Built /\ Sent /\ Listed /\ ConfirmedIsCommitted /\ HandledNotRejected

-----------------------------------------------------------------------------
(* Cells and sequences of cells.                                           *)

\* Appending a cell changes none of those before it.
LEMMA AppendFacts ==
    ASSUME NEW s \in Seq(Cells), NEW e \in Cells
    PROVE  /\ Append(s, e) \in Seq(Cells) /\ Len(Append(s, e)) = Len(s) + 1
           /\ \A i \in 1..Len(s) : Append(s, e)[i] = s[i]
           /\ Append(s, e)[Len(s) + 1] = e
    OBVIOUS

\* Every field of a cell may be replaced by a value of its type.
LEMMA CellFacts ==
    ASSUME NEW c \in Cells
    PROVE  /\ c.owner \in Users /\ c.manager \in Users /\ c.expiry \in Nat
           /\ c.status \in {"Normal", "OnCross", "OnUpgrade", "Recycled"}
           /\ \A u \in Users : /\ [c EXCEPT !.owner = u, !.manager = u] \in Cells
                               /\ [c EXCEPT !.manager = u] \in Cells
           /\ \A n \in Nat : [c EXCEPT !.expiry = n] \in Cells
           /\ [c EXCEPT !.status = "OnUpgrade"] \in Cells
           /\ [c EXCEPT !.status = "OnCross"] \in Cells
           /\ [c EXCEPT !.status = "Recycled"] \in Cells
    BY DEF Cells

\* What grows by at most one cell.
Grown(s, s2) == s2 = s \/ \E e \in Cells : s2 = Append(s, e)

\* A transaction goes on fitting its cell when cells are appended and time passes.
LEMMA FitsGrown ==
    ASSUME NEW t, NEW a \in Seq(Cells), NEW d \in Seq(Cells), NEW n \in Nat,
           NEW a2, NEW d2, NEW n2 \in Nat,
           Grown(a, a2), Grown(d, d2), n <= n2, Fits(t, a, d, n)
    PROVE  Fits(t, a2, d2, n2)
    <1>1. /\ Len(a) <= Len(a2) /\ \A i \in 1..Len(a) : a2[i] = a[i]
          /\ Len(a2) \in Nat
        BY AppendFacts DEF Grown
    <1>2. /\ Len(d) <= Len(d2) /\ \A i \in 1..Len(d) : d2[i] = d[i]
          /\ Len(d2) \in Nat
        BY AppendFacts DEF Grown
    <1>3. ASSUME t.acc # 0
          PROVE  /\ t.acc \in 1..Len(a2) /\ t.out \in Cells
                 /\ AccPermits(t, a2[t.acc], n2) /\ Kept(t, a2[t.acc], t.out)
      <2>1. t.acc \in 1..Len(a2) /\ t.out \in Cells /\ a2[t.acc] = a[t.acc] /\ a[t.acc] \in Cells
          BY <1>1, <1>3 DEF Fits
      <2>2. AccPermits(t, a[t.acc], n) /\ Kept(t, a[t.acc], t.out)
          BY <1>3 DEF Fits
      <2>3. a[t.acc].expiry \in Nat /\ Grace \in Nat
          BY <2>1, CellFacts, PendingTxAssumption
      <2>4. AccPermits(t, a[t.acc], n2)
          BY <2>2, <2>3 DEF AccPermits
      <2> QED BY <2>1, <2>2, <2>4
    <1>4. ASSUME t.did # 0
          PROVE  /\ t.did \in 1..Len(d2) /\ t.out \in Cells
                 /\ DidPermits(t, d2[t.did], n2) /\ Kept(t, d2[t.did], t.out)
      <2>1. t.did \in 1..Len(d2) /\ t.out \in Cells /\ d2[t.did] = d[t.did] /\ d[t.did] \in Cells
          BY <1>2, <1>4 DEF Fits
      <2>2. DidPermits(t, d[t.did], n) /\ Kept(t, d[t.did], t.out)
          BY <1>4 DEF Fits
      <2>3. d[t.did].expiry \in Nat /\ Grace \in Nat
          BY <2>1, CellFacts, PendingTxAssumption
      <2>4. DidPermits(t, d[t.did], n2)
          BY <2>2, <2>3 DEF DidPermits
      <2> QED BY <2>1, <2>2, <2>4
    <1> QED BY <1>3, <1>4 DEF Fits

\* So all transactions go on fitting theirs.
LEMMA BuiltKept ==
    ASSUME IInv, UNCHANGED tx, Grown(acc, acc'), Grown(did, did'), now' \in Nat, now <= now'
    PROVE  Built'
    <1> SUFFICES ASSUME NEW r \in Requests, tx[r] # NoTx
                 PROVE  Fits(tx[r], acc', did', now')
        BY DEF Built
    <1>1. acc \in Seq(Cells) /\ did \in Seq(Cells) /\ now \in Nat
        BY DEF IInv, TypeOK
    <1>2. Fits(tx[r], acc, did, now)
        BY DEF IInv, Built
    <1> QED BY <1>1, <1>2, FitsGrown

-----------------------------------------------------------------------------
(* Handlers.                                                               *)

LEMMA NoTxFacts == NoTx \notin Txs /\ NoTx.coins = {}
    BY DEF NoTx, Txs, AllHandlers, AccountHandlers, DidHandlers, BalanceHandlers

\* A transaction that fits its cell may be taken up.
LEMMA NewTxStep ==
    ASSUME IInv, NEW r \in Requests, NEW t \in Txs, Fits(t, acc, did, now),
           tx[r] = NoTx, tx' = [tx EXCEPT ![r] = t], signable' = signable \cup {r},
           UNCHANGED <<scenario, now, acc, did, live, node, accSeen, didSeen, limited, used,
                       recording, row, auctionRow, blocks, checking, list, rejectedIDs>>
    PROVE  IInv'
    <1>1. /\ tx[r] = NoTx /\ tx' = [tx EXCEPT ![r] = t] /\ signable' = signable \cup {r}
          /\ UNCHANGED <<scenario, now, acc, did, live, node, accSeen, didSeen, limited, used,
                         recording, row, auctionRow, blocks, checking, list, rejectedIDs>>
        OBVIOUS
    <1>2. node[r] = "none" /\ t # NoTx
        BY <1>1, NoTxFacts DEF IInv, Sent
    <1>3. TypeOK'
        BY <1>1 DEF IInv, TypeOK
    <1>4. Built'
        BY <1>1 DEF IInv, TypeOK, Built
    <1>5. Sent'
        BY <1>1, <1>2 DEF IInv, TypeOK, Sent
    <1>6. Listed'
        BY <1>1, <1>2 DEF IInv, TypeOK, Listed
    <1>7. ConfirmedIsCommitted'
        BY <1>1 DEF IInv, ConfirmedIsCommitted
    <1>8. HandledNotRejected'
        BY <1>1, <1>2 DEF IInv, TypeOK, HandledNotRejected
    <1> QED BY <1>3, <1>4, <1>5, <1>6, <1>7, <1>8 DEF IInv

LEMMA BuildTxStep ==
    ASSUME IInv, NEW r \in Requests, NEW t \in Txs, Fits(t, acc, did, now), buildTx(r, t)
    PROVE  IInv'
    BY NewTxStep DEF buildTx, chainVars, seenVars, rowVars, checkVars

\* The rows that handlers read are cells.
LEMMA RowFacts ==
    ASSUME IInv
    PROVE  /\ accSeen \in 1..Len(acc) /\ AccountRow \in Cells /\ AccountRow = acc[accSeen]
           /\ accSeen \in Nat /\ accSeen # 0 /\ didSeen \in Nat /\ now \in Nat
           /\ didSeen # 0 => didSeen \in 1..Len(did) /\ DidRow \in Cells /\ DidRow = did[didSeen]
    BY DEF IInv, TypeOK, AccountRow, DidRow

\* A transaction on the account's row fits the cell if the row permits it.
LEMMA AccountTxFits ==
    ASSUME IInv, NEW h \in AllHandlers, NEW u \in Users, NEW out \in Cells,
           NEW C \in SUBSET Coins,
           AccPermits(AccountTx(h, u, out, C), AccountRow, now), Keeps(h, AccountRow, out)
    PROVE  /\ AccountTx(h, u, out, C) \in Txs
           /\ Fits(AccountTx(h, u, out, C), acc, did, now)
    <1>1. AccountTx(h, u, out, C) \in Txs
        BY RowFacts DEF AccountTx, Txs
    <1>2. Fits(AccountTx(h, u, out, C), acc, did, now)
        BY RowFacts DEF AccountTx, Fits, Kept
    <1> QED BY <1>1, <1>2

LEMMA DidTxFits ==
    ASSUME IInv, NEW h \in AllHandlers, NEW u \in Users, NEW out \in Cells, didSeen # 0,
           DidPermits(DidTx(h, u, out), DidRow, now), Keeps(h, DidRow, out)
    PROVE  /\ DidTx(h, u, out) \in Txs /\ Fits(DidTx(h, u, out), acc, did, now)
    <1>1. DidTx(h, u, out) \in Txs
        BY RowFacts DEF DidTx, Txs
    <1>2. Fits(DidTx(h, u, out), acc, did, now)
        BY RowFacts DEF DidTx, Fits, Kept
    <1> QED BY <1>1, <1>2

LEMMA CoinTxFits ==
    ASSUME NEW h \in AllHandlers, NEW u \in Users, NEW C \in SUBSET Coins
    PROVE  /\ CoinTx(h, u, C) \in Txs /\ Fits(CoinTx(h, u, C), acc, did, now)
    BY DEF CoinTx, Txs, Fits

\* Handlers are names.
LEMMA HandlerFacts ==
    {"EditOwner", "EditManager", "EditRecords", "EditScript", "Bid", "DidCellEditRecord",
     "EditRecordsForDidCell", "DidCellEditOwner", "DidCellRecycle", "Pay", "Transfer",
     "Withdraw", "Deposit"} \subseteq AllHandlers
    BY DEF AllHandlers, AccountHandlers, DidHandlers, BalanceHandlers

\* The handlers of account cells.
LEMMA AccountStep ==
    ASSUME IInv, NEW r \in Requests, NEW u \in Users,
           \/ \E to \in Users : doEditOwner(r, u, to) \/ doEditManager(r, u, to)
           \/ doEditRecords(r, u) \/ doEditScript(r, u) \/ doAccountAuctionBid(r, u)
    PROVE  IInv'
    <1> USE RowFacts, CellFacts, HandlerFacts
    <1>1. ASSUME NEW to \in Users, doEditOwner(r, u, to) PROVE IInv'
      <2> DEFINE out == [AccountRow EXCEPT !.owner = to, !.manager = to]
      <2>1. out \in Cells /\ AccountRow.owner = u /\ buildTx(r, AccountTx("EditOwner", u, out, {}))
          BY <1>1 DEF doEditOwner, buildEditOwnerTx
      <2>2. Keeps("EditOwner", AccountRow, out)
          BY DEF Keeps, Cells
      <2>3. AccPermits(AccountTx("EditOwner", u, out, {}), AccountRow, now)
          BY <2>1 DEF AccPermits, AccountTx
      <2> HIDE DEF out
      <2> QED BY <2>1, <2>2, <2>3, AccountTxFits, BuildTxStep
    <1>2. ASSUME NEW to \in Users, doEditManager(r, u, to) PROVE IInv'
      <2> DEFINE out == [AccountRow EXCEPT !.manager = to]
      <2>1. out \in Cells /\ AccountRow.owner = u /\ buildTx(r, AccountTx("EditManager", u, out, {}))
          BY <1>2 DEF doEditManager, buildEditManagerTx
      <2>2. Keeps("EditManager", AccountRow, out)
          BY DEF Keeps, Cells
      <2>3. AccPermits(AccountTx("EditManager", u, out, {}), AccountRow, now)
          BY <2>1 DEF AccPermits, AccountTx
      <2> HIDE DEF out
      <2> QED BY <2>1, <2>2, <2>3, AccountTxFits, BuildTxStep
    <1>3. CASE doEditRecords(r, u)
      <2>1. AccountRow.manager = u /\ buildTx(r, AccountTx("EditRecords", u, AccountRow, {}))
          BY <1>3 DEF doEditRecords, buildEditRecordsTx
      <2>2. Keeps("EditRecords", AccountRow, AccountRow)
          BY DEF Keeps
      <2>3. AccPermits(AccountTx("EditRecords", u, AccountRow, {}), AccountRow, now)
          BY <2>1 DEF AccPermits, AccountTx
      <2> QED BY <2>1, <2>2, <2>3, AccountTxFits, BuildTxStep
    <1>4. CASE doEditScript(r, u)
      <2>1. AccountRow.owner = u /\ buildTx(r, AccountTx("EditScript", u, AccountRow, {}))
          BY <1>4 DEF doEditScript, buildEditScript
      <2>2. Keeps("EditScript", AccountRow, AccountRow)
          BY DEF Keeps
      <2>3. AccPermits(AccountTx("EditScript", u, AccountRow, {}), AccountRow, now)
          BY <2>1 DEF AccPermits, AccountTx
      <2> QED BY <2>1, <2>2, <2>3, AccountTxFits, BuildTxStep
    <1>5. CASE doAccountAuctionBid(r, u)
      <2> DEFINE out == [owner |-> u, manager |-> u, expiry |-> now + Term,
                         status |-> AccountRow.status]
      <2>1. PICK C \in Spendable(u) : buildTx(r, AccountTx("Bid", u, out, C))
          BY <1>5 DEF doAccountAuctionBid, buildAuctionBidTx
      <2>2. C \in SUBSET Coins
          BY <2>1 DEF Spendable, IInv, TypeOK
      <2>3. out \in Cells
        <3>1. now + Term \in Nat
            BY ONLY RowFacts, PendingTxAssumption, IInv
        <3>2. AccountRow.status \in {"Normal", "OnCross", "OnUpgrade", "Recycled"}
            OBVIOUS
        <3> QED BY ONLY <3>1, <3>2, u \in Users DEF Cells
      <2>4. AccountRow.expiry + Grace < now
          BY <1>5 DEF doAccountAuctionBid, checkDutchAuction
      <2>5. Keeps("Bid", AccountRow, out)
          BY DEF Keeps
      <2>6. AccPermits(AccountTx("Bid", u, out, C), AccountRow, now)
          BY <2>4 DEF AccPermits, AccountTx
      <2> HIDE DEF out
      <2> QED BY <2>1, <2>2, <2>3, <2>5, <2>6, AccountTxFits, BuildTxStep
    <1> QED BY <1>1, <1>2, <1>3, <1>4, <1>5

\* The handlers of did cells.
LEMMA DidStep ==
    ASSUME IInv, NEW r \in Requests, NEW u \in Users,
           \/ \E to \in Users : doDidCellDasLockEditOwner(r, u, to)
           \/ doDidCellEditRecord(r, u) \/ doEditRecordsForDidCell(r, u) \/ doDidCellRecycle(r, u)
    PROVE  IInv'
    <1>0. Holds(u) => didSeen # 0 /\ DidRow.owner = u
        BY DEF Holds
    <1> USE RowFacts, CellFacts, HandlerFacts
    <1>1. ASSUME NEW to \in Users, doDidCellDasLockEditOwner(r, u, to) PROVE IInv'
      <2> DEFINE out == [DidRow EXCEPT !.owner = to, !.manager = to]
      <2>1. didSeen # 0 /\ DidRow.owner = u /\ buildTx(r, DidTx("DidCellEditOwner", u, out))
          BY <1>0, <1>1 DEF doDidCellDasLockEditOwner
      <2>2. out \in Cells /\ DidRow \in Cells
          BY <2>1
      <2>3. Keeps("DidCellEditOwner", DidRow, out)
          BY <2>2 DEF Keeps, Cells
      <2>4. DidPermits(DidTx("DidCellEditOwner", u, out), DidRow, now)
          BY <2>1 DEF DidPermits, DidTx
      <2> HIDE DEF out
      <2> QED BY <2>1, <2>2, <2>3, <2>4, DidTxFits, BuildTxStep
    <1>2. ASSUME NEW h \in {"DidCellEditRecord", "EditRecordsForDidCell"}, Holds(u),
                 buildTx(r, DidTx(h, u, DidRow))
          PROVE  IInv'
      <2>1. didSeen # 0 /\ DidRow.owner = u /\ DidRow \in Cells
          BY <1>0, <1>2
      <2>2. Keeps(h, DidRow, DidRow)
          BY DEF Keeps
      <2>3. DidPermits(DidTx(h, u, DidRow), DidRow, now)
          BY <2>1 DEF DidPermits, DidTx
      <2> QED BY <1>2, <2>1, <2>2, <2>3, DidTxFits, BuildTxStep
    <1>3. CASE doDidCellEditRecord(r, u)
      <2>1. CASE AccountRow.manager = u /\ buildTx(r, AccountTx("DidCellEditRecord", u, AccountRow, {}))
        <3>1. Keeps("DidCellEditRecord", AccountRow, AccountRow)
            BY DEF Keeps
        <3>2. AccPermits(AccountTx("DidCellEditRecord", u, AccountRow, {}), AccountRow, now)
            BY <2>1 DEF AccPermits, AccountTx
        <3> QED BY <2>1, <3>1, <3>2, AccountTxFits, BuildTxStep
      <2>2. CASE Holds(u) /\ buildTx(r, DidTx("DidCellEditRecord", u, DidRow))
          BY <1>2, <2>2
      <2> QED BY <1>3, <2>1, <2>2 DEF doDidCellEditRecord
    <1>4. CASE doEditRecordsForDidCell(r, u)
        BY <1>2, <1>4 DEF doEditRecordsForDidCell
    <1>5. CASE doDidCellRecycle(r, u)
      <2> DEFINE out == [DidRow EXCEPT !.status = "Recycled"]
      <2>1. didSeen # 0 /\ DidRow.owner = u /\ DidRow \in Cells /\ DidRow.expiry + Grace <= now
          BY <1>0, <1>5 DEF doDidCellRecycle
      <2>2. out \in Cells /\ buildTx(r, DidTx("DidCellRecycle", u, out))
          BY <1>5, <2>1 DEF doDidCellRecycle
      <2>3. Keeps("DidCellRecycle", DidRow, out)
          BY <2>1 DEF Keeps, Cells
      <2>4. DidPermits(DidTx("DidCellRecycle", u, out), DidRow, now)
          BY <2>1 DEF DidPermits, DidTx
      <2> HIDE DEF out
      <2> QED BY <2>1, <2>2, <2>3, <2>4, DidTxFits, BuildTxStep
    <1> QED BY <1>1, <1>3, <1>4, <1>5

\* The handlers of balances.
LEMMA BalanceStep ==
    ASSUME IInv, NEW r \in Requests, NEW u \in Users,
           \/ doBalancePay(r, u) \/ doBalanceWithdraw(r, u) \/ doBalanceDeposit(r, u)
           \/ doBalanceTransfer(r, u)
    PROVE  IInv'
    <1>1. PICK h \in {"Pay", "Withdraw", "Deposit", "Transfer"}, C \in SUBSET Coins :
              buildTx(r, CoinTx(h, u, C))
      <2>1. \A C \in Spendable(u) : C \in SUBSET Coins
          BY DEF Spendable, IInv, TypeOK
      <2>2. {c \in live : OwnerOf[c] = u} \in SUBSET Coins
          BY DEF IInv, TypeOK
      <2>3. CASE doBalancePay(r, u)
          BY <2>1, <2>3 DEF doBalancePay, buildBalancePayTx
      <2>4. CASE doBalanceWithdraw(r, u)
          BY <2>1, <2>4 DEF doBalanceWithdraw, buildBalanceWithdrawTx
      <2>5. CASE doBalanceDeposit(r, u)
          BY <2>1, <2>5 DEF doBalanceDeposit, buildBalanceDepositTx
      <2>6. CASE doBalanceTransfer(r, u)
          BY <2>2, <2>6 DEF doBalanceTransfer, buildBalanceTransferTx
      <2> QED BY <2>3, <2>4, <2>5, <2>6
    <1>2. h \in AllHandlers
        BY HandlerFacts
    <1> QED BY <1>1, <1>2, CoinTxFits, BuildTxStep

-----------------------------------------------------------------------------
(* TransactionSend, the chain and the tables that follow it.               *)

\* Steps that leave the cells alone leave every transaction fitting.
LEMMA BuiltStays ==
    ASSUME IInv, UNCHANGED <<tx, acc, did, now>>
    PROVE  Built'
    BY DEF IInv, Built

\* A customer's own version spends the same cells under the same locks, so it
\* fits them as far as locks go.
LEMMA VariantFits ==
    ASSUME NEW t \in Txs, NEW s \in Variants(t), SameInputsAndLocks(t, s),
           NEW a \in Seq(Cells), NEW d \in Seq(Cells), NEW n, Fits(t, a, d, n)
    PROVE  s \in Txs /\ Fits(s, a, d, n)
    <1> DEFINE cells == IF t.out = NoCell THEN {NoCell}
                        ELSE [owner : Users, manager : Users,
                              expiry : {t.out.expiry, t.out.expiry + Term},
                              status : {t.out.status, "OnCross"}]
    <1>1. t.out \in Cells => cells \subseteq Cells
      <2> SUFFICES ASSUME t.out \in Cells PROVE cells \subseteq Cells
          OBVIOUS
      <2>1. t.out # NoCell
        <3>1. NoCell \notin Cells
            BY DEF NoCell, Cells
        <3> QED BY <3>1
      <2>2. t.out.expiry \in Nat /\ t.out.expiry + Term \in Nat
        <3>1. t.out.expiry \in Nat /\ Term \in Nat
            BY CellFacts, PendingTxAssumption
        <3> QED BY ONLY <3>1
      <2>3. t.out.status \in {"Normal", "OnCross", "OnUpgrade", "Recycled"}
          BY CellFacts
      <2>4. [owner : Users, manager : Users, expiry : {t.out.expiry, t.out.expiry + Term},
             status : {t.out.status, "OnCross"}] \subseteq Cells
          BY ONLY <2>2, <2>3 DEF Cells
      <2> QED BY <2>1, <2>4
    <1>2. PICK c \in cells, w \in {t.witness, "other"} :
              s = [t EXCEPT !.out = c, !.witness = w, !.own = TRUE]
      <2>1. PICK v \in cells \X {t.witness, "other"} :
                s = [t EXCEPT !.out = v[1], !.witness = v[2], !.own = TRUE]
          BY DEF Variants
      <2> HIDE DEF cells
      <2>2. v[1] \in cells /\ v[2] \in {t.witness, "other"}
          BY <2>1
      <2> QED BY <2>1, <2>2
    <1>3. c \in Cells \cup {NoCell} /\ (t.out \in Cells => c \in Cells)
      <2>1. t.out \in Cells \cup {NoCell}
          BY DEF Txs
      <2>2. t.out = NoCell => c = NoCell
          BY <1>2
      <2> QED BY <1>1, <1>2, <2>1, <2>2
    <1> HIDE DEF cells
    <1>4. s \in Txs
        BY <1>2, <1>3 DEF Txs
    <1>5. /\ s.handler = t.handler /\ s.user = t.user /\ s.own = TRUE /\ s.out = c
          /\ s.acc = t.acc /\ s.did = t.did
          /\ c.owner = t.out.owner /\ c.manager = t.out.manager
        BY <1>2 DEF Txs, SameInputsAndLocks
    <1>6. ASSUME NEW old \in Cells, Kept(t, old, t.out) PROVE Kept(s, old, c)
      <2>1. KeepsLocks(t.handler, old, t.out)
          BY <1>6 DEF Kept, Keeps, KeepsLocks, Cells
      <2> QED BY <1>5, <2>1 DEF Kept, KeepsLocks
    <1>7. ASSUME s.acc # 0
          PROVE  /\ s.acc \in 1..Len(a) /\ s.out \in Cells
                 /\ AccPermits(s, a[s.acc], n) /\ Kept(s, a[s.acc], s.out)
        BY <1>3, <1>5, <1>6, <1>7 DEF Fits, AccPermits
    <1>8. ASSUME s.did # 0
          PROVE  /\ s.did \in 1..Len(d) /\ s.out \in Cells
                 /\ DidPermits(s, d[s.did], n) /\ Kept(s, d[s.did], s.out)
        BY <1>3, <1>5, <1>6, <1>8 DEF Fits, DidPermits
    <1> QED BY <1>4, <1>7, <1>8 DEF Fits

LEMMA CKBTxStep ==
    ASSUME IInv, NEW r \in Requests, NEW q \in Requests, ReplaceByCKBTx(r, q)
    PROVE  IInv'
    <1>1. tx[r] \in Txs /\ Fits(tx[r], acc, did, now)
        BY DEF ReplaceByCKBTx, IInv, TypeOK, Sent, Built
    <1>2. PICK s \in Variants(tx[r]) : SameInputsAndLocks(tx[r], s) /\ tx' = [tx EXCEPT ![q] = s]
        BY DEF ReplaceByCKBTx
    <1>3. s \in Txs /\ Fits(s, acc, did, now)
        BY <1>1, <1>2, VariantFits DEF IInv, TypeOK
    <1> QED BY <1>2, <1>3, NewTxStep DEF ReplaceByCKBTx, chainVars, seenVars, rowVars, checkVars

LEMMA SendStep ==
    ASSUME IInv, NEW r \in Requests,
           \/ SignKeyExpires(r) \/ doTransactionSend(r) \/ CreatePending(r)
           \/ CreateAuctionOrder(r) \/ LimitExpires \/ DasCacheExpires
    PROVE  IInv'
    <1> USE DEF chainVars, seenVars, signVars, rowVars, checkVars
    <1>1. CASE SignKeyExpires(r) \/ CreateAuctionOrder(r) \/ LimitExpires \/ DasCacheExpires
      <2>1. /\ UNCHANGED <<scenario, now, acc, did, live, node, accSeen, didSeen, tx, row, blocks,
                           checking, list, rejectedIDs>>
            /\ signable' \subseteq signable
          BY <1>1 DEF SignKeyExpires, CreateAuctionOrder, LimitExpires, DasCacheExpires
      <2>2. /\ limited' \in BOOLEAN /\ used' \subseteq Coins /\ auctionRow' \subseteq Requests
            /\ recording' \in [Requests -> {"none", "pending", "auction"}]
          BY <1>1 DEF SignKeyExpires, CreateAuctionOrder, LimitExpires, DasCacheExpires, IInv, TypeOK
      <2>3. TypeOK'
          BY <2>1, <2>2 DEF IInv, TypeOK
      <2>4. Sent' /\ Listed' /\ ConfirmedIsCommitted' /\ HandledNotRejected'
          BY <2>1 DEF IInv, Sent, Listed, ConfirmedIsCommitted, HandledNotRejected
      <2> QED BY <2>1, <2>3, <2>4, BuiltStays DEF IInv
    <1>2. CASE doTransactionSend(r)
      <2>1. /\ UNCHANGED <<scenario, now, acc, did, live, accSeen, didSeen, tx, signable, limited,
                           used, row, auctionRow, blocks, checking, list, rejectedIDs>>
            /\ r \in signable /\ node[r] \in {"none", "rejected"}
            /\ node' = [node EXCEPT ![r] = "pool"]
          BY <1>2 DEF doTransactionSend, NodeTakes
      <2>2. TypeOK'
        <3>1. recording' \in [Requests -> {"none", "pending", "auction"}]
            BY <1>2 DEF doTransactionSend, IInv, TypeOK
        <3> QED BY <2>1, <3>1 DEF IInv, TypeOK
      <2>3. Sent'
          BY <2>1 DEF IInv, TypeOK, Sent
      <2>4. Listed' /\ ConfirmedIsCommitted' /\ HandledNotRejected'
          BY <2>1 DEF IInv, TypeOK, Listed, ConfirmedIsCommitted, HandledNotRejected
      <2> QED BY <2>1, <2>2, <2>3, <2>4, BuiltStays DEF IInv
    <1>3. CASE CreatePending(r)
      <2>1. /\ UNCHANGED <<scenario, now, acc, did, live, node, accSeen, didSeen, tx, signable,
                           auctionRow, blocks, checking, list, rejectedIDs>>
            /\ limited' \in BOOLEAN /\ used' = used \cup tx[r].coins
            /\ row' \in {row, [row EXCEPT ![r] = IF @ = "none" THEN "Pending" ELSE @]}
            /\ recording' \in {[recording EXCEPT ![r] = "auction"], [recording EXCEPT ![r] = "none"]}
          BY <1>3 DEF CreatePending, IInv, TypeOK
      <2>2. \A q \in Requests : row'[q] = row[q] \/ (row[q] = "none" /\ row'[q] = "Pending")
          BY <2>1 DEF IInv, TypeOK
      <2>3. TypeOK'
        <3>1. tx[r].coins \subseteq Coins
            BY NoTxFacts DEF IInv, TypeOK, Txs
        <3>2. row' \in [Requests -> {"none", "Pending", "Rejected", "Confirm"}]
            BY <2>1 DEF IInv, TypeOK
        <3>3. recording' \in [Requests -> {"none", "pending", "auction"}]
            BY <2>1 DEF IInv, TypeOK
        <3> QED BY <2>1, <3>1, <3>2, <3>3 DEF IInv, TypeOK
      <2>4. Sent'
          BY <2>1 DEF IInv, Sent
      <2>5. Listed' /\ ConfirmedIsCommitted' /\ HandledNotRejected'
          BY <2>1, <2>2 DEF IInv, TypeOK, Listed, ConfirmedIsCommitted, HandledNotRejected
      <2> QED BY <2>1, <2>3, <2>4, <2>5, BuiltStays DEF IInv
    <1> QED BY <1>1, <1>2, <1>3

\* A live transaction spends the last cell, and its output becomes the last.
LEMMA SpendFacts ==
    ASSUME NEW s \in Seq(Cells), NEW p \in {0, Len(s)}, NEW e, p # 0 => e \in Cells
    PROVE  /\ Spend(s, p, e) \in Seq(Cells) /\ Grown(s, Spend(s, p, e))
           /\ Len(s) <= Len(Spend(s, p, e))
           /\ p # 0 => Spend(s, p, e)[Len(Spend(s, p, e))] = e
    <1>1. CASE p = 0
        BY <1>1 DEF Spend, Grown
    <1>2. CASE p # 0
        BY <1>2, AppendFacts DEF Spend, Grown
    <1> QED BY <1>1, <1>2

\* What holds when the node commits a transaction.
LEMMA CommitFacts ==
    ASSUME IInv, NEW r \in Requests, NodeCommits(r)
    PROVE  /\ tx[r] \in Txs /\ Fits(tx[r], acc, did, now)
           /\ tx[r].acc \in {0, Len(acc)} /\ tx[r].did \in {0, Len(did)}
           /\ acc' = Spend(acc, tx[r].acc, tx[r].out)
           /\ did' = Spend(did, tx[r].did, tx[r].out)
           /\ acc' \in Seq(Cells) /\ did' \in Seq(Cells)
           /\ Grown(acc, acc') /\ Grown(did, did')
           /\ Len(acc) <= Len(acc') /\ Len(did) <= Len(did')
           /\ tx[r].acc # 0 => acc'[Len(acc')] = tx[r].out
           /\ tx[r].did # 0 => did'[Len(did')] = tx[r].out
    <1>1. tx[r] \in Txs /\ Fits(tx[r], acc, did, now)
        BY DEF NodeCommits, IInv, TypeOK, Sent, Built
    <1>2. /\ tx[r].acc \in {0, Len(acc)} /\ tx[r].did \in {0, Len(did)}
          /\ acc' = Spend(acc, tx[r].acc, tx[r].out)
          /\ did' = Spend(did, tx[r].did, tx[r].out)
        BY DEF NodeCommits, Live
    <1>3. (tx[r].acc # 0 => tx[r].out \in Cells) /\ (tx[r].did # 0 => tx[r].out \in Cells)
        BY <1>1 DEF Fits
    <1>4. acc \in Seq(Cells) /\ did \in Seq(Cells)
        BY DEF IInv, TypeOK
    <1> QED BY <1>1, <1>2, <1>3, <1>4, SpendFacts

\* What grows stays a sequence of cells and gets no shorter.
LEMMA GrownFacts ==
    ASSUME NEW s \in Seq(Cells), NEW s2, Grown(s, s2)
    PROVE  s2 \in Seq(Cells) /\ Len(s) <= Len(s2) /\ Len(s2) \in Nat
    <1>1. CASE s2 = s
        BY <1>1
    <1>2. ASSUME NEW e \in Cells, s2 = Append(s, e) PROVE s2 \in Seq(Cells) /\ Len(s2) = Len(s) + 1
        BY <1>2, AppendFacts
    <1> QED BY <1>1, <1>2 DEF Grown

\* Foreign transactions append cells as well.
LEMMA OtherTxGrown ==
    ASSUME IInv, OtherTx
    PROVE  Grown(acc, acc') /\ Grown(did, did')
    <1> DEFINE a == acc[Len(acc)]
               d == did[Len(did)]
    <1>1. a \in Cells /\ (Len(did) \in 1..(MaxCell - 1) => d \in Cells)
        BY DEF IInv, TypeOK
    <1>2. \A u \in Users : [a EXCEPT !.owner = u, !.manager = u] \in Cells
        BY <1>1, CellFacts
    <1>3. /\ [a EXCEPT !.expiry = @ + Term] \in Cells
          /\ [a EXCEPT !.status = "OnUpgrade"] \in Cells /\ [a EXCEPT !.status = "OnCross"] \in Cells
      <2>1. a.expiry \in Nat /\ Term \in Nat
          BY <1>1, CellFacts, PendingTxAssumption
      <2>2. a.expiry + Term \in Nat
          BY ONLY <2>1
      <2> QED BY <1>1, <2>2, CellFacts
    <1>4. Len(did) \in 1..(MaxCell - 1) =>
             \A u \in Users : [d EXCEPT !.owner = u, !.manager = u] \in Cells
        BY <1>1, CellFacts
    <1>5. \/ /\ did' = did
             /\ \/ \E u \in Users : acc' = Append(acc, [a EXCEPT !.owner = u, !.manager = u])
                \/ acc' = Append(acc, [a EXCEPT !.expiry = @ + Term])
                \/ acc' = Append(acc, [a EXCEPT !.status = "OnCross"])
          \/ /\ acc' = Append(acc, [a EXCEPT !.status = "OnUpgrade"])
             /\ did' = Append(did, [a EXCEPT !.status = "OnUpgrade"])
          \/ /\ Len(did) \in 1..(MaxCell - 1) /\ acc' = acc
             /\ \E u \in Users : did' = Append(did, [d EXCEPT !.owner = u, !.manager = u])
        BY DEF OtherTx
    <1> HIDE DEF a, d
    <1> QED BY <1>2, <1>3, <1>4, <1>5 DEF Grown

LEMMA ChainStep ==
    ASSUME IInv, NEW r \in Requests,
           NodeCommits(r) \/ NodeRejects(r) \/ OtherTx \/ Sync \/ Tick
    PROVE  IInv'
    <1> USE DEF chainVars, seenVars, signVars, rowVars, checkVars
    <1>1. CASE NodeCommits(r)
      <2>1. /\ UNCHANGED <<scenario, now, accSeen, didSeen, tx, signable, limited, used, recording,
                           row, auctionRow, checking, list, rejectedIDs>>
            /\ node[r] = "pool" /\ node' = [node EXCEPT ![r] = "committed"]
            /\ live' = live \ tx[r].coins /\ blocks' = blocks \cup {r}
          BY <1>1 DEF NodeCommits
      <2>2. /\ acc' \in Seq(Cells) /\ did' \in Seq(Cells)
            /\ Len(acc) <= Len(acc') /\ Len(did) <= Len(did')
            /\ Len(acc) \in Nat /\ Len(did) \in Nat
          BY <1>1, CommitFacts DEF IInv, TypeOK
      <2>3. TypeOK'
          BY <2>1, <2>2 DEF IInv, TypeOK
      <2>4. Built'
          BY <1>1, <2>1, CommitFacts, BuiltKept DEF IInv, TypeOK
      <2>5. Sent'
          BY <2>1 DEF IInv, TypeOK, Sent
      <2>6. Listed' /\ ConfirmedIsCommitted' /\ HandledNotRejected'
          BY <2>1 DEF IInv, TypeOK, Listed, ConfirmedIsCommitted, HandledNotRejected
      <2> QED BY <2>3, <2>4, <2>5, <2>6 DEF IInv
    <1>2. CASE NodeRejects(r)
      <2>1. /\ UNCHANGED <<scenario, now, acc, did, live, accSeen, didSeen, tx, signable, limited,
                           used, recording, row, auctionRow, blocks, checking, list, rejectedIDs>>
            /\ node[r] = "pool" /\ node' = [node EXCEPT ![r] = "rejected"]
          BY <1>2 DEF NodeRejects
      <2>2. TypeOK'
          BY <2>1 DEF IInv, TypeOK
      <2>3. Sent'
          BY <2>1 DEF IInv, TypeOK, Sent
      <2>4. Listed' /\ ConfirmedIsCommitted' /\ HandledNotRejected'
          BY <2>1 DEF IInv, TypeOK, Listed, ConfirmedIsCommitted, HandledNotRejected
      <2> QED BY <2>1, <2>2, <2>3, <2>4, BuiltStays DEF IInv
    <1>3. CASE OtherTx
      <2>1. /\ UNCHANGED <<scenario, now, live, node, accSeen, didSeen, tx, signable, limited, used,
                           recording, row, auctionRow, blocks, checking, list, rejectedIDs>>
          BY <1>3 DEF OtherTx
      <2>2. /\ Grown(acc, acc') /\ Grown(did, did')
          BY <1>3, OtherTxGrown
      <2>3. /\ acc' \in Seq(Cells) /\ Len(acc) <= Len(acc') /\ Len(acc') \in Nat
            /\ did' \in Seq(Cells) /\ Len(did) <= Len(did') /\ Len(did') \in Nat
        <3>1. acc \in Seq(Cells) /\ did \in Seq(Cells)
            BY DEF IInv, TypeOK
        <3> QED BY ONLY <2>2, <3>1, GrownFacts
      <2>4. TypeOK'
        <3>1. accSeen \in 1..Len(acc') /\ didSeen \in 0..Len(did') /\ Len(acc') > 0
            BY <2>3 DEF IInv, TypeOK
        <3> QED BY <2>1, <2>3, <3>1 DEF IInv, TypeOK
      <2>5. Built'
        <3>1. now' \in Nat /\ now <= now'
            BY <2>1 DEF IInv, TypeOK
        <3> QED BY <2>1, <2>2, <3>1, BuiltKept
      <2>6. Sent' /\ Listed' /\ ConfirmedIsCommitted' /\ HandledNotRejected'
          BY <2>1 DEF IInv, Sent, Listed, ConfirmedIsCommitted, HandledNotRejected
      <2> QED BY <2>4, <2>5, <2>6 DEF IInv
    <1>4. CASE Sync \/ Tick
      <2>1. /\ UNCHANGED <<scenario, acc, did, live, node, tx, signable, limited, used, recording, row,
                           auctionRow, blocks, checking, list, rejectedIDs>>
          BY <1>4 DEF Sync, Tick
      <2>2. now' \in Nat /\ now <= now'
        <3>1. now' = now \/ now' = now + 1
            BY <1>4 DEF Sync, Tick
        <3> QED BY <3>1 DEF IInv, TypeOK
      <2>3. accSeen' \in 1..Len(acc) /\ didSeen' \in 0..Len(did)
        <3>1. /\ accSeen' = accSeen \/ (accSeen < Len(acc) /\ accSeen' = accSeen + 1)
              /\ didSeen' = didSeen \/ (didSeen < Len(did) /\ didSeen' = didSeen + 1)
            BY <1>4 DEF Sync, Tick
        <3>2. Len(acc) \in Nat /\ Len(did) \in Nat
            BY DEF IInv, TypeOK
        <3> QED BY <3>1, <3>2 DEF IInv, TypeOK
      <2>4. TypeOK'
          BY <2>1, <2>2, <2>3 DEF IInv, TypeOK
      <2>5. Built'
          BY <2>1, <2>2, BuiltKept DEF Grown
      <2>6. Sent' /\ Listed' /\ ConfirmedIsCommitted' /\ HandledNotRejected'
          BY <2>1 DEF IInv, Sent, Listed, ConfirmedIsCommitted, HandledNotRejected
      <2> QED BY <2>4, <2>5, <2>6 DEF IInv
    <1> QED BY <1>1, <1>2, <1>3, <1>4

-----------------------------------------------------------------------------
(* block_parser and checkRejected.                                         *)

\* A handled transaction with a row is confirmed if there is a handler for it,
\* and no other row is touched.
LEMMA ParsedRows ==
    ASSUME IInv, NEW r \in Requests, ParsingBlockData(r)
    PROVE  /\ \A q \in Requests \ {r} : row'[q] = row[q]
           /\ row'[r] \in {row[r], "Confirm"} /\ (row[r] = "none" => row'[r] = "none")
           /\ Confirmable(tx[r]) => row'[r] \in {"none", "Confirm"}
           /\ row' \in [Requests -> {"none", "Pending", "Rejected", "Confirm"}]
           /\ used' \subseteq used
    <1>1. row \in [Requests -> {"none", "Pending", "Rejected", "Confirm"}]
        BY DEF IInv, TypeOK
    <1>2. \/ /\ UpdatePendingStatusToConfirm(tx[r].witness, r) /\ used' \subseteq used
          \/ tx[r].witness \in Unhandled /\ UNCHANGED <<row, used>>
        BY DEF ParsingBlockData, ActionEditRecords, ActionEditManager, ActionTransferAccount,
               DidCellActionUpdate, ActionBidExpiredAccountAuction, ActionTransferPayment,
               ActionWithdrawFromWallet, ActionTransferBalance
    <1>3. Confirmable(tx[r]) => tx[r].witness = ActionOf(tx[r].handler) /\ tx[r].witness \notin Unhandled
        BY DEF Confirmable
    <1>4. CASE UpdatePendingStatusToConfirm(tx[r].witness, r) /\ used' \subseteq used
        BY <1>1, <1>3, <1>4 DEF UpdatePendingStatusToConfirm
    <1>5. CASE tx[r].witness \in Unhandled /\ UNCHANGED <<row, used>>
        BY <1>1, <1>3, <1>5
    <1> QED BY <1>2, <1>4, <1>5

LEMMA ParserStep ==
    ASSUME IInv, NEW r \in Requests, ParsingBlockData(r)
    PROVE  IInv'
    <1>1. /\ UNCHANGED <<scenario, now, acc, did, live, node, accSeen, didSeen, tx, signable,
                         limited, recording, auctionRow, checking, list, rejectedIDs>>
          /\ r \in blocks /\ blocks' \in {blocks, blocks \ {r}}
        BY DEF ParsingBlockData, chainVars, seenVars, checkVars
    <1>2. node[r] = "committed"
        BY <1>1 DEF IInv, Sent
    <1>3. TypeOK'
        BY <1>1, ParsedRows DEF IInv, TypeOK
    <1>4. Sent'
        BY <1>1 DEF IInv, Sent
    <1>5. ConfirmedIsCommitted'
        BY <1>1, <1>2, ParsedRows DEF IInv, ConfirmedIsCommitted
    <1>6. HandledNotRejected'
        BY <1>1, ParsedRows DEF IInv, HandledNotRejected
    <1>7. Listed'
        BY <1>1, ParsedRows DEF IInv, TypeOK, Listed
    <1> QED BY <1>1, <1>3, <1>4, <1>5, <1>6, <1>7, BuiltStays DEF IInv

LEMMA TimerStep ==
    ASSUME IInv, NEW r \in Requests,
           \/ CheckRejectedList \/ CheckRejectedOne(r) \/ CheckRejectedError
           \/ CheckRejectedEnd \/ Crash
    PROVE  IInv'
    <1> USE DEF chainVars, seenVars, signVars, rowVars, checkVars
    <1>1. CASE CheckRejectedOne(r)
      <2>1. /\ UNCHANGED <<scenario, now, acc, did, live, node, accSeen, didSeen, tx, signable,
                           limited, used, recording, auctionRow, blocks, checking>>
            /\ r \in list /\ list' = list \ {r}
            /\ rejectedIDs' = rejectedIDs \cup (IF node[r] = "rejected" THEN {r} ELSE {})
            /\ row' = IF node[r] = "committed" THEN [row EXCEPT ![r] = "Confirm"] ELSE row
          BY <1>1 DEF CheckRejectedOne, UpdatePendingToConfirm
      <2>2. TypeOK'
          BY <2>1 DEF IInv, TypeOK
      <2>3. Sent'
          BY <2>1 DEF IInv, Sent
      <2>4. Listed'
          BY <2>1 DEF IInv, TypeOK, Listed
      <2>5. ConfirmedIsCommitted' /\ HandledNotRejected'
          BY <2>1 DEF IInv, TypeOK, ConfirmedIsCommitted, HandledNotRejected
      <2> QED BY <2>1, <2>2, <2>3, <2>4, <2>5, BuiltStays DEF IInv
    <1>2. CASE CheckRejectedEnd
      <2>1. /\ UNCHANGED <<scenario, now, acc, did, live, node, accSeen, didSeen, tx, signable,
                           limited, used, recording, auctionRow, blocks>>
            /\ checking' = FALSE /\ list' = {} /\ rejectedIDs' = {}
            /\ row' = [q \in Requests |-> IF q \in rejectedIDs /\ row[q] = "Pending"
                                          THEN "Rejected" ELSE row[q]]
          BY <1>2 DEF CheckRejectedEnd, UpdatePendingToRejected
      <2>2. TypeOK'
          BY <2>1 DEF IInv, TypeOK
      <2>3. Sent' /\ Listed'
          BY <2>1 DEF IInv, Sent, Listed
      <2>4. ConfirmedIsCommitted'
          BY <2>1 DEF IInv, ConfirmedIsCommitted
      <2>5. HandledNotRejected'
          BY <2>1 DEF IInv, HandledNotRejected, Listed
      <2> QED BY <2>1, <2>2, <2>3, <2>4, <2>5, BuiltStays DEF IInv
    <1>3. CASE CheckRejectedList \/ CheckRejectedError \/ Crash
      <2>1. /\ UNCHANGED <<scenario, now, acc, did, live, node, accSeen, didSeen, tx, signable,
                           limited, row, auctionRow, blocks>>
            /\ rejectedIDs' \subseteq rejectedIDs
            /\ list' \subseteq {q \in Requests : row[q] # "none"}
          BY <1>3 DEF CheckRejectedList, CheckRejectedError, Crash, SearchMaybeRejectedPending,
                      IInv, TypeOK, Listed
      <2>2. /\ checking' \in BOOLEAN /\ used' \subseteq Coins
            /\ recording' \in [Requests -> {"none", "pending", "auction"}]
          BY <1>3 DEF CheckRejectedList, CheckRejectedError, Crash, IInv, TypeOK
      <2>3. TypeOK'
          BY <2>1, <2>2 DEF IInv, TypeOK
      <2>4. Sent' /\ Listed' /\ ConfirmedIsCommitted' /\ HandledNotRejected'
          BY <2>1 DEF IInv, Sent, Listed, ConfirmedIsCommitted, HandledNotRejected
      <2> QED BY <2>1, <2>3, <2>4, BuiltStays DEF IInv
    <1> QED BY <1>1, <1>2, <1>3

-----------------------------------------------------------------------------
(* The theorems.                                                           *)

LEMMA InitOK == Init => IInv
  <1> SUFFICES ASSUME Init PROVE IInv
      OBVIOUS
  <1> USE DEF Init
  <1>1. <<FirstCell>> \in Seq(Cells) /\ Len(<<FirstCell>>) = 1 /\ << >> \in Seq(Cells)
      BY PendingTxAssumption
  <1>2. TypeOK
    <2>1. /\ acc \in Seq(Cells) /\ did \in Seq(Cells) /\ Len(acc) > 0
          /\ accSeen \in 1..Len(acc) /\ didSeen \in 0..Len(did)
        BY <1>1
    <2>2. /\ tx \in [Requests -> Txs \cup {NoTx}]
          /\ recording \in [Requests -> {"none", "pending", "auction"}]
          /\ row \in [Requests -> {"none", "Pending", "Rejected", "Confirm"}]
          /\ node \in [Requests -> {"none", "pool", "committed", "rejected"}]
        OBVIOUS
    <2>3. /\ scenario \in Scenarios /\ now \in Nat /\ live \subseteq Coins /\ used \subseteq Coins
          /\ signable \subseteq Requests /\ limited \in BOOLEAN
          /\ auctionRow \subseteq Requests /\ blocks \subseteq Requests
          /\ checking \in BOOLEAN /\ list \subseteq Requests /\ rejectedIDs \subseteq Requests
        OBVIOUS
    <2> QED BY ONLY <2>1, <2>2, <2>3 DEF TypeOK
  <1>3. Built /\ Sent /\ Listed /\ ConfirmedIsCommitted /\ HandledNotRejected
      BY DEF Built, Sent, Listed, ConfirmedIsCommitted, HandledNotRejected
  <1> QED BY <1>2, <1>3 DEF IInv

LEMMA Inductive == IInv /\ [Next]_vars => IInv'
  <1> SUFFICES ASSUME IInv, [Next]_vars PROVE IInv'
      OBVIOUS
  <1>1. PICK q \in Requests : TRUE
      BY PendingTxAssumption
  <1>2. ASSUME NEW r \in Requests, Http(r) PROVE IInv'
      BY <1>2, AccountStep, DidStep, BalanceStep DEF Http
  <1>3. ASSUME NEW r \in Requests,
               \/ SignKeyExpires(r) \/ doTransactionSend(r) \/ CreatePending(r)
               \/ CreateAuctionOrder(r) \/ (\E q1 \in Requests : ReplaceByCKBTx(r, q1)) \/ NodeCommits(r) \/ NodeRejects(r)
               \/ ParsingBlockData(r) \/ CheckRejectedOne(r)
        PROVE  IInv'
      BY <1>3, SendStep, CKBTxStep, ChainStep, ParserStep, TimerStep
  <1>4. CASE LimitExpires \/ DasCacheExpires
      BY <1>1, <1>4, SendStep
  <1>5. CASE OtherTx \/ Sync \/ Tick
      BY <1>1, <1>5, ChainStep
  <1>6. CASE CheckRejectedList \/ CheckRejectedError \/ CheckRejectedEnd \/ Crash
      BY <1>1, <1>6, TimerStep
  <1>7. CASE UNCHANGED vars
    <2>1. UNCHANGED <<scenario, now, acc, did, live, node, accSeen, didSeen, tx, signable, limited,
                      used, recording, row, auctionRow, blocks, checking, list, rejectedIDs>>
        BY <1>7 DEF vars, chainVars, seenVars, signVars, rowVars, checkVars
    <2>2. TypeOK' /\ Sent' /\ Listed' /\ ConfirmedIsCommitted' /\ HandledNotRejected'
        BY <2>1 DEF IInv, TypeOK, Sent, Listed, ConfirmedIsCommitted, HandledNotRejected
    <2> QED BY <2>1, <2>2, BuiltStays DEF IInv
  <1> QED BY <1>2, <1>3, <1>4, <1>5, <1>6, <1>7 DEF Next

LEMMA Invariance == Spec => []IInv
  BY InitOK, Inductive, PTL DEF Spec

\* Columns, caches and lists keep their types, and neither t_account_info nor
\* t_did_cell_info is ever ahead of the chain.
THEOREM TypeCorrect == Spec => []TypeOK
  <1>1. IInv => TypeOK
      BY DEF IInv
  <1> QED BY <1>1, Invariance, PTL

\* A row says Confirm only if the transaction is on chain, whether a handler of
\* block_parser or UpdatePendingToConfirm wrote it.
THEOREM ConfirmedOnlyIfCommitted == Spec => []ConfirmedIsCommitted
  <1>1. IInv => ConfirmedIsCommitted
      BY DEF IInv
  <1> QED BY <1>1, Invariance, PTL

\* However checkRejected, a second send and block_parser interleave, the row of
\* a transaction that a handler confirms does not end as Rejected.
THEOREM HandledNeverRejected == Spec => []HandledNotRejected
  <1>1. IInv => HandledNotRejected
      BY DEF IInv
  <1> QED BY <1>1, Invariance, PTL

\* Only the node commits.
LEMMA CommitsOnly ==
    ASSUME IInv, Next, NEW r \in Requests, node[r] = "pool", node'[r] = "committed"
    PROVE  NodeCommits(r)
  <1> USE DEF chainVars, seenVars, signVars, rowVars, checkVars
  <1>0. node \in [Requests -> {"none", "pool", "committed", "rejected"}]
      BY DEF IInv, TypeOK
  <1>1. ASSUME NEW q \in Requests, Http(q) PROVE UNCHANGED node
    <2>1. PICK t : buildTx(q, t)
        BY <1>1 DEF Http, doEditOwner, doEditManager, doDidCellDasLockEditOwner, doEditRecords,
             doEditScript, doAccountAuctionBid, doDidCellEditRecord, doEditRecordsForDidCell,
             doDidCellRecycle, doBalancePay, doBalanceWithdraw, doBalanceDeposit, doBalanceTransfer
    <2> QED BY <2>1 DEF buildTx
  <1>2. ASSUME NEW q \in Requests,
               \/ SignKeyExpires(q) \/ CreatePending(q) \/ CreateAuctionOrder(q)
               \/ ParsingBlockData(q) \/ CheckRejectedOne(q)
               \/ (\E s \in Requests : ReplaceByCKBTx(q, s))
        PROVE  UNCHANGED node
      BY <1>2 DEF SignKeyExpires, CreatePending, CreateAuctionOrder, ParsingBlockData,
                  CheckRejectedOne, ReplaceByCKBTx
  <1>3. ASSUME NEW q \in Requests, doTransactionSend(q) PROVE node'[r] # "committed"
      BY <1>0, <1>3 DEF doTransactionSend, NodeTakes
  <1>4. ASSUME NEW q \in Requests, NodeRejects(q) PROVE node'[r] # "committed"
      BY <1>0, <1>4 DEF NodeRejects
  <1>5. ASSUME NEW q \in Requests, NodeCommits(q) PROVE q = r
      BY <1>0, <1>5 DEF NodeCommits
  <1>6. CASE \/ LimitExpires \/ DasCacheExpires \/ OtherTx \/ Sync \/ Tick
             \/ CheckRejectedList \/ CheckRejectedError \/ CheckRejectedEnd \/ Crash
      BY <1>6 DEF LimitExpires, DasCacheExpires, OtherTx, Sync, Tick, CheckRejectedList,
                  CheckRejectedError, CheckRejectedEnd, Crash
  <1> QED BY <1>1, <1>2, <1>3, <1>4, <1>5, <1>6 DEF Next

\* What is committed was permitted by the cell it spends, as it is on chain,
\* although the handler asked a row that may have been older.
THEOREM CommittedWasPermitted == Spec => CommittedIsPermitted
  <1> DEFINE P == \A r \in Requests : (node[r] = "pool" /\ node'[r] = "committed") => Permitted(tx[r])
  <1>1. ASSUME IInv, Next PROVE P
    <2> SUFFICES ASSUME NEW r \in Requests, node[r] = "pool", node'[r] = "committed"
                 PROVE  Permitted(tx[r])
        OBVIOUS
    <2>1. NodeCommits(r)
        BY <1>1, CommitsOnly
    <2>2. Fits(tx[r], acc, did, now) /\ tx[r].acc \in {0, Len(acc)} /\ tx[r].did \in {0, Len(did)}
        BY <1>1, <2>1, CommitFacts
    <2>3. /\ tx[r].acc # 0 => AccPermits(tx[r], LastAcc, now)
          /\ tx[r].did # 0 => DidPermits(tx[r], LastDid, now)
        BY <2>2 DEF Fits, LastAcc, LastDid
    <2> QED BY <2>3 DEF Permitted, AccPermits, DidPermits
  <1>2. IInv /\ [Next]_vars => [P]_vars
      BY <1>1
  <1> QED BY <1>2, Invariance, PTL DEF Spec, CommittedIsPermitted

\* What is committed changes of the last cell only what its handler is for: no
\* change that others made in the meantime is undone.  Where the customer sent a
\* CKBTx instead of what was built, that is so of owner and manager.
THEOREM NothingLost == Spec => NoLostUpdate
  <1> DEFINE P == \A r \in Requests : (node[r] = "pool" /\ node'[r] = "committed") =>
                    /\ tx[r].acc # 0 => Kept(tx[r], LastAcc, LastAcc')
                    /\ tx[r].did # 0 => Kept(tx[r], LastDid, LastDid')
  <1>1. ASSUME IInv, Next PROVE P
    <2> SUFFICES ASSUME NEW r \in Requests, node[r] = "pool", node'[r] = "committed"
                 PROVE  /\ tx[r].acc # 0 => Kept(tx[r], LastAcc, LastAcc')
                        /\ tx[r].did # 0 => Kept(tx[r], LastDid, LastDid')
        OBVIOUS
    <2>1. NodeCommits(r)
        BY <1>1, CommitsOnly
    <2>2. /\ Fits(tx[r], acc, did, now) /\ tx[r].acc \in {0, Len(acc)} /\ tx[r].did \in {0, Len(did)}
          /\ tx[r].acc # 0 => LastAcc' = tx[r].out
          /\ tx[r].did # 0 => LastDid' = tx[r].out
        BY <1>1, <2>1, CommitFacts DEF LastAcc, LastDid
    <2> QED BY <2>2 DEF Fits, LastAcc, LastDid
  <1>2. IInv /\ [Next]_vars => [P]_vars
      BY <1>1
  <1> QED BY <1>2, Invariance, PTL DEF Spec, NoLostUpdate

=============================================================================
