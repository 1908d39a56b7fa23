----------------------------- MODULE PendingTx -----------------------------
(***************************************************************************)
(* Transactions that the customer signs: edits of an account or a did      *)
(* cell, bids, transfers of balance.  A handler checks the request against *)
(* the database, builds the transaction and puts it into the sign cache;   *)
(* TransactionSend takes it from there, sends it and writes a row of       *)
(* t_register_pending_info; block_parser and the timer checkRejected       *)
(* decide what becomes of the row.                                         *)
(*                                                                         *)
(* The rows of t_account_info and t_did_cell_info are written by another   *)
(* service and lag behind the chain.  A cell is a position in the sequence *)
(* of all cells the account (the did cell) ever had; the last one is live. *)
(***************************************************************************)
EXTENDS Naturals, Sequences, FiniteSets

CONSTANTS
    Requests,       \* calls of a handler, each with a sign key of its own
    Users,          \* addresses
    Coins, OwnerOf, \* balance and DP cells, and whose they are
    Grace, Auction, \* periods after the expiry of an account
    Term,           \* for how long an account is registered
    FirstCell,      \* the account cell at the start
    Scenarios       \* what is called and what may fail, with the bounds

AccountHandlers == {"EditOwner", "EditManager", "EditRecords", "EditScript", "Bid"}
DidHandlers == {"DidCellEditRecord", "EditRecordsForDidCell", "DidCellEditOwner",
                "DidCellRecycle"}
BalanceHandlers == {"Pay", "Transfer", "Withdraw", "Deposit"}
AllHandlers == AccountHandlers \cup DidHandlers \cup BalanceHandlers

AllFaults == {"crash", "error", "lost", "replay", "reject", "other"}

\* What an account cell and a did cell say.  A did cell has no manager of its own.
Cells == [owner : Users, manager : Users, expiry : Nat,
          status : {"Normal", "OnCross", "OnUpgrade", "Recycled"}]

\* The action in the sign cache, which becomes the action of the row.
ActionOf(h) ==
    CASE h \in {"EditOwner", "DidCellEditOwner"} -> "transfer_account"
      [] h \in {"EditRecords", "DidCellEditRecord", "EditRecordsForDidCell"} -> "edit_records"
      [] h = "EditManager" -> "edit_manager"
      [] h = "EditScript" -> "config_sub_account_custom_script"
      [] h = "Bid" -> "bid_expired_account_auction"
      [] h = "DidCellRecycle" -> "recycle"
      [] h = "Pay" -> "transfer"
      [] h = "Transfer" -> "transfer_balance"
      [] h = "Withdraw" -> "withdraw_from_wallet"
      [] h = "Deposit" -> "balance_deposit"

\* The handlers that a request may call, or TransactionSend with a CKBTx, what
\* may fail, and two bounds: the clock stops at maxTime, foreign transactions
\* end at cell maxCell.
ScenarioType ==
    [calls : [Requests -> SUBSET (AllHandlers \cup {"CKBTx"})], faults : SUBSET AllFaults,
     maxTime : Nat, maxCell : Nat]

ASSUME PendingTxAssumption ==
    /\ OwnerOf \in [Coins -> Users] /\ Users # {} /\ Requests # {}
    /\ Grace \in Nat /\ Auction \in Nat /\ Term \in Nat
    /\ FirstCell \in Cells /\ FirstCell.status = "Normal"
    /\ Scenarios \subseteq ScenarioType

VARIABLES
    scenario,       \* never changes
    now,            \* time.Now and the time cell
    acc, did,       \* the account cells and the did cells so far
    accSeen, didSeen, \* the cell in t_account_info, in t_did_cell_info (0: none)
    live,           \* unspent coins
    tx,             \* the transaction of a request, NoTx before there is one
    signable,       \* requests whose sign key is in Redis
    limited,        \* the account limit is set
    used,           \* coins that dasCache holds back
    recording,      \* calls of TransactionSend between the send and its records
    row,            \* rows of t_register_pending_info
    auctionRow,     \* rows of t_auction_order
    node,           \* what the node says of a transaction
    blocks,         \* committed, not handled by block_parser yet
    checking, list, rejectedIDs \* checkRejected

chainVars == <<acc, did, live, node>>
seenVars  == <<accSeen, didSeen>>
signVars  == <<tx, signable, limited, used>>
rowVars   == <<row, auctionRow>>
checkVars == <<checking, list, rejectedIDs>>
vars == <<scenario, now, chainVars, seenVars, signVars, recording, rowVars, blocks, checkVars>>

Faults == scenario.faults
MaxTime == scenario.maxTime
MaxCell == scenario.maxCell

NoCell == [owner |-> "none", manager |-> "none", expiry |-> 0, status |-> "none"]
NoTx == [handler |-> "none", user |-> "none", acc |-> 0, did |-> 0, coins |-> {},
         out |-> NoCell, witness |-> "none", own |-> FALSE]

\* A transaction: who asked which handler for it, the cells it spends, the cell
\* it makes, the action in its witness, and whether it is the customer's own
\* version of what the handler built.  The witness carries the action of the
\* sign cache, except for a did cell, whose action no row has; "other" stands for
\* all the actions that confirm no row of this handler.
Txs == [handler : AllHandlers, user : Users, acc : Nat, did : Nat,
        coins : SUBSET Coins, out : Cells \cup {NoCell},
        witness : {ActionOf(h) : h \in AllHandlers} \cup {"update", "other"}, own : BOOLEAN]

Init ==
    /\ scenario \in Scenarios
    /\ now = 0
    /\ acc = <<FirstCell>>
    /\ did = <<>> /\ accSeen = 1 /\ didSeen = 0
    /\ live = Coins /\ used = {}
    /\ tx = [r \in Requests |-> NoTx]
    /\ signable = {} /\ limited = FALSE
    /\ recording = [r \in Requests |-> "none"]
    /\ row = [r \in Requests |-> "none"] /\ auctionRow = {}
    /\ node = [r \in Requests |-> "none"]
    /\ blocks = {} /\ checking = FALSE /\ list = {} /\ rejectedIDs = {}

-----------------------------------------------------------------------------
(* Building a transaction.                                                 *)

\* The inputs of a transaction are unspent.
Live(t) ==
    /\ t.acc \in {0, Len(acc)} /\ t.did \in {0, Len(did)} /\ t.coins \subseteq live

\* buildTx: BuildTransaction refuses inputs that are not live; the result goes
\* into the sign cache under a new key.
buildTx(r, t) ==
    /\ tx[r] = NoTx /\ t.handler \in scenario.calls[r] /\ Live(t)
    /\ tx' = [tx EXCEPT ![r] = t]
    /\ signable' = signable \cup {r}
    /\ UNCHANGED <<scenario, now, chainVars, seenVars, limited, used, recording, rowVars, blocks,
                   checkVars>>

IsExpired(c) == c.expiry <= now

\* The row of t_account_info that a handler reads, once: status, permission,
\* contents and outpoint are those of one cell, current or not.
AccountRow == acc[accSeen]
Editable(c) == c.status = "Normal" /\ ~IsExpired(c)

AccountTx(h, u, out, coins) ==
    [handler |-> h, user |-> u, acc |-> accSeen, did |-> 0, coins |-> coins, out |-> out,
     witness |-> ActionOf(h), own |-> FALSE]

\* Broken: the permission is checked on the row, the cell is read from the chain.
buildEditOwnerTxLatest(u, to) ==
    [handler |-> "EditOwner", user |-> u, acc |-> Len(acc), did |-> 0, coins |-> {},
     out |-> [acc[Len(acc)] EXCEPT !.owner = to, !.manager = to],
     witness |-> "transfer_account", own |-> FALSE]

buildEditOwnerTx(u, to) ==
    AccountTx("EditOwner", u, [AccountRow EXCEPT !.owner = to, !.manager = to], {})

doEditOwner(r, u, to) ==
    /\ ~limited
    /\ Editable(AccountRow) /\ AccountRow.owner = u /\ to # AccountRow.owner
    /\ buildTx(r, buildEditOwnerTx(u, to))

\* Broken: the contents of the row on the outpoint of the chain.
buildEditManagerTxLatest(u, to) ==
    [handler |-> "EditManager", user |-> u, acc |-> Len(acc), did |-> 0, coins |-> {},
     out |-> [AccountRow EXCEPT !.manager = to], witness |-> "edit_manager", own |-> FALSE]

\* The owner in the new lock is that of the row.
buildEditManagerTx(u, to) ==
    AccountTx("EditManager", u, [AccountRow EXCEPT !.manager = to], {})

doEditManager(r, u, to) ==
    /\ ~limited
    /\ Editable(AccountRow) /\ AccountRow.owner = u /\ to # AccountRow.manager
    /\ buildTx(r, buildEditManagerTx(u, to))

buildEditRecordsTx(u) == AccountTx("EditRecords", u, AccountRow, {})

doEditRecords(r, u) ==
    /\ ~limited
    /\ Editable(AccountRow) /\ AccountRow.manager = u
    /\ buildTx(r, buildEditRecordsTx(u))

\* The sub-account cell, the second input, is not part of the model.
buildEditScript(u) == AccountTx("EditScript", u, AccountRow, {})

doEditScript(r, u) ==
    /\ Editable(AccountRow) /\ AccountRow.owner = u
    /\ buildTx(r, buildEditScript(u))

checkDutchAuction(c) == c.expiry + Grace < now /\ now < c.expiry + Grace + Auction

\* GetBalanceCells and GetDpCells (external): some unspent cells of the address
\* that dasCache does not hold back.
Spendable(u) == {C \in SUBSET {c \in live \ used : OwnerOf[c] = u} : C # {}}

buildAuctionBidTx(u, C) ==
    AccountTx("Bid", u, [owner |-> u, manager |-> u, expiry |-> now + Term,
                         status |-> AccountRow.status], C)

doAccountAuctionBid(r, u) ==
    /\ AccountRow.status \in {"Normal", "OnCross"} /\ checkDutchAuction(AccountRow)
    /\ \E C \in Spendable(u) : buildTx(r, buildAuctionBidTx(u, C))

-----------------------------------------------------------------------------
(* Did cells.                                                              *)

DidRow == did[didSeen]
\* t_did_cell_info has a row of the address.
Holds(u) == didSeen > 0 /\ DidRow.status # "Recycled" /\ DidRow.owner = u

DidTx(h, u, out) ==
    [handler |-> h, user |-> u, acc |-> 0, did |-> didSeen, coins |-> {}, out |-> out,
     witness |-> "update", own |-> FALSE]

\* An account cell is edited by its manager, the did cell of an upgraded account
\* by whoever holds it.  Expiry and status are those of the account's row.
doDidCellEditRecord(r, u) ==
    /\ ~IsExpired(AccountRow)
    /\ \/ /\ AccountRow.status = "Normal" /\ AccountRow.manager = u
          /\ buildTx(r, AccountTx("DidCellEditRecord", u, AccountRow, {}))
       \/ /\ AccountRow.status = "OnUpgrade" /\ Holds(u)
          /\ buildTx(r, DidTx("DidCellEditRecord", u, DidRow))

doEditRecordsForDidCell(r, u) ==
    /\ Holds(u) /\ ~IsExpired(DidRow)
    /\ buildTx(r, DidTx("EditRecordsForDidCell", u, DidRow))

doDidCellDasLockEditOwner(r, u, to) ==
    /\ AccountRow.status = "OnUpgrade" /\ ~IsExpired(AccountRow) /\ to # u
    /\ Holds(u)
    /\ buildTx(r, DidTx("DidCellEditOwner", u, [DidRow EXCEPT !.owner = to, !.manager = to]))

\* The did cell ends.
doDidCellRecycle(r, u) ==
    /\ Holds(u) /\ DidRow.expiry + Grace <= now
    /\ buildTx(r, DidTx("DidCellRecycle", u, [DidRow EXCEPT !.status = "Recycled"]))

-----------------------------------------------------------------------------
(* Balance.  The change of a transaction is a new cell outside the model.  *)

CoinTx(h, u, C) ==
    [handler |-> h, user |-> u, acc |-> 0, did |-> 0, coins |-> C, out |-> NoCell,
     witness |-> ActionOf(h), own |-> FALSE]

buildBalancePayTx(u, C) == CoinTx("Pay", u, C)
\* The order is unpaid and to be paid from the balance: module Registration.
doBalancePay(r, u) == \E C \in Spendable(u) : buildTx(r, buildBalancePayTx(u, C))

buildBalanceWithdrawTx(u, C) == CoinTx("Withdraw", u, C)
doBalanceWithdraw(r, u) == \E C \in Spendable(u) : buildTx(r, buildBalanceWithdrawTx(u, C))

buildBalanceDepositTx(u, C) == CoinTx("Deposit", u, C)
doBalanceDeposit(r, u) == \E C \in Spendable(u) : buildTx(r, buildBalanceDepositTx(u, C))

buildBalanceTransferTx(u, C) == CoinTx("Transfer", u, C)
\* Everything the address has, also what dasCache holds back.
doBalanceTransfer(r, u) ==
    LET C == {c \in live : OwnerOf[c] = u}
    IN  C # {} /\ buildTx(r, buildBalanceTransferTx(u, C))

Http(r) == \E u \in Users :
    \/ \E to \in Users : \/ doEditOwner(r, u, to) \/ doEditManager(r, u, to)
                         \/ doDidCellDasLockEditOwner(r, u, to)
    \/ doEditRecords(r, u) \/ doEditScript(r, u) \/ doAccountAuctionBid(r, u)
    \/ doDidCellEditRecord(r, u) \/ doEditRecordsForDidCell(r, u) \/ doDidCellRecycle(r, u)
    \/ doBalancePay(r, u) \/ doBalanceWithdraw(r, u) \/ doBalanceDeposit(r, u)
    \/ doBalanceTransfer(r, u)

\* Ten minutes after the transaction was built.
SignKeyExpires(r) ==
    /\ r \in signable
    /\ signable' = signable \ {r}
    /\ UNCHANGED <<scenario, now, chainVars, seenVars, tx, limited, used, recording, rowVars, blocks,
                   checkVars>>

-----------------------------------------------------------------------------
(* TransactionSend.                                                        *)

\* Two transactions spend the same cell.
Conflict(t, s) ==
    \/ t.acc # 0 /\ t.acc = s.acc
    \/ t.did # 0 /\ t.did = s.did
    \/ t.coins \cap s.coins # {}

\* The node takes a transaction into its pool (external): the inputs are live and
\* no transaction of the pool spends them.  It also takes one it dropped before.
NodeTakes(r) ==
    /\ node[r] \in {"none", "rejected"} /\ Live(tx[r])
    /\ \A s \in Requests : node[s] = "pool" => ~Conflict(tx[r], tx[s])
    /\ node' = [node EXCEPT ![r] = "pool"]
    /\ UNCHANGED <<acc, did, live>>

\* What the customer may send as CKBTx (external): whether the cell it makes and
\* its witness are in order is for the contracts to say, which let the holder of
\* an account renew it or lock it for another chain, for instance.
Variants(t) ==
    LET cells == IF t.out = NoCell THEN {NoCell}
                 ELSE [owner : Users, manager : Users, expiry : {t.out.expiry, t.out.expiry + Term},
                       status : {t.out.status, "OnCross"}]
    IN  {[t EXCEPT !.out = v[1], !.witness = v[2], !.own = TRUE] :
            v \in cells \X {t.witness, "other"}}

\* What doTransactionSend compares: inputs and locks, which hold owner and
\* manager.  The comparison of the hashes is commented out.
SameInputsAndLocks(t, s) ==
    /\ s.acc = t.acc /\ s.did = t.did /\ s.coins = t.coins
    /\ s.out.owner = t.out.owner /\ s.out.manager = t.out.manager

\* TransactionSend with the sign key of r and a CKBTx, which replaces what was
\* built.  It has a hash and so a row of its own: it counts as another request,
\* which may be sent again like the first.
ReplaceByCKBTx(r, q) ==
    /\ r \in signable /\ tx[q] = NoTx /\ "CKBTx" \in scenario.calls[q]
    /\ \E s \in Variants(tx[r]) : SameInputsAndLocks(tx[r], s) /\ tx' = [tx EXCEPT ![q] = s]
    /\ signable' = signable \cup {q}
    /\ UNCHANGED <<scenario, now, chainVars, seenVars, limited, used, recording, rowVars, blocks,
                   checkVars>>

\* A sign key may be used as often as the customer likes until it expires.  With
\* "lost" the answer of the node does not arrive and nothing is recorded.
doTransactionSend(r) ==
    /\ r \in signable /\ NodeTakes(r)
    /\ \/ recording' = [recording EXCEPT ![r] = "pending"]
       \/ "lost" \in Faults /\ UNCHANGED recording
    /\ UNCHANGED <<scenario, now, seenVars, signVars, rowVars, blocks, checkVars>>

\* The limit, dasCache, the row.  CreatePending fails on the unique key if the
\* transaction was sent before; an error is only logged.
CreatePending(r) ==
    /\ recording[r] = "pending"
    /\ limited' = (limited \/ tx[r].handler \notin BalanceHandlers)
    /\ used' = used \cup tx[r].coins
    /\ \/ row' = [row EXCEPT ![r] = IF @ = "none" THEN "Pending" ELSE @]
       \/ "error" \in Faults /\ UNCHANGED row
    /\ recording' = [recording EXCEPT ![r] = IF tx[r].handler = "Bid" THEN "auction" ELSE "none"]
    /\ UNCHANGED <<scenario, now, chainVars, seenVars, tx, signable, auctionRow, blocks, checkVars>>

CreateAuctionOrder(r) ==
    /\ recording[r] = "auction"
    /\ \/ auctionRow' = auctionRow \cup {r}
       \/ "error" \in Faults /\ UNCHANGED auctionRow
    /\ recording' = [recording EXCEPT ![r] = "none"]
    /\ UNCHANGED <<scenario, now, chainVars, seenVars, signVars, row, blocks, checkVars>>

\* The limit ends after two minutes, an entry of dasCache after a while.
LimitExpires ==
    /\ limited /\ limited' = FALSE
    /\ UNCHANGED <<scenario, now, chainVars, seenVars, tx, signable, used, recording, rowVars, blocks,
                   checkVars>>

DasCacheExpires ==
    /\ \E c \in used : used' = used \ {c}
    /\ UNCHANGED <<scenario, now, chainVars, seenVars, tx, signable, limited, recording, rowVars, blocks,
                   checkVars>>

-----------------------------------------------------------------------------
(* The chain (external) and the service that fills t_account_info.         *)

Spend(cells, position, out) == IF position = 0 THEN cells ELSE Append(cells, out)

\* The node commits a transaction of its pool.
NodeCommits(r) ==
    /\ node[r] = "pool" /\ Live(tx[r])
    /\ node' = [node EXCEPT ![r] = "committed"]
    /\ acc' = Spend(acc, tx[r].acc, tx[r].out)
    /\ did' = Spend(did, tx[r].did, tx[r].out)
    /\ live' = live \ tx[r].coins
    /\ blocks' = blocks \cup {r}
    /\ UNCHANGED <<scenario, now, seenVars, signVars, recording, rowVars, checkVars>>

\* The node drops a transaction: always, once an input is spent.
NodeRejects(r) ==
    /\ node[r] = "pool" /\ ("reject" \in Faults \/ ~Live(tx[r]))
    /\ node' = [node EXCEPT ![r] = "rejected"]
    /\ UNCHANGED <<scenario, now, acc, did, live, seenVars, signVars, recording, rowVars, blocks,
                   checkVars>>

\* Somebody else's transaction transfers or renews the account, locks it for
\* another chain or upgrades it, or transfers the did cell.
OtherTx ==
    /\ "other" \in Faults
    /\ LET a == acc[Len(acc)] d == did[Len(did)] IN
       \/ /\ Len(acc) < MaxCell /\ did' = did
          /\ \/ \E u \in Users : acc' = Append(acc, [a EXCEPT !.owner = u, !.manager = u])
             \/ acc' = Append(acc, [a EXCEPT !.expiry = @ + Term])
             \/ a.status = "Normal" /\ acc' = Append(acc, [a EXCEPT !.status = "OnCross"])
       \/ /\ Len(acc) < MaxCell /\ a.status = "Normal"
          /\ acc' = Append(acc, [a EXCEPT !.status = "OnUpgrade"])
          /\ did' = Append(did, [a EXCEPT !.status = "OnUpgrade"])
       \/ /\ Len(did) \in 1..(MaxCell - 1) /\ d.status # "Recycled" /\ acc' = acc
          /\ \E u \in Users : did' = Append(did, [d EXCEPT !.owner = u, !.manager = u])
    /\ UNCHANGED <<scenario, now, live, node, seenVars, signVars, recording, rowVars, blocks,
                   checkVars>>

\* The two tables are written one after the other.
Sync ==
    /\ \/ accSeen < Len(acc) /\ accSeen' = accSeen + 1 /\ UNCHANGED didSeen
       \/ didSeen < Len(did) /\ didSeen' = didSeen + 1 /\ UNCHANGED accSeen
    /\ UNCHANGED <<scenario, now, chainVars, signVars, recording, rowVars, blocks, checkVars>>

Tick ==
    /\ now < MaxTime /\ now' = now + 1
    /\ UNCHANGED <<scenario, chainVars, seenVars, signVars, recording, rowVars, blocks, checkVars>>

-----------------------------------------------------------------------------
(* block_parser.                                                           *)

UpdatePendingStatusToConfirm(action, r) ==
    row' = [row EXCEPT ![r] = IF row[r] # "none" /\ ActionOf(tx[r].handler) = action
                              THEN "Confirm" ELSE @]

\* Handlers that want an account cell among the outputs (isCurrentVersionTx).
ActionEditRecords(r) ==
    /\ tx[r].witness = "edit_records" /\ tx[r].acc # 0
    /\ UpdatePendingStatusToConfirm("edit_records", r) /\ UNCHANGED used

ActionEditManager(r) ==
    /\ tx[r].witness = "edit_manager" /\ tx[r].acc # 0
    /\ UpdatePendingStatusToConfirm("edit_manager", r) /\ UNCHANGED used

\* These two let dasCache forget the inputs.
ActionTransferAccount(r) ==
    /\ tx[r].witness = "transfer_account" /\ tx[r].acc # 0
    /\ UpdatePendingStatusToConfirm("transfer_account", r) /\ used' = used \ tx[r].coins

DidCellActionUpdate(r) ==
    /\ tx[r].witness = "update"
    /\ UpdatePendingStatusToConfirm("update", r) /\ used' = used \ tx[r].coins

ActionBidExpiredAccountAuction(r) ==
    /\ tx[r].witness = "bid_expired_account_auction" /\ tx[r].acc # 0
    /\ UpdatePendingStatusToConfirm("bid_expired_account_auction", r) /\ UNCHANGED used

\* Handlers for balance cells under the lock of the service's customers.
ActionTransferPayment(r) ==
    /\ tx[r].witness = "transfer" /\ tx[r].coins # {}
    /\ UpdatePendingStatusToConfirm("transfer", r) /\ UNCHANGED used

ActionWithdrawFromWallet(r) ==
    /\ tx[r].witness = "withdraw_from_wallet" /\ tx[r].coins # {}
    /\ UpdatePendingStatusToConfirm("withdraw_from_wallet", r) /\ UNCHANGED used

ActionTransferBalance(r) ==
    /\ tx[r].witness = "transfer_balance" /\ tx[r].coins # {}
    /\ UpdatePendingStatusToConfirm("transfer_balance", r) /\ UNCHANGED used

\* Without a handler, or with one that touches no row of this module.
Unhandled == {"config_sub_account_custom_script", "balance_deposit", "other"}

\* parsingBlockData.  With "replay" the block is handled once more, after an error
\* or a restart.
ParsingBlockData(r) ==
    /\ r \in blocks
    /\ \/ ActionEditRecords(r) \/ ActionEditManager(r) \/ ActionTransferAccount(r)
       \/ DidCellActionUpdate(r) \/ ActionBidExpiredAccountAuction(r)
       \/ ActionTransferPayment(r) \/ ActionWithdrawFromWallet(r) \/ ActionTransferBalance(r)
       \/ tx[r].witness \in Unhandled /\ UNCHANGED <<row, used>>
    /\ \/ blocks' = blocks \ {r}
       \/ "replay" \in Faults /\ UNCHANGED blocks
    /\ UNCHANGED <<scenario, now, chainVars, seenVars, tx, signable, limited, recording, auctionRow,
                   checkVars>>

-----------------------------------------------------------------------------
(* checkRejected, a timer of 35 seconds.                                   *)

\* Broken: rows of actions that block_parser has a handler for are left to it.
SearchMaybeRejectedPendingUnhandled ==
    {r \in Requests : row[r] = "Pending" /\ tx[r].witness \in Unhandled \cup {"update"}}

SearchMaybeRejectedPending == {r \in Requests : row[r] = "Pending"}

CheckRejectedList ==
    /\ ~checking /\ SearchMaybeRejectedPending # {}
    /\ checking' = TRUE /\ list' = SearchMaybeRejectedPending /\ rejectedIDs' = {}
    /\ UNCHANGED <<scenario, now, chainVars, seenVars, signVars, recording, rowVars, blocks>>

\* Broken: status is given the answer of the node.
UpdatePendingToConfirmWrongColumn(r) == row' = [row EXCEPT ![r] = node[r]]

UpdatePendingToConfirm(r) == row' = [row EXCEPT ![r] = "Confirm"]

\* Broken: everything the node has not rejected is confirmed.
CheckRejectedOneUnlessRejected(r) ==
    /\ checking /\ r \in list
    /\ list' = list \ {r}
    /\ rejectedIDs' = rejectedIDs \cup (IF node[r] = "rejected" THEN {r} ELSE {})
    /\ IF node[r] # "rejected" THEN UpdatePendingToConfirm(r) ELSE UNCHANGED row
    /\ UNCHANGED <<scenario, now, chainVars, seenVars, signVars, recording, auctionRow, blocks,
                   checking>>

\* GetTransaction for one row of the list.
CheckRejectedOne(r) ==
    /\ checking /\ r \in list
    /\ list' = list \ {r}
    /\ rejectedIDs' = rejectedIDs \cup (IF node[r] = "rejected" THEN {r} ELSE {})
    /\ IF node[r] = "committed" THEN UpdatePendingToConfirm(r) ELSE UNCHANGED row
    /\ UNCHANGED <<scenario, now, chainVars, seenVars, signVars, recording, auctionRow, blocks,
                   checking>>

\* GetTransaction or UpdatePendingToRejected failed: what was found is dropped.
\* GetBlock or UpdatePendingToConfirm failed: the row is left for the next time.
CheckRejectedError ==
    /\ "error" \in Faults /\ checking
    /\ \/ /\ list # {} \/ rejectedIDs # {}
          /\ checking' = FALSE /\ list' = {} /\ rejectedIDs' = {}
       \/ /\ \E r \in list : node[r] = "committed" /\ list' = list \ {r}
          /\ UNCHANGED <<checking, rejectedIDs>>
    /\ UNCHANGED <<scenario, now, chainVars, seenVars, signVars, recording, rowVars, blocks>>

\* Broken: WHERE id IN(?)
UpdatePendingToRejectedAnyStatus(ids) ==
    row' = [r \in Requests |-> IF r \in ids THEN "Rejected" ELSE row[r]]

\* WHERE block_number=0 AND status=0 AND id IN(?)
UpdatePendingToRejected(ids) ==
    row' = [r \in Requests |-> IF r \in ids /\ row[r] = "Pending" THEN "Rejected" ELSE row[r]]

CheckRejectedEnd ==
    /\ checking /\ list = {}
    /\ UpdatePendingToRejected(rejectedIDs)
    /\ checking' = FALSE /\ rejectedIDs' = {} /\ list' = {}
    /\ UNCHANGED <<scenario, now, chainVars, seenVars, signVars, recording, auctionRow, blocks>>

\* The process restarts: requests, lists and dasCache are lost, Redis is not.
Crash ==
    /\ "crash" \in Faults
    /\ recording' = [r \in Requests |-> "none"] /\ used' = {}
    /\ checking' = FALSE /\ list' = {} /\ rejectedIDs' = {}
    /\ UNCHANGED <<scenario, now, chainVars, seenVars, tx, signable, limited, rowVars, blocks>>

Next ==
    \/ \E r \in Requests :
          \/ Http(r) \/ SignKeyExpires(r) \/ (\E q \in Requests : ReplaceByCKBTx(r, q))
          \/ doTransactionSend(r) \/ CreatePending(r) \/ CreateAuctionOrder(r)
          \/ NodeCommits(r) \/ NodeRejects(r)
          \/ ParsingBlockData(r) \/ CheckRejectedOne(r)
    \/ LimitExpires \/ DasCacheExpires \/ OtherTx \/ Sync \/ Tick
    \/ CheckRejectedList \/ CheckRejectedError \/ CheckRejectedEnd \/ Crash

Spec == Init /\ [][Next]_vars

\* The node decides on what it holds, block_parser and the ticker of
\* checkRejected never end, errors and restarts are transient.
LiveSpec ==
    /\ Spec
    /\ \A r \in Requests :
          /\ WF_vars(NodeCommits(r) \/ NodeRejects(r)) /\ WF_vars(SignKeyExpires(r))
          /\ WF_vars(ParsingBlockData(r)) /\ WF_vars(CheckRejectedOne(r))
    /\ WF_vars(CheckRejectedList) /\ WF_vars(CheckRejectedEnd)
    /\ <>[][~CheckRejectedError /\ ~Crash]_vars

-----------------------------------------------------------------------------
(* Properties.                                                             *)

\* Every column, cache and list has values of its type, and neither table is
\* ahead of the chain.
TypeOK ==
    /\ scenario \in Scenarios /\ now \in Nat
    /\ acc \in Seq(Cells) /\ did \in Seq(Cells) /\ Len(acc) > 0
    /\ accSeen \in 1..Len(acc) /\ didSeen \in 0..Len(did)
    /\ live \subseteq Coins /\ used \subseteq Coins
    /\ tx \in [Requests -> Txs \cup {NoTx}]
    /\ signable \subseteq Requests /\ limited \in BOOLEAN
    /\ recording \in [Requests -> {"none", "pending", "auction"}]
    /\ row \in [Requests -> {"none", "Pending", "Rejected", "Confirm"}]
    /\ auctionRow \subseteq Requests
    /\ node \in [Requests -> {"none", "pool", "committed", "rejected"}]
    /\ blocks \subseteq Requests
    /\ checking \in BOOLEAN /\ list \subseteq Requests /\ rejectedIDs \subseteq Requests

\* A customer is told Confirm only of a transaction that is on chain, whoever
\* wrote it: a handler of block_parser (by action and outpoint) or
\* checkRejected (by id, on a status it asked for earlier).
ConfirmedIsCommitted == \A r \in Requests : row[r] = "Confirm" => node[r] = "committed"

\* Transactions whose row a handler of block_parser confirms.
Confirmable(t) == t.witness = ActionOf(t.handler) /\ t.witness \notin Unhandled

\* A transaction that the node dropped may be sent again with the same sign key
\* and commit while checkRejected still holds the old answer, or after it marked
\* the row.  Once block_parser has handled the block, the row is not Rejected.
HandledNotRejected ==
    \A r \in Requests : (/\ node[r] = "committed" /\ r \notin blocks
                         /\ Confirmable(tx[r])) => row[r] # "Rejected"

LastAcc == acc[Len(acc)]
LastDid == did[Len(did)]

\* The one who asked may do this to the cell that the transaction spends.
Permitted(t) ==
    /\ t.acc # 0 =>
          CASE t.handler \in {"EditOwner", "EditManager", "EditScript"} -> LastAcc.owner = t.user
            [] t.handler \in {"EditRecords", "DidCellEditRecord"} -> LastAcc.manager = t.user
            [] t.handler = "Bid" -> LastAcc.expiry + Grace < now
            [] OTHER -> FALSE
    /\ t.did # 0 =>
          /\ LastDid.owner = t.user
          /\ t.handler = "DidCellRecycle" => LastDid.expiry + Grace <= now

\* The handlers check permissions and the auction on rows that lag behind the
\* chain.  What is committed was nevertheless permitted by the cell it spends,
\* as that cell is on chain: row and outpoint are read together.
CommittedIsPermitted ==
    [][\A r \in Requests : (node[r] = "pool" /\ node'[r] = "committed") => Permitted(tx[r])]_vars

\* What the transaction of a handler leaves of the cell it spends.
Keeps(h, old, new) ==
    /\ h \in {"EditRecords", "EditScript", "DidCellEditRecord", "EditRecordsForDidCell"} =>
          new = old
    /\ h = "EditManager" => new = [old EXCEPT !.manager = new.manager]
    /\ h \in {"EditOwner", "DidCellEditOwner"} =>
          new = [old EXCEPT !.owner = new.owner, !.manager = new.manager]
    /\ h = "DidCellRecycle" => new.status = "Recycled"

\* What the customer's own version leaves of it: the locks that the handler
\* does not change.
KeepsLocks(h, old, new) ==
    /\ h \in {"EditRecords", "EditScript", "DidCellEditRecord", "EditRecordsForDidCell"} =>
          new.owner = old.owner /\ new.manager = old.manager
    /\ h = "EditManager" => new.owner = old.owner

Kept(t, old, new) ==
    IF t.own THEN KeepsLocks(t.handler, old, new) ELSE Keeps(t.handler, old, new)

\* No update is lost: builders copy owner, manager and expiry from the row, and
\* yet a committed transaction changes only what its handler is for, relative
\* to the last cell, also when others changed the account in the meantime.  Of
\* a CKBTx this is said of owner and manager only, as doTransactionSend compares
\* no more: expiry and status are what the customer and the contracts make them.
NoLostUpdate ==
    [][\A r \in Requests : (node[r] = "pool" /\ node'[r] = "committed") =>
          /\ tx[r].acc # 0 => Kept(tx[r], LastAcc, LastAcc')
          /\ tx[r].did # 0 => Kept(tx[r], LastDid, LastDid')]_vars

\* A row does not stay Pending: the parser, or checkRejected for a row that was
\* written after its block was handled or that no handler is for, ends it.
PendingEnds == \A r \in Requests : (row[r] = "Pending") ~> (row[r] # "Pending")

=============================================================================
