# A TLA+ verification of das-register

das-register registers `.bit` accounts on the Nervos CKB chain. A customer
places an order and pays, the service sends the transactions that create the
account, and when the account is lost to somebody else the payment goes back.
This directory models the parts of the service that carry that promise, checks
them with TLC and proves the most important invariants with TLAPS.

## 1. The system

One process (`cmd/main.go`) runs several loops. They share nothing but MySQL,
Redis, the CKB node and the UniPay service, and they take no lock: what keeps
them apart are the `WHERE` clauses of the updates in `dao/`.

| Component | State it keeps | Operations | Hard behaviour |
|---|---|---|---|
| Order API (`http_server/handle`) | rows of `t_das_order_info`, `t_das_order_pay_info` | place, change, pay, internal registration | the checks and the insert are separate calls |
| UniPay confirmation (`unipay/confirm_status.go`, `unipay_notice.go`) | pay rows | `UpdatePayment`, by notice and by poll | late and repeated notices |
| txtool (`txtool/`) | a list in memory, `pay_status`, `pre_register_status`, rows of `t_das_order_tx_info` | `doOrderApplyTx` (5 s), `doOrderPreRegisterTx` (6 s), `doOrderRenewTx` (7 s), all in one goroutine; `doDidCellTx` (10 s) in another | marks Ok, sends, records: each step may fail or be the last before a crash |
| block_parser handlers (`block_parser/action_*.go`) | `register_status`, tx rows, refunds of losing orders | one handler an action | a block is handled again after an error or a crash |
| block_parser loop (`block_parser/block_parser.go`) | the cursor, `t_block_parser_info` | sub mode, concurrency mode, fork check | reorganisations, restarts, the limit of 20 rows |
| Timers (`timer/`) | lists in memory | expiry, rejected transactions, closed and unrefunded orders, recycling of cells, coupons, pending rows | decide on what they read earlier |
| UniPay refund and hedge (`unipay/refund.go`, `hedge.go`) | `refund_status`, `uni_pay_refund_status`, `hedge_status` | `doRefund` (10 min), `doOrderHedge` (3 min) | the remote call and the mark are two steps |
| Renewal, did-cell orders | the same tables, a Redis cache | `doOrderRenewTx`, `doDidCellTx`, `ActionRenewAccount` | partial updates, an expiring cache |
| Gift cards | `t_coupon`, a Redis lock | `checkCoupon`, `CreateCouponOrder`, `doUpdateCoupon` | check before lock |
| Edits, bids, balance (`http_server/handle/edit_*.go`, `did_cell_*.go`, `auction_bid.go`, `balance_*.go`) | the sign cache | a handler checks the request and builds a transaction for the customer to sign | the rows it checks lag behind the chain |
| Signed transactions (`transaction_send.go`, `timer/rejected.go`, handlers of block_parser) | `t_register_pending_info`, `t_auction_order`, the account limit, `dasCache` | `TransactionSend`, `checkRejected`, parser | two actors end one row; a key may be used again |
| Queries, notifications | none | | |

What makes each correct, in a sentence:

* *registration*: an account goes to one order; the money of an order is kept
  or returned, never returned for an order that got its account; a paid order
  is settled one way or the other; nothing that block_parser meets stops it;
* *block_parser loop*: every block is handled, after the one it builds on, also
  across forks and restarts; the parser catches up;
* *refunds*: a payment is returned at most once and, if marked, at last;
* *renewal*: a paid renewal is executed or refunded;
* *signed transactions*: what was checked on an old row still holds of the cell
  that is spent, nothing others changed is overwritten, and the row of a
  transaction says at last, and truly, what became of it;
* *gift cards*: a card pays for one order, and comes back if the order is lost.

## 2. Modules

| Module | What it is |
|---|---|
| `Registration` | orders, payments, transactions, chain, txtool, parser handlers, timers |
| `Settlement` | the abstract promise of registration: who was granted an account, which payments were taken and returned |
| `MCRegistration` | instances: one account, customer `ua` with orders `o1` and `o2`, gift-card order `g1` of `ub`, internal order `i1` of `uc`, foreign pre_register `w1`, payments `p1`, `p2` |
| `RegistrationProofs` | theorems about `Registration` under every fault |
| `SettlementProofs` | theorems about what `Registration` promises: that it implements `Settlement`, and what of it concerns refunds |
| `BlockParser` | the loop of block_parser over a chain with forks |
| `MCBlockParser` | two deployments: sub mode only, and both modes |
| `BlockParserProofs` | theorems about `BlockParser` |
| `Refund` | pay rows between the service and UniPay: notices, polls, refunds, disputes |
| `MCRefund` | instances: two payments, for one registration or for a registration and a did-cell order |
| `RefundProofs` | theorems about `Refund` |
| `Renewal` | renewals and did-cell orders: txtool's two goroutines, the cell of the account, the handler of renew_account |
| `MCRenewal` | instances: renewal `r1`, internal renewal `i1`, did-cell renewal `d1`, did-cell transfer `t1` of one account, a registration `g1` of another |
| `RenewalProofs` | theorems about `Renewal` |
| `PendingTx` | transactions the customer signs: handlers, sign cache, `TransactionSend`, pending rows, `checkRejected` |
| `MCPendingTx` | four scenarios: one request of any handler, two that compete for the account cell, two that compete for a coin, a customer's own version of a built transaction |
| `PendingTxProofs` | theorems about `PendingTx` |

### Registration

The variables are the columns that the code branches on:

| Variable | Code |
|---|---|
| `orderStatus` | `order_status` (`none`: no row yet) |
| `payStatus`, `preStatus`, `hedgeStatus` | `pay_status`, `pre_register_status`, `hedge_status` (Default, Sending, Ok) |
| `regStatus` | `register_status` 0..6 |
| `payRow`, `refund` | a row of `t_das_order_pay_info`: its `status`; `refund_status` is no longer Default |
| `applyRow`, `preRow`, `proposeRow` | rows of `t_das_order_tx_info` for the three actions |
| `placing` | HTTP requests between their checks and their insert |
| `job`, `todo`, `sending`, `sent` | txtool's goroutine: the list it serves, the order that is marked and not sent, the transaction that is sent and has no row yet |
| `unrefund` | the list of `doCheckClosedAndUnRefund` |
| `applyTx`, `preTx`, `spends`, `blocks` | the chain: transactions, the apply cell a pre_register spends, the transactions block_parser has not handled |
| `old` | orders created more than 30 days ago |

Each DAO call (a single UPDATE or one gorm transaction) and each call of the
node is one atomic step; all actors interleave between them. Two updates are
part of the step before them: txtool takes back a mark, or closes the order, in
the step in which the node refuses. A transaction is identified by its order and
the number of the attempt. `CAS` is an `UPDATE ... WHERE status = old`, whose
RowsAffected the code never looks at. A pre_register transaction without a row
makes block_parser create an `OrderTypeOther` order, named in the model by the
transaction itself.

Sending a transaction (`SendApplyTx`, `SendPreTx`) and writing its row
(`RecordApplyTx`, `RecordPreTx`) are two steps, with `sent` between them. The
block of the transaction may be handled there. In the code nothing but time
prevents it: the row follows within milliseconds, while block_parser stays
`ConfirmNum` blocks behind the tip. The fault `late` stands for the case that
this is not enough; without it `InTime` keeps the parser from that one block.
`registration_faults` and `registration_compete` have `late`; `registration_replay` holds with it
as well, but is then too large for every day (1.5 million states).

What may go wrong is chosen per instance by the constant `Faults`:

| Fault | Meaning |
|---|---|
| `crash` | the process stops between two calls; lists in memory are lost |
| `replay` | block_parser handles a block again (error or crash before `CreateBlockInfo`) |
| `error` | a call of txtool fails: before the mark the batch is aborted, at the send the order is unmarked |
| `lost` | the node took the transaction but `SendTransaction` returned an error |
| `unrecorded` | `CreateOrderTx` failed after the send; the code only logs it. A crash between the two has the same effect |
| `late` | block_parser handles a transaction before its row is written |
| `closing` | the node refuses with code 35 or 53: the order is closed for refund |
| `rejectApply`, `rejectPre` | the node drops a transaction from its pool |
| `recycle` | `doRecycleApply` takes back an apply cell |
| `recyclePre` | `doRecyclePre` takes back a pre-account cell (if configured) |
| `age` | thirty days pass |

`MaxSend` bounds the attempts for each transaction; the faults that make a
retry necessary leave one attempt over.

### Settlement

Three sets: `granted`, `taken`, `returned`. A grant requires that no order of
the account was granted before and that no payment of the winner is or becomes
returned; a return requires that its order was not granted. `Registration`
implements it with `granted` = the Registered orders, `taken` = the pay rows and
`returned` = the payments whose refund was ordered. One kind of Registered order
is left out of `granted`: the order that block_parser made of a transaction of
ours, if the order it was sent for is Registered as well (`Twin`). With a late
row there are such pairs; the account is ours either way and the customer is
served once.

### BlockParser

A block is the path from the genesis block, so number and parent are those of
the path. The steps of the loop are the calls of `Run`, `parserSubMode` and
`parserConcurrencyMode`: read the tip, get the block, check the fork, handle,
`CreateBlockInfo`, `DeleteBlockInfo`. An error or a crash may follow each of
them. `Sub` is the subtraction on uint64, with `Wrap` for 2^64. `Keep` stands
for the 20 of the code, `start` remembers the first block asked for.

`conf` is the deployment: the configuration (`ConfirmNum`, `ConcurrencyNum`, the
block number to start from) with the chain it meets and the deepest
reorganisation of that chain. `WithinLimits` says for which deployments the
parser is right: a chain as long as the unsigned subtractions need, and
reorganisations that reach neither below the table of hashes nor, in concurrency
mode, below the confirmed blocks.

### Refund

| Variable | Code |
|---|---|
| `status`, `refundStatus`, `uniRefund`, `age` | `status`, `refund_status`, `uni_pay_refund_status` and the `timestamp` of a row of `t_das_order_pay_info`; the queries only look within 24 hours (`age = 0`) or three days (`age < 2`) |
| `refunding`, `list`, `toReset` | `doRefund`: the list it has read, the rows it still has to set back |
| `polling`, `pending`, `confirmed`, `back` | `doConfirmStatus`: the orders and refunds it asks about, then the answer it still has to apply |
| `lost` | orders closed without their account: by txtool, by expiry, by another order's confirm_proposal, by a refused did-cell transaction |
| `proposed` | registrations whose `register_status` has reached Proposal |
| `uni`, `asked`, `notices` | UniPay (external): what it did with the payment, how often it was asked, what it told |

A notice stays in `notices` once UniPay has sent it, and nothing forces its
delivery: it may be lost, late, repeated and overtaken. `Registration` decides
which orders are lost and which have a pre-account cell (`DoActionPreRegister`);
`Refund` lets both happen at any time, in any order. Both modules have the same
`DoActionConfirmProposal` of a losing order, which also marks payments that are
not confirmed, and the same `UpdatePayToRefund` for the orders that
`GetClosedAndUnRefundOrders` finds, that is, those with
`register_status < Proposal`; listing and marking are one step here and two in
`Registration`. `Disputable` are the payments that their payer may dispute. The
faults are `crash`, `error` (a call fails, or only its answer is lost) and
`age`.

### Renewal

Every order here changes an account that exists, and so spends its current
cell. A number stands for the cell: `cell` on chain, `seen` in `t_account_info`,
`built` in the transaction of the order. The node takes a transaction only if it
was built on the current cell and no other transaction of the pool spends it.

| Variable | Code |
|---|---|
| `id`, `orderStatus`, `payStatus`, `regStatus`, `hedgeStatus` | the columns of `t_das_order_info`; `id` decides which orders a list with `LIMIT` contains |
| `paid`, `refund` | rows of `t_das_order_pay_info` that are confirmed, that are marked for refund |
| `cache` | the transaction of a did-cell order in Redis: none, signed, gone |
| `row`, `foreign` | rows of `t_das_order_tx_info`; those of an `OrderTypeOther` order |
| `todo`, `sending` | of `doOrderRenewTx` and of `doDidCellTx`, which are goroutines of their own: the list, the order that is marked and not sent |
| `pool`, `sent`, `committed`, `blocks` | the node and what block_parser has not handled |
| `parsing` | block_parser between the three updates of `DoActionRenewAccount`, two of which bypass its gorm transaction |

Renewals are built when they are sent, did-cell orders when they are placed: the
customer signs, `TransactionSend` puts the signed transaction into Redis (or one
the customer sent instead, see PendingTx; only its inputs matter here), and
`doDidCellTx` sends it once the payment is confirmed. A renewal that cannot be
sent is unmarked and tried again; a did-cell order that cannot be sent is closed
and refunded.

The faults are `crash`, `error`, `lost`, `unrecorded` and `replay` as above,
`undone` (the update that takes back a mark, or refunds, fails as well),
`reject` (the node drops a transaction), `other` (somebody else's transaction
spends the cell), `cross` (the account moves to another chain) and `unsigned`
(the customer pays without signing, or Redis forgets the transaction).

### PendingTx

The account and the did cell are the sequences of all cells they ever had; a
position stands for an outpoint and the last cell is the live one. A coin is a
balance or DP cell. The handlers read one row of `t_account_info` or
`t_did_cell_info`, written by another service and possibly behind the chain,
check permission, status and expiry on it, and build the transaction on its
outpoint. `BuildTransaction` refuses inputs that are not live.

| Variable | Code |
|---|---|
| `acc`, `did`, `live`, `node`, `now` | the chain (external): cells, unspent coins, what the node says of a transaction, the clock |
| `accSeen`, `didSeen` | the cells that `t_account_info` and `t_did_cell_info` show |
| `tx`, `signable` | the transaction of a request; its sign key is in Redis (ten minutes) |
| `limited` | the limit on the account in Redis (`cache/limit.go`, two minutes) |
| `used` | `dasCache`: coins that are not offered again |
| `recording` | `TransactionSend` between the send, `CreatePending` and `CreateAuctionOrder` |
| `row`, `auctionRow` | `status` of a row of `t_register_pending_info`; rows of `t_auction_order` |
| `blocks` | transactions on chain that block_parser has not handled |
| `checking`, `list`, `rejectedIDs` | `checkRejected`: running, the rows still to ask for, those to be marked |
| `scenario` | which handlers the requests may call, the faults, the bounds; it never changes |

Thirteen handlers are actions: edits of owner, manager, records and script, the
bid, the did-cell edits, the recycling of a did cell, and pay, transfer,
withdraw and deposit of balance. The key in the sign cache stays after a send,
so a customer may send the same transaction again. block_parser confirms a row
by the action of the witness and the outpoint, `checkRejected` by id: the node
is asked for each row of the list, rows of committed transactions are confirmed
at once, those of rejected ones marked together at the end.

A customer may also send a transaction of his own, the `CKBTx` of the request,
in place of what was built. `doTransactionSend` compares the inputs and the
output locks of the two; the comparison of the hashes is commented out
(`transaction_send.go:166-180`). Owner and manager of an account are in its
lock, its expiry and status are not: of those only the contracts have a say.
`ReplaceByCKBTx` puts such a version (`Variants`) into `tx`, with `own` set and
with a witness that may name another action. The version has another hash and
so another row: in the model it is another request, and it may be sent beside
the built transaction or instead of it. Its sign key may expire apart from that
of the original, which adds behaviours.

What the node has committed stays committed. Both block_parser
(`ConfirmNum` blocks behind the tip) and `checkRejected` (at the tip itself)
write Confirm into a row for good, so that a reorganisation may leave Confirm
for a transaction that is on chain no more. `ConfirmedIsCommitted` is about
chains without one; it says that no error, stale answer or restart is taken for
a commit.

The faults are `crash`, `error` (a call of `checkRejected` fails, a record of
`TransactionSend` is not written), `lost` (the answer to the send), `replay`,
`reject` (the node drops a transaction) and `other` (somebody else transfers or
renews the account, locks it for another chain or upgrades it, or transfers the
did cell).

## 3. Runs

| Run | Question | Answer |
|---|---|---|
| `registration_faults` | One order, two payments, a foreign registrar, all failures of txtool, node and database, late rows, two attempts: is anyone served and refunded, is an order closed where no timer looks? | `ServedNotRefunded`, `NoLimbo`, `OneRegistered` hold and `Settlement` is implemented (`PromiseKept`) (1 million states) |
| `registration_replay` | An order and the order it is changed to, blocks handled again, apply cells recycled, 30 days pass: what survives? | `OneRegistered`, `ParserNeverHalts`, `PreHasApply`, `RegMonotone` hold (700 000 states) |
| `registration_compete` | A customer, a gift-card order and an internal order, which expiry may close while it is served, compete for one account, rows come late, pre-account cells are taken back: is the promise kept? | `Settlement` is implemented (`PromiseKept`), `NoLimbo` and `ClosedIsFinal` hold (600 000 states) |
| `registration_live` | One order with two payments, retries, recycling, a foreign registrar: is each payment settled that comes while the order is open, or was closed before Proposal? | `PaidIsSettled` holds (63 000 states) |
| `parser` | Sub mode and both modes together, crashes, errors, reorganisations exactly as deep as the limits allow: is a block skipped, does the parser catch up? | `TypeOK`, `NoBlockSkipped`, `CatchesUp` hold (268 000 states) |
| `pending` | One request of any handler beside foreign transactions, from the registration to the end of the auction; two requests for one account cell or one coin; a version of the customer's own; under every fault: is what was checked on old rows right when it is committed, do the rows tell the truth, do they end? | `CommittedIsPermitted`, `NoLostUpdate`, `ConfirmedIsCommitted`, `HandledNotRejected`, `PendingEnds` hold (362 000 states) |
| `refund_faults` | Both loops fail and crash at every call, notices arrive in any order, rows grow old, payments are disputed, one of two orders is not UniPay's | `RefundedIsReturned`, `OnlyLostAsked`, `NotAskedAgain`, `DisputeIsFinal` hold (696 000 states) |
| `refund_live` | Every notice may be lost, loops fail and crash, one of the two payments is disputed: is what was announced confirmed, is a payment of a registration lost before Proposal returned? | `ConfirmedAtLast`, `ReturnedAtLast` hold (30 000 states) |
| `renewal_faults` | A renewal and a did-cell transfer compete for one cell beside a registration, under all faults except `lost`: is one served twice, or served and refunded, hedged for nothing, handled by half, sent when closed? | `ServedOnce`, `ServedNotRefunded`, `HedgedIsServed`, `HandledIsComplete`, `ClosedNotSent` hold (1.3 million states) |
| `renewal_live` | A renewal and a did-cell renewal, errors, lost answers, foreign transactions: is a paid order served or refunded? | `PaidIsServed` holds |
| `renewal_queue` | A customer's and an internal renewal and a list of length one | `PaidIsServed` holds: the paid one is served or refunded, whichever is first in the list |
| `renewal_late` | Is a closed renewal with a confirmed payment refunded, as the query quoted at `timer/refund_apply.go:291` suggests? | No: `ClosedRenewalRefunded` is violated |

`renewal_late` is the one run that is expected to fail. The comment in
`doCheckClosedAndUnRefund` gives a query for closed orders with
`action='renew_account'`, `pay_status='1'` and a confirmed payment that is not
refunded; the query that runs, `GetClosedAndUnRefundOrders`
(`dao/t_das_order_info.go:406`), asks for apply_register. A renewal that is closed before its payment is confirmed (it
expired, or the account went to another chain) keeps the payment.

Deadlock is not checked: an instance ends when its orders are settled, its
attempts used up, its chain at the maximal height, or when its clock has stopped
and every pending row has ended.

### Where the properties stop

Found with the same models, and worth knowing when the code is changed:

* With `replay` and `recycle` together `NoLimbo`, `ServedNotRefunded`,
  `ClosedIsFinal` and `PromiseKept` do not hold. The block of an apply transaction is handled again
  after its cell was recycled, the order applies again while its pre_register
  goes on, and `GetPreRegisteredOrderByAccountId` finds the order itself, so
  that it is closed for refund although it is about to be served. `replay` with
  `lost` and `age` breaks `NoLimbo` in the same way: a pre_register without a row
  has spent the apply cell, the next one follows a second application, and the
  block of the first is handled again. `SettlementProofs` shows that
  these pairs of faults are all there is to exclude.
* `ServedNotRefunded` asks for the row of the pre_register transaction, written
  before block_parser handled it. Without the row (`unrecorded`, `lost`, a crash
  after the send) the parser creates a foreign order, the customer gets the
  account and the payment goes back. The code only logs this.
* If the row comes after the block (`late`), the transaction has two orders. When
  it comes before the proposal is handled, both become Registered and the
  payment is kept: `OneRegistered` and `Settlement` name this pair. When it
  comes after, only the foreign one is, and the customer is served and refunded.
* The late row of an apply_register transaction stays unconfirmed: its block is
  handled, the order stays marked Ok, and no list or timer looks for it.
  `registration_live` is without `late`.
* After a crash between the mark and the send (`txtool/apply.go:77`,
  `txtool/pre_register.go:150`) the order stays marked Ok. No list contains it,
  so the liveness runs exclude `crash`.
* A rejected apply_register is not sent again: the `WHERE` clause at
  `dao/t_das_order_tx_info.go:57` ends in a full-width question mark, the
  statement fails and the gorm transaction rolls back. `DoTxRejectedApply`
  therefore changes nothing, and the liveness runs exclude `rejectApply`.
* A second payment for an order that is Registered is refunded by nobody. Nor is
  one that is confirmed after its order was lost in Proposal or later: the
  handler of confirm_proposal has come too early for it, and
  `GetClosedAndUnRefundOrders` asks for `register_status<Proposal`.
  `PaidIsSettled` is about payments that are confirmed while their order is
  open, or was closed before Proposal; `ReturnedAtLast` leaves such a payment
  out by name.
* A closed order may still reach Proposal, since `DoActionPreRegister` does not
  look at `order_status`. If that overtakes `doCheckClosedAndUnRefund`, the
  payment is marked only when the account is confirmed. `ReturnedAtLast`, which
  does not know whether it ever is, leaves this case out; `PaidIsSettled`, which
  does, has it.
* `ParserNeverHalts` is about a parser that has seen the chain from the start: one
  that first starts at the tip may meet a proposal of transactions from before.
* Sub mode survives reorganisations of `Keep + ConfirmNum + 1` blocks and skips
  a block one deeper; concurrency mode survives `ConfirmNum + 1`. The two
  deployments of the run `parser` sit exactly on these limits.
* On a chain younger than `ConfirmNum + ConcurrencyNum` blocks, or a cursor
  below 20, the unsigned subtractions wrap. `WithinLimits` asks for an older
  chain, as the production chains are.
* With a crash or an error between `RefundOrder` and
  `UpdateRefundStatusToRefundIng` UniPay is asked again for the same payment
  (`AskedOnce` fails with those faults and is proved without them). What the
  service can promise is `NotAskedAgain`; the rest depends on UniPay.
* `doRefund` sets payments of orders that are not UniPay's back to Default and
  nevertheless sends them to UniPay in the same list. `NotAskedAgain` does not
  exclude them; theorem `QuietAsksOnce` shows that they are sent once.
* A payment older than three days is not refunded any more, one announced more
  than 24 hours ago is not polled for: `refund_live` is without `age`.
* With `lost` a renewal may be sent twice and a did-cell order may be served and
  refunded: both take an error of `SendTransaction` for a refusal. The database
  would have to follow the chain in between.
* A did-cell order that was paid without a signed transaction makes
  `doDidCellTx` give up its list at that order, again and again: it blocks all
  later did-cell orders until it is closed by hand. `renewal_live` is therefore
  without `unsigned`.
* A crash, an update that fails after a failed send, and a rejected
  transaction leave a renewal marked Ok for ever, as in registration
  (`UpdateRejectedTx` fails for renewals too).
* block_parser neither closes nor hedges the order of a did-cell transfer:
  `ActionTransferAccount` does not look for orders.
* An internal renewal stays in ConfirmPayment, so that expiry may close it
  while it is served: `ClosedNotSent` is about customers' orders.
* `UpdateDidCellOrderToRefund` marks the payments that are confirmed at that
  moment. A second payment of the order that is confirmed later is marked by
  nobody: `ReturnedAtLast` is about registrations and about marked payments.
* No handler of block_parser confirms the rows of did-cell transactions, of
  `config_sub_account_custom_script` and of `balance_deposit`; `checkRejected`
  ends them. If such a transaction is dropped, marked Rejected, sent again with
  the same key and committed, its row stays Rejected: `HandledNotRejected` is
  about the others.
* `checkRejected` looks at a hundred rows of the last 24 hours, and does nothing
  about a transaction that the node has forgotten (`unknown`): such a row stays
  Pending. The model has neither limit, and `PendingEnds` is about the rows that
  the query finds.
* If `CreatePending` fails the transaction is sent and has no row; the error is
  only logged. A second send with the same key fails on the unique key of the
  row, which is harmless.
* Of a `CKBTx` `NoLostUpdate` says that owner and manager stay where the handler
  leaves them alone. Its expiry and status need not be what was built, as the
  code does not compare them. `CommittedIsPermitted` holds of it as of any other.
* `renewal_queue` has a payment for one of the two orders, the customer's; of the
  internal one it does not say that it is served.
* `doBalanceTransfer` takes all cells of the address, also those `dasCache` holds
  back: the node then refuses the second of two transactions.

### Bounds

One account is enough for competition: no update or query of registration
relates two accounts except a proposal with several pre-accounts, and the
model's proposals have one each. Two payments reach a late, a repeated and a
surplus payment, confirmed before or after the order is lost; two attempts reach a retry that races the first transaction,
three (in the live run) a retry after a recycling after a rejection. Two
branches at every height give forks of forks; seven to ten heights with `Keep = 2`
let rows be pruned on both sides of a fork. In `Refund` two payments reach a
list that changes while it is served and an order whose second payment comes
late, also when the order was in Proposal; the counter `asked` stops at 2, which is enough to see a second time.
In `Renewal` orders interact only through the cell of one account and the two
lists, so two orders of one account reach every competition for the cell; the
pairs of the three runs cover every kind of order.
In `PendingTx` handlers meet only through cells and rows: one request of each
handler beside two foreign cells reaches every staleness of its row, and two
requests for one account cell and one coin reach the conflicts in the pool, in
`dasCache` and in the limit. `OwnVersion` has the handler that changes one of two
locks and leaves the other. With `Term = 1`, `Grace = 1` and `Auction = 2` the
clock passes through expiry, grace and auction within `maxTime = 3`.
`MaxSend = 2` lets the node take a second transaction for an order, `MaxCell = 1`
lets one foreign transaction spend the cell at any time, and `Limit = 1` in
`renewal_queue` stands for the 20 of the code with a queue longer than the list.

### Fairness

* `TxToolFairness`: the goroutine of txtool never ends and its `select` picks
  any due ticker, so each list is read again and again; errors of node and
  database are transient, hence strong fairness for the error-free outcome.
* `ChainFairness` (external): the node commits or drops what it holds, keepers
  propose and confirm.
* `LoopFairness`: block_parser and the timers run for ever on their tickers.
* `ParserFairness`: the loop runs for ever, errors are transient, crashes stop:
  a crash in the middle of walking back from a fork loses the way back, which
  is not persisted, so an endless sequence of them prevents progress.
* `LiveSpec` of `Refund`: the two loops and `doCheckClosedAndUnRefund` run on
  tickers; errors are transient, so that a step that is tried again and again
  succeeds at last (strong fairness), also when crashes restart the loop;
  UniPay returns what it is asked for (external). Nothing is assumed of the
  notices.
* `LiveSpec` of `Renewal`: the goroutines of txtool, block_parser and the timers
  never end; errors are transient, so marking and sending succeed at last
  (strong fairness); the node commits what it took and the database follows the
  chain (external). Nothing is assumed of customers, expiry or hedging.
* `LiveSpec` of `PendingTx`: the node decides on what it holds (external), sign
  keys expire after ten minutes, block_parser and the ticker of `checkRejected`
  never end, errors and restarts are transient. Without the last a restart in
  every round would keep `checkRejected` from ever reaching its update; and
  without the expiry of keys a customer could send a dropped transaction for
  ever. Nothing is assumed of customers or of the tables.

## 4. Proofs

`RegistrationProofs` proves, for every finite or infinite set of orders,
accounts, payments and foreign transactions, every `MaxSend` and every set of
faults, from `RegistrationAssumption` alone:

| Theorem | Statement |
|---|---|
| `TypeCorrect` | `Spec => []TypeOK` |
| `PreRegisterHasApply` | `Spec => []PreHasApply` |
| `AtMostOneRegistered` | `Spec => []OneRegistered` |
| `RegisterStatusMonotone` | `Spec => RegMonotone` |
| `ParserGoesOn` | `Spec => []ParserNeverHalts` |

The argument for the last four rests on one inductive invariant, `IInv`:

* `Unborn`: an order without a row is in the state of the column defaults; a
  row is written once;
* `PaidFirst`: nothing is done for an order (its `register_status`, txtool's
  lists, its transactions) before `UpdatePayment` or a gift card paid for it;
* `RowsFollow`: rows follow transactions, and `pre_register_status` left
  Default only after an apply row was confirmed, which is never taken back;
* `LedgerSound`: what is in `blocks` has happened on chain, and two
  pre-accounts of one account are never both confirmed;
* `OneOrderPerPre`: a pre_register transaction belongs to its own order, if it
  has a row, or to the one the parser made for it; to both only if the row was
  late. A proposal names only orders of its transaction, and a Registered order
  was in a confirmed one.

`OneRegistered` alone is not inductive: a second `confirm` event for the
account could be waiting in `blocks`, or one pre_register could name two orders.
The first is excluded by `LedgerSound`, the second by `OneOrderPerPre`, down to
the two orders of a transaction with a late row, which `OneRegistered` names. The
proof has a lemma for each conjunct, with a step for each actor's actions, and
frame lemmas (`HttpFrame`, `TxToolFrame`, ...) say which variables an actor
leaves alone.

`ParserGoesOn` needs more: what the parser must know when it reaches an event.
`InOrder` says that for a `propose` anywhere in `blocks` the orders of its
pre_register are known or its `pre` event comes first, for a `confirm` the
same of its `propose`, and for a transaction on the ledger or proposed, which
may be announced next, that its event is parsed or in `blocks`. With `IInv` it
is inductive: an append adds an event whose forerunner was announced, the parser
takes off an event only when it has recorded it (`HandledKnown`), and
nothing known is forgotten (`KnownStep`). For the head of `blocks` no event comes
first, so that it is known.

`SettlementProofs` proves, from `RegistrationAssumption`, for any orders,
accounts, payments, foreign transactions and `MaxSend`:

| Theorem | Statement |
|---|---|
| `KeepsPromise` | `AppliesInTurn => (Spec => PromiseKept)` |
| `NeverServedAndRefunded` | `AppliesInTurn => (Spec => []ServedNotRefunded)` |
| `NeverInLimbo` | `AppliesInTurn => (Spec => []NoLimbo)` |
| `ClosedStaysLost` | `AppliesInTurn => (Spec => ClosedIsFinal)` |

`AppliesInTurn` is a condition on `Faults`: either the parser handles no block
twice, or no apply cell is recycled and no answer of the node is lost. All other
faults may occur in any combination. It cannot simply be dropped: TLC finds all
four properties violated with `replay` and `recycle`, and `NoLimbo` with
`replay`, `lost` and `age`.

None of the four is inductive. What they have in common is that an order may be
closed only when no transaction of it can win the account any more, and that
depends on where txtool, the node, the parser and the timer are with each of its
transactions. `SInv`, which is inductive together with `IInv`, says so:

* `BatchOK`: what txtool has listed is as it was listed, except the order whose
  transaction it is about to send or to record (`Marked`), which is marked Ok.
  No other actor touches the mark of a listed order;
* `OneFlight`: at most one pre_register transaction of an order that has its row
  or awaits it is under way or not yet known to be rejected, and while there is one the order is
  marked Ok and not about to be sent. So the windows between
  mark, send, row, rejection and unmark never overlap for two attempts;
* `OneStage`: an order is applied for or pre-registered, never both. An apply
  transaction the parser has still to handle (`Owed`) belongs to an order that
  is marked Ok, is not in txtool's apply batch and, without replays, has not
  begun to pre-register;
* `ApplyOnce`: an apply transaction is in `blocks` once, and its cell dies only
  by a pre_register or by recycling. This is where `AppliesInTurn` is used:
  `UpdateOrderRedoApply` sends an order back to apply when its cell is dead, and
  then no old apply transaction may be `Owed` (`RedoSettled`);
* `Sequenced`: the parser is done with the proposal of a transaction when it
  confirms it, so that a late row either is in the proposal or never will be;
* `Follows`: an order beyond PreRegister has a recorded transaction on the
  ledger, a proposal names the order of its transaction, a pay row its order;
* `ClosedIsOver`: a closed order is Registered or `Lost`: none of the transactions
  that it `Claims`, by a row or one to come, is confirmed, and the account is on
  chain or all of them were rejected. A transaction is `Forfeited` when only the
  parser's own order was in the proposal; it does not count as won. Payments are
  marked, and listed for the mark, only for closed orders that are not
  Registered.

The proof has a lemma for every action (`ApplyTxSettled`, `RecordPreSettled`,
`ParsedConfirm`, `RejectedSettled`, ...) and one for each conjunct that says which changes keep
it (`BatchKept`, `FlightKept`, ...). The four closes of the code are lawful for
three reasons: `CloseForRefund` and a refused pre_register find the order not
marked or just being sent (`NotWaiting`), expiry finds it before PreRegister,
and the confirmation of the account finds all others beaten (`ProposalWon`).
For the refinement every step is a `Pay`, a `Grant`, a `Return` or a stutter:
`ActionConfirmProposal` is a `Grant` of the order of its proposal, our own if
there are two (`ProposalOrders`), or a `Return` when the block is handled again;
`UpdatePayToRefund` is a `Return`.
TLC checked `SInv` before it was proved, on the instances of
`registration_faults`, `registration_compete`
and `registration_replay` (without `recycle`).

`RefundProofs` proves, from `RefundAssumption`, for any orders and payments and
any set of faults:

| Theorem | Statement |
|---|---|
| `TypeCorrect` | `Spec => []TypeOK` |
| `RefundedOnlyIfReturned` | `Spec => []RefundedIsReturned` |
| `AskedOnlyIfLost` | `Spec => []OnlyLostAsked` |
| `NeverAskedAgain` | `Spec => NotAskedAgain` |
| `DisputeStays` | `Spec => DisputeIsFinal` |
| `QuietAsksOnce` | `Quiet => (Spec => []AskedOnce)`, where `Quiet` excludes crashes and errors |

The strengthenings: `RefundsTrue` (a REFUND notice and the answer to a poll that
is being applied are about payments UniPay returned), `MarksLost` (a payment
that is marked, listed or asked for belongs to a lost order) and `ListFresh` (a
payment in the list of `doRefund` is not under way or done: only `doRefund`
itself makes it Refunding, and only a Refunding row becomes Refunded). Without
crashes and errors `Once` adds that a payment that was asked for is in the list
about to be marked, or can never be listed again.

`RenewalProofs` proves, from `RenewalAssumption`, for any finite set of orders,
any accounts, payments, list lengths and bounds:

| Theorem | Statement |
|---|---|
| `TypeCorrect` | `Spec => []TypeOK` |
| `NeverServedTwice` | `"lost" \notin Faults => (Spec => []ServedOnce)` |
| `NeverServedAndRefunded` | `"lost" \notin Faults => (Spec => []ServedNotRefunded)` |
| `HedgedOnlyIfServed` | `Spec => []HedgedIsServed` |
| `HandledCompletely` | `Spec => []HandledIsComplete` |
| `ClosedNeverSent` | `Spec => ClosedNotSent` |

One inductive invariant carries all of them. What an order is in is read off its
`pay_status`, which three actors write, so the invariant ties it to the rest:
`Hands` and `OpenHands` (the order in a goroutine's hands is one of its own and
is marked Ok; the others of its list wait; those of customers are open, because
by `PaidIsApply` expiry passes paid orders over),
`RowIsMarked` and `SentIsMarked` (an order with a row, or, without `lost`, with
a transaction the node took, is marked and not in hands, so that no list finds
it again), `RefundIsFinal` (a refunded did-cell order is marked, was never sent
and is not in hands), `Numbered` and `Bounded` (transactions are numbered as the
node took them, within `MaxSend`), `ParsingOrder` (what block_parser has done
before each of its updates) and `Fresh`. The conditions on `lost` are necessary: TLC finds both properties violated with it.

`PendingTxProofs` proves, from `PendingTxAssumption`, for any number of requests,
users and coins, any periods and every scenario:

| Theorem | Statement |
|---|---|
| `TypeCorrect` | `Spec => []TypeOK` |
| `ConfirmedOnlyIfCommitted` | `Spec => []ConfirmedIsCommitted` |
| `HandledNeverRejected` | `Spec => []HandledNotRejected` |
| `CommittedWasPermitted` | `Spec => CommittedIsPermitted` |
| `NothingLost` | `Spec => NoLostUpdate` |

The inductive invariant adds `Built`, `Sent` and `Listed`. `Built` is the heart:
the transaction of a request fits the cell at the position it spends, in
permission and in contents; of a customer's own version the contents are its
owner and manager, which `SameInputsAndLocks` compares (`VariantFits`). Row and outpoint were read together and cells never
change, so this stays true while other cells are appended; and the node commits
a transaction only if that cell is the last one, so that what was true of an old
row is true of the live cell. Time only passes, so an auction that had begun
has begun. `HandledNotRejected` alone is not inductive, since the ids that
`checkRejected` is about to mark may have been committed and handled since:
`Listed` says that their rows were then confirmed, and the `WHERE` clause of
`UpdatePendingToRejected` leaves those alone.

`BlockParserProofs` proves, from `BlockParserAssumption`, for every length of the
table, every number of confirmations, every batch and every first chain:

| Theorem | Statement |
|---|---|
| `TypeCorrect` | `WithinLimits => (Spec => []TypeOK)` |
| `NothingSkipped` | `WithinLimits => (Spec => []NoBlockSkipped)` |

`NoBlockSkipped` only relates a handled block to its parent; when the next block
is fetched, its parent must be known to be handled, and it may lie inside the
table, above a fork, or below the table. The invariant says: the numbers in the
table are an interval that reaches back to the first block asked for or at least
`Keep` blocks down, with the cursor inside or next to it (`CursorOK`, `Covers`);
a recorded block is handled and still agrees with the chain except for its last
`Slack` blocks, `Keep` in sub mode and none in concurrency mode (`RowsOK`,
`Settled`); handled blocks are closed downwards (`HandledOK`); the loop's block
was confirmed when it was read (`LoopOK`); the chain never gets shorter
(`ChainOK`). Lemma `ParentHandled` puts them together: a parent in the table was
compared with it by the fork check, or in a batch is settled; a parent below the
table is where the chain cannot have changed. `WithinLimits` is used for the
depth of reorganisations (`SettledKept`) and so that no unsigned subtraction
wraps (`SubFacts`). It cannot be dropped: TLC finds a skipped block one deeper.

Only model-checked: everything under fairness (the prover has neither ENABLED
nor liveness), that is `PaidIsSettled`, `CatchesUp`, `ConfirmedAtLast`,
`ReturnedAtLast`, `PaidIsServed` and `PendingEnds`. Every other property of a run
is also a theorem.

## 5. Not modelled

* Contents of transactions, prices and amounts, parameter checks, the rule for
  year-old orders in `checkAddressOrder`: they decide what an order costs or
  whether it is placed, not what becomes of it.
* Gift cards: the check, the Redis lock and the spending of a card. The order
  that is paid with one is part of `Registration`; `DoResetCoupon` gives the card
  of a closed, unregistered order back, and `ClosedIsFinal` shows that this is
  not too soon. The card is checked before the lock is taken and not again
  under it, so that two requests may both use it; nothing in the repository
  says what is promised there.
* The lag of `t_account_info` behind the chain is not a variable of
  `Registration`: the time between the checks and the insert already gives late
  orders.
* Proposals with several pre-accounts.
* Reverse records: their handlers are commented out. The handlers of
  block_parser for them and for the config cells are left out with them.
* In `PendingTx`: statuses of accounts on sale or under approval (the handlers
  refuse them as they refuse any but Normal; `OnCross`, which the bid accepts, is
  modelled), reorganisations of what was committed, the sub-account cell of
  `edit_script.go`, the change of balance transactions, signatures and error
  codes. `checkPending` in `timer/pending.go` is called by nobody.
* Early recycling, `doRefundApply` and `doRefundPre`, which act on cells that no
  order uses any more.
* Queries, notifications, the search index, metrics, start-up.

## 6. What could come next

1. `Coupon`: check, lock, spend, reset, composed with `Registration`.
2. `OrderAmount`: `getOrderAmount` and `RoundAmount` as operators.
3. Whether `KeepsPromise` and `ClosedStaysLost` hold with `replay` and `lost`
   when nothing is recycled and no order grows old.
