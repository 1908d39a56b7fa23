----------------------------- MODULE BlockParser -----------------------------
(***************************************************************************)
(* The loop of block_parser: it follows the chain from a cursor, remembers *)
(* the hashes of the last blocks in t_block_parser_info, goes back when a  *)
(* block does not continue the remembered one, and starts again from that  *)
(* table after a crash.  A crash or an error may hit between any two of    *)
(* its calls, and the chain may be reorganised at any moment.              *)
(*                                                                         *)
(* A block is the path that leads to it from the genesis block, so that    *)
(* its number is its length and its parent is the path without its last    *)
(* element.                                                                *)
(***************************************************************************)
EXTENDS Integers, Sequences, SequencesExt, FiniteSetsExt

CONSTANTS
    Branches,        \* the alternatives at every height
    Deployments,     \* configurations, each with the chain it meets
    Keep,            \* how many blocks t_block_parser_info keeps, 20 in the code
    Wrap,            \* 2^64: the counters are uint64
    Faults           \* what may fail in this instance

\* The chain at the first start, the deepest reorganisation, and a bound: the
\* height at which the chain stops; then the configuration of the parser.
DeploymentType ==
    [firstChain : Seq(Branches), maxReorg : Nat, maxHeight : Nat,
     confirmNum : Nat, concurrencyNum : Nat, blockNumber : Nat]

ASSUME BlockParserAssumption ==
    /\ Deployments \subseteq DeploymentType /\ Keep \in Nat /\ Wrap \in Nat
    /\ \A d \in Deployments : Wrap > d.maxHeight + Keep
    /\ Faults \subseteq {"crash", "error"}

VARIABLES
    conf,            \* the deployment
    chain,           \* the best chain the node knows
    rows,            \* t_block_parser_info: the blocks recorded, one a number
    handled,         \* the blocks whose transactions were all handled
    cur,             \* CurrentBlockNumber
    start,           \* the first block the parser asked for
    pc, block, left  \* where the loop is, its block, the blocks left of a batch

vars == <<conf, chain, rows, handled, cur, start, pc, block, left>>
loopVars == <<pc, block, left>>

MaxHeight == conf.maxHeight
MaxReorg == conf.maxReorg
ConfirmNum == conf.confirmNum
ConcurrencyNum == conf.concurrencyNum
ConfigBlockNumber == conf.blockNumber

Number(b) == Len(b)
Parent(b) == Front(b)
BlockAt(n) == SubSeq(chain, 1, n)

\* a - b on uint64.
Sub(a, b) == (a - b) % Wrap

Init ==
    /\ conf \in Deployments
    /\ chain = conf.firstChain
    /\ rows = {} /\ handled = {}
    /\ cur = ConfigBlockNumber /\ start = 0
    /\ pc = "down" /\ block = <<>> /\ left = 0

-----------------------------------------------------------------------------
(* The node (external).                                                    *)

Grow ==
    /\ Len(chain) < MaxHeight
    /\ \E x \in Branches : chain' = Append(chain, x)
    /\ UNCHANGED <<conf, rows, handled, cur, start, loopVars>>

\* A heavier branch replaces the last blocks of the chain.
Reorg ==
    /\ Len(chain) < MaxHeight
    /\ \E d \in 1..MaxReorg, x \in Branches :
         /\ d <= Len(chain) /\ x # chain[Len(chain) - d + 1]
         /\ chain' = BlockAt(Len(chain) - d) \o [i \in 1..(d + 1) |-> x]
    /\ UNCHANGED <<conf, rows, handled, cur, start, loopVars>>

-----------------------------------------------------------------------------
(* Run: initCurrentBlockNumber, then one round after the other.            *)

Run ==
    LET from == IF rows # {} THEN Max({Number(b) : b \in rows})
                ELSE IF ConfigBlockNumber = 0 THEN Len(chain) ELSE ConfigBlockNumber
    IN
    /\ pc = "down"
    /\ cur' = from + 1
    /\ start' = IF rows = {} THEN from + 1 ELSE start
    /\ pc' = "loop"
    /\ UNCHANGED <<conf, chain, rows, handled, block, left>>

\* The tip is read once, and the round goes by it.
Round ==
    /\ pc = "loop"
    /\ \/ /\ ConcurrencyNum > 1
          /\ cur < Sub(Sub(Len(chain), ConfirmNum), ConcurrencyNum)
          /\ left' = ConcurrencyNum
       \/ /\ ~(ConcurrencyNum > 1 /\ cur < Sub(Sub(Len(chain), ConfirmNum), ConcurrencyNum))
          /\ cur < Sub(Len(chain), ConfirmNum)
          /\ left' = 0
    /\ pc' = "fetch"
    /\ UNCHANGED <<conf, chain, rows, handled, cur, start, block>>

\* The block recorded under the number before is not the parent.
CheckFork(b) == \E r \in rows : Number(r) = Sub(cur, 1) /\ r # Parent(b)

\* Broken: the block is skipped, the cursor stays.
ForkFoundStays ==
    /\ pc = "fetch" /\ left = 0 /\ cur <= Len(chain)
    /\ CheckFork(BlockAt(cur))
    /\ pc' = "loop"
    /\ UNCHANGED <<conf, chain, rows, handled, cur, start, block, left>>

\* parserSubMode on a fork: one block back.
ForkFound ==
    /\ pc = "fetch" /\ left = 0 /\ cur <= Len(chain)
    /\ CheckFork(BlockAt(cur))
    /\ cur' = Sub(cur, 1)
    /\ pc' = "loop"
    /\ UNCHANGED <<conf, chain, rows, handled, start, block, left>>

\* GetBlockByNumber; parserConcurrencyMode does not check for forks.
GetBlock ==
    /\ pc = "fetch" /\ cur <= Len(chain)
    /\ left > 0 \/ ~CheckFork(BlockAt(cur))
    /\ block' = BlockAt(cur)
    /\ pc' = "handle"
    /\ UNCHANGED <<conf, chain, rows, handled, cur, start, left>>

ParsingBlockData ==
    /\ pc = "handle"
    /\ handled' = handled \cup {block}
    /\ pc' = "save"
    /\ UNCHANGED <<conf, chain, rows, cur, start, block, left>>

\* Broken: the counter of the batch goes on counting in sub mode.
CreateBlockInfoCountsDown ==
    /\ pc = "save"
    /\ rows' = {r \in rows : Number(r) # cur} \cup {block}
    /\ cur' = cur + 1
    /\ left' = left - 1
    /\ pc' = IF left > 1 THEN "fetch" ELSE "delete"
    /\ UNCHANGED <<conf, chain, handled, start, block>>

\* CreateBlockInfo overwrites the row of that number; the cursor goes on.
CreateBlockInfo ==
    /\ pc = "save"
    /\ rows' = {r \in rows : Number(r) # cur} \cup {block}
    /\ cur' = cur + 1
    /\ left' = IF left > 0 THEN left - 1 ELSE 0
    /\ pc' = IF left > 1 THEN "fetch" ELSE "delete"
    /\ UNCHANGED <<conf, chain, handled, start, block>>

\* Broken: one row too many is deleted.
DeleteBlockInfoOneMore ==
    /\ pc = "delete"
    /\ rows' = {r \in rows : Number(r) > Sub(cur, Keep)}
    /\ pc' = "loop"
    /\ UNCHANGED <<conf, chain, handled, cur, start, block, left>>

DeleteBlockInfo ==
    /\ pc = "delete"
    /\ rows' = {r \in rows : Number(r) >= Sub(cur, Keep)}
    /\ pc' = "loop"
    /\ UNCHANGED <<conf, chain, handled, cur, start, block, left>>

\* A call fails, or the node has no block of that number: the round is over.
RoundFails ==
    /\ pc \in {"fetch", "handle", "save", "delete"}
    /\ "error" \in Faults \/ (pc = "fetch" /\ cur > Len(chain))
    /\ pc' = "loop" /\ left' = 0
    /\ UNCHANGED <<conf, chain, rows, handled, cur, start, block>>

Crash ==
    /\ "crash" \in Faults /\ pc # "down"
    /\ pc' = "down" /\ block' = <<>> /\ left' = 0
    /\ cur' = ConfigBlockNumber
    /\ UNCHANGED <<conf, chain, rows, handled, start>>

Next ==
    \/ Grow \/ Reorg
    \/ Run \/ Round \/ ForkFound \/ GetBlock \/ ParsingBlockData
    \/ CreateBlockInfo \/ DeleteBlockInfo \/ RoundFails \/ Crash

Spec == Init /\ [][Next]_vars

\* The loop never stops for good, errors are transient, and crashes come to
\* an end: a crash loses the way back from a fork, which is not persisted.
ParserFairness ==
    /\ SF_vars(Run) /\ SF_vars(Round) /\ SF_vars(ForkFound) /\ SF_vars(GetBlock)
    /\ SF_vars(ParsingBlockData) /\ SF_vars(CreateBlockInfo) /\ WF_vars(DeleteBlockInfo)
    /\ WF_vars(RoundFails)
    /\ <>[][~Crash]_vars

LiveSpec == Spec /\ ParserFairness

-----------------------------------------------------------------------------
(* Properties.                                                             *)

\* Cursor, table of hashes and the loop's local variables keep their
\* types: the cursor stays a uint64 and a batch never counts below zero.
TypeOK ==
    /\ conf \in Deployments /\ chain \in Seq(Branches)
    /\ rows \subseteq Seq(Branches) /\ handled \subseteq Seq(Branches)
    /\ cur \in 0..(Wrap - 1) /\ start \in Nat
    /\ pc \in {"down", "loop", "fetch", "handle", "save", "delete"}
    /\ block \in Seq(Branches) /\ left \in 0..ConcurrencyNum

\* The configurations for which the parser is right: the chain is long enough
\* for the unsigned subtractions when the service starts, and reorganisations
\* reach neither below the table of hashes nor, in concurrency mode, which does
\* not look for forks, below the confirmed blocks.
WithinLimits ==
    /\ Keep > 0
    /\ \A d \in Deployments :
         /\ Len(d.firstChain) \in Keep..d.maxHeight
         /\ d.confirmNum + d.concurrencyNum <= Len(d.firstChain)
         /\ d.blockNumber \in {0} \cup Keep..d.maxHeight
         /\ d.maxReorg <= Keep + d.confirmNum + 1
         /\ d.concurrencyNum > 1 => d.maxReorg <= d.confirmNum + 1

\* No block is skipped: whatever was reorganised, retried or restarted, the
\* parser handles a block only after the block before it on the same branch.
NoBlockSkipped ==
    \A b \in handled : Number(b) > start => Parent(b) \in handled

\* The parser catches up: once the chain stands still, all of its confirmed
\* blocks have been handled.
CatchesUp ==
    <>[](\A n \in start..(Len(chain) - ConfirmNum - 1) : n > 0 => BlockAt(n) \in handled)

=============================================================================
