-------------------------- MODULE BlockParserProofs --------------------------
(***************************************************************************)
(* block_parser skips no block: for every length of the table of hashes,   *)
(* every number of confirmations, every batch and every chain whose        *)
(* reorganisations stay within the limits.                                 *)
(***************************************************************************)
EXTENDS BlockParser, SequenceTheorems, TLAPS

-----------------------------------------------------------------------------
(* The inductive invariant.                                                *)

Prefix(b, n) == SubSeq(b, 1, n)

\* How far below its own height a recorded block may have left the chain.
Slack == IF ConcurrencyNum > 1 THEN 0 ELSE Keep

\* A block was confirmed when the parser asked for it: the chain c is longer, and
\* still agrees with it except for the last blocks.
SettledOn(b, c, confirm, slack) ==
    /\ Len(b) + confirm + 1 <= Len(c)
    /\ \A n \in Nat : n + slack <= Len(b) => Prefix(b, n) = Prefix(c, n)

Settled(b) == SettledOn(b, chain, ConfirmNum, Slack)

\* The chain never gets shorter, and a first start asks for a block above Keep.
ChainOK ==
    /\ Len(chain) \in Keep..MaxHeight /\ ConfirmNum + ConcurrencyNum <= Len(chain)
    /\ (pc # "down" \/ rows # {}) => start > Keep
    /\ rows = {} => start <= (IF ConfigBlockNumber = 0 THEN Len(chain) ELSE ConfigBlockNumber) + 1

\* What is handled is handled back to the first block asked for.
HandledOK ==
    /\ \A b \in handled : \A k \in start..Len(b) : Prefix(b, k) \in handled
    /\ rows = {} => \A b \in handled : Len(b) <= start

RowsOK == rows \subseteq handled /\ \A r \in rows : Settled(r)

\* The numbers of the blocks in R are those from lo to hi.
Covers(R, lo, hi) ==
    /\ lo <= hi /\ \A r \in R : Len(r) \in lo..hi
    /\ \A n \in lo..hi : \E r \in R : Len(r) = n

\* The numbers in the table are an interval, which reaches back to the first
\* block asked for or down to where the chain is settled; the cursor is inside
\* or next to it.
CursorOK ==
    /\ rows # {} => \E lo, hi \in Nat :
          /\ Covers(rows, lo, hi)
          /\ start <= lo /\ (lo = start \/ lo + Keep <= hi + 1)
          /\ pc # "down" => lo <= cur /\ cur <= hi + 1
          /\ pc = "delete" => lo < cur
    /\ (rows = {} /\ pc # "down") => cur = start
    /\ pc = "delete" => rows # {}

\* The loop: what it has established of its block and of the rest of the batch.
LoopOK ==
    /\ left > 0 => ConcurrencyNum > 1
    /\ pc \in {"fetch", "handle", "save"} => cur + ConfirmNum + left <= Len(chain)
    /\ pc = "fetch" => cur + ConfirmNum + 1 <= Len(chain)
    /\ pc \in {"handle", "save"} =>
          /\ Len(block) = cur /\ Settled(block)
          /\ cur > start => Prefix(block, cur - 1) \in handled
    /\ pc = "save" => block \in handled

IInv == TypeOK /\ ChainOK /\ HandledOK /\ RowsOK /\ CursorOK /\ LoopOK

-----------------------------------------------------------------------------
(* Numbers and prefixes.                                                   *)

\* The unsigned subtraction does not wrap where the parser uses it.
LEMMA SubFacts ==
    ASSUME NEW a \in Nat, NEW b \in Nat, b <= a, NEW w \in Nat, a < w
    PROVE  (a - b) % w = a - b
  OBVIOUS

LEMMA PrefixFacts ==
    ASSUME NEW s \in Seq(Branches), NEW n \in 0..Len(s)
    PROVE  /\ Prefix(s, n) \in Seq(Branches) /\ Len(Prefix(s, n)) = n
           /\ \A i \in 1..n : Prefix(s, n)[i] = s[i]
  <1>1. \A i \in 1..n : s[i] \in Branches
      BY LenProperties
  <1> QED BY <1>1, SubSeqProperties, LenProperties DEF Prefix

\* Two blocks that agree up to a height have the same block there.
LEMMA SamePrefix ==
    ASSUME NEW s \in Seq(Branches), NEW t \in Seq(Branches),
           NEW n \in 0..Len(s), n <= Len(t), \A i \in 1..n : s[i] = t[i]
    PROVE  Prefix(s, n) = Prefix(t, n)
  <1>1. n \in 0..Len(t)
      BY LenProperties
  <1> QED BY <1>1, PrefixFacts, SeqEqual

LEMMA PrefixOfPrefix ==
    ASSUME NEW s \in Seq(Branches), NEW n \in 0..Len(s), NEW k \in 0..n
    PROVE  Prefix(Prefix(s, n), k) = Prefix(s, k)
  <1>1. /\ Prefix(s, n) \in Seq(Branches) /\ Len(Prefix(s, n)) = n
        /\ \A i \in 1..n : Prefix(s, n)[i] = s[i]
      BY PrefixFacts
  <1>2. k \in 0..Len(s) /\ k \in 0..Len(Prefix(s, n))
      BY <1>1, LenProperties
  <1> QED BY <1>1, <1>2, SamePrefix

LEMMA WholePrefix ==
    ASSUME NEW s \in Seq(Branches)
    PROVE  Prefix(s, Len(s)) = s
  BY SubSeqFull DEF Prefix

-----------------------------------------------------------------------------
(* What the deployment says.                                               *)

LEMMA ConfFacts ==
    ASSUME WithinLimits, IInv
    PROVE  /\ Keep \in Nat /\ Keep > 0 /\ MaxHeight \in Nat /\ ConfirmNum \in Nat
           /\ ConcurrencyNum \in Nat /\ MaxReorg \in Nat
           /\ ConfigBlockNumber \in Nat /\ ConfigBlockNumber <= MaxHeight
           /\ ConfigBlockNumber # 0 => ConfigBlockNumber >= Keep
           /\ MaxReorg <= Slack + ConfirmNum + 1 /\ Slack \in Nat /\ Slack <= Keep
           /\ ConcurrencyNum > 1 => Slack = 0
           /\ Wrap \in Nat /\ Wrap > MaxHeight + Keep
           /\ chain \in Seq(Branches) /\ Len(chain) \in Nat
           /\ Len(chain) <= MaxHeight /\ Keep <= Len(chain)
           /\ ConfirmNum + ConcurrencyNum <= Len(chain)
  <1>1. conf \in Deployments /\ conf \in DeploymentType
      BY BlockParserAssumption DEF IInv, TypeOK
  <1>2. /\ MaxHeight \in Nat /\ ConfirmNum \in Nat /\ ConcurrencyNum \in Nat
        /\ MaxReorg \in Nat /\ ConfigBlockNumber \in Nat
      BY <1>1 DEF DeploymentType, MaxHeight, ConfirmNum, ConcurrencyNum, MaxReorg, ConfigBlockNumber
  <1>3. Keep \in Nat /\ Keep > 0 /\ Wrap \in Nat /\ Wrap > MaxHeight + Keep
      BY <1>1, BlockParserAssumption DEF WithinLimits, MaxHeight
  <1>4. /\ ConfigBlockNumber <= MaxHeight /\ (ConfigBlockNumber # 0 => ConfigBlockNumber >= Keep)
      BY <1>1, <1>2, <1>3 DEF WithinLimits, ConfigBlockNumber, MaxHeight
  <1>5. /\ MaxReorg <= Slack + ConfirmNum + 1 /\ Slack \in Nat /\ Slack <= Keep
        /\ ConcurrencyNum > 1 => Slack = 0
      BY <1>1, <1>2, <1>3 DEF WithinLimits, MaxReorg, ConfirmNum, ConcurrencyNum, Slack
  <1>6. /\ chain \in Seq(Branches) /\ Len(chain) \in Nat
        /\ Len(chain) <= MaxHeight /\ Keep <= Len(chain)
        /\ ConfirmNum + ConcurrencyNum <= Len(chain)
      BY <1>2, <1>3 DEF IInv, TypeOK, ChainOK
  <1> QED BY <1>2, <1>3, <1>4, <1>5, <1>6

LEMMA ConfSame ==
    ASSUME conf' = conf
    PROVE  /\ MaxHeight' = MaxHeight /\ ConfirmNum' = ConfirmNum /\ Slack' = Slack
           /\ ConcurrencyNum' = ConcurrencyNum /\ ConfigBlockNumber' = ConfigBlockNumber
  BY DEF MaxHeight, ConfirmNum, Slack, ConcurrencyNum, ConfigBlockNumber

-----------------------------------------------------------------------------
(* The chain.                                                              *)

\* What is settled stays settled while the chain changes only above.
LEMMA SettledKept ==
    ASSUME NEW confirm \in Nat, NEW slack \in Nat, NEW depth \in Nat, depth <= slack + confirm + 1,
           NEW c, NEW c2, Len(c) \in Nat, Len(c2) \in Nat, Len(c) <= Len(c2),
           \A n \in Nat : n + depth <= Len(c) => Prefix(c2, n) = Prefix(c, n),
           NEW b, Len(b) \in Nat, SettledOn(b, c, confirm, slack)
    PROVE  SettledOn(b, c2, confirm, slack)
  <1>1. Len(b) + confirm + 1 <= Len(c)
      BY DEF SettledOn
  <1>2. ASSUME NEW n \in Nat, n + slack <= Len(b) PROVE Prefix(b, n) = Prefix(c2, n)
    <2>1. n + depth <= Len(c)
        BY <1>1, <1>2
    <2> QED BY <1>2, <2>1 DEF SettledOn
  <1> QED BY <1>1, <1>2 DEF SettledOn

\* Both steps of the chain make it longer and keep all but the last blocks.
LEMMA ChainGrows ==
    ASSUME WithinLimits, IInv, Grow \/ Reorg
    PROVE  /\ chain' \in Seq(Branches) /\ Len(chain') = Len(chain) + 1 /\ Len(chain) < MaxHeight
           /\ \A n \in Nat : n + MaxReorg <= Len(chain) => Prefix(chain', n) = Prefix(chain, n)
  <1>0. chain \in Seq(Branches) /\ Len(chain) \in Nat /\ MaxReorg \in Nat
      BY ConfFacts
  <1>1. CASE Grow
    <2>1. PICK x \in Branches : chain' = Append(chain, x)
        BY <1>1 DEF Grow
    <2>2. /\ chain' \in Seq(Branches) /\ Len(chain') = Len(chain) + 1
          /\ \A i \in 1..Len(chain) : chain'[i] = chain[i]
        BY <1>0, <2>1
    <2>3. ASSUME NEW n \in Nat, n + MaxReorg <= Len(chain) PROVE Prefix(chain', n) = Prefix(chain, n)
      <3>1. n \in 0..Len(chain') /\ n <= Len(chain) /\ \A i \in 1..n : chain'[i] = chain[i]
          BY <1>0, <2>2, <2>3
      <3> QED BY <1>0, <2>2, <3>1, SamePrefix
    <2> QED BY <1>1, <2>2, <2>3 DEF Grow
  <1>2. CASE Reorg
    <2>1. PICK d \in 1..MaxReorg, x \in Branches :
             /\ d <= Len(chain)
             /\ chain' = BlockAt(Len(chain) - d) \o [i \in 1..(d + 1) |-> x]
        BY <1>2 DEF Reorg
    <2>2. d \in Nat /\ d <= MaxReorg /\ Len(chain) - d \in 0..Len(chain)
        BY <1>0, <2>1
    <2> DEFINE base == BlockAt(Len(chain) - d)
               new == [i \in 1..(d + 1) |-> x]
    <2>3. /\ base \in Seq(Branches) /\ Len(base) = Len(chain) - d
          /\ \A i \in 1..(Len(chain) - d) : base[i] = chain[i]
        BY <1>0, <2>2, PrefixFacts DEF Prefix, BlockAt
    <2>4. new \in Seq(Branches) /\ Len(new) = d + 1
        BY <2>2
    <2>5. chain' = base \o new
        BY <2>1
    <2> HIDE DEF base, new
    <2>6. /\ chain' \in Seq(Branches) /\ Len(chain') = Len(chain) + 1
          /\ \A i \in 1..(Len(chain) - d) : chain'[i] = chain[i]
      <3>1. /\ base \o new \in Seq(Branches) /\ Len(base \o new) = Len(base) + Len(new)
            /\ \A i \in 1..(Len(base) + Len(new)) : (base \o new)[i] =
                  IF i <= Len(base) THEN base[i] ELSE new[i - Len(base)]
          BY <2>3, <2>4, ConcatProperties
      <3> QED BY <1>0, <2>2, <2>3, <2>4, <2>5, <3>1
    <2>7. ASSUME NEW n \in Nat, n + MaxReorg <= Len(chain) PROVE Prefix(chain', n) = Prefix(chain, n)
      <3>1. n \in 0..Len(chain') /\ n <= Len(chain) /\ \A i \in 1..n : chain'[i] = chain[i]
          BY <1>0, <2>2, <2>6, <2>7
      <3> QED BY <1>0, <2>6, <3>1, SamePrefix
    <2> QED BY <1>2, <2>6, <2>7 DEF Reorg
  <1> QED BY <1>1, <1>2

LEMMA ChainStep ==
    ASSUME WithinLimits, IInv, Grow \/ Reorg
    PROVE  IInv'
  <1>1. UNCHANGED <<conf, rows, handled, cur, start, pc, block, left>>
      BY DEF Grow, Reorg, loopVars
  <1>2. /\ chain' \in Seq(Branches) /\ Len(chain') = Len(chain) + 1 /\ Len(chain) < MaxHeight
        /\ \A n \in Nat : n + MaxReorg <= Len(chain) => Prefix(chain', n) = Prefix(chain, n)
      BY ChainGrows
  <1>3. \A b \in Seq(Branches) : Settled(b) => SettledOn(b, chain', ConfirmNum, Slack)
    <2> SUFFICES ASSUME NEW b \in Seq(Branches), Settled(b)
                 PROVE  SettledOn(b, chain', ConfirmNum, Slack)
        OBVIOUS
    <2>1. Len(b) \in Nat /\ Len(chain') \in Nat /\ Len(chain) <= Len(chain')
        BY <1>2, ConfFacts
    <2> QED BY <1>2, <2>1, ConfFacts, SettledKept DEF Settled
  <1>4. TypeOK'
      BY <1>1, <1>2, ConfSame DEF IInv, TypeOK
  <1>5. ChainOK'
    <2>1. /\ Len(chain') \in Keep..MaxHeight' /\ ConfirmNum' + ConcurrencyNum' <= Len(chain')
        BY <1>1, <1>2, ConfSame, ConfFacts
    <2>2. start \in Nat /\ ConfigBlockNumber \in Nat /\ Len(chain) \in Nat
        BY ConfFacts DEF IInv, TypeOK
    <2>3. rows = {} =>
             start <= (IF ConfigBlockNumber = 0 THEN Len(chain') ELSE ConfigBlockNumber) + 1
      <3>1. rows = {} =>
               start <= (IF ConfigBlockNumber = 0 THEN Len(chain) ELSE ConfigBlockNumber) + 1
          BY DEF IInv, ChainOK
      <3> QED BY <1>2, <2>2, <3>1
    <2> QED BY <1>1, <2>1, <2>3, ConfSame DEF IInv, ChainOK
  <1>6. HandledOK'
      BY <1>1 DEF IInv, HandledOK
  <1>7. RowsOK'
      BY <1>1, <1>3, ConfSame DEF IInv, TypeOK, RowsOK, Settled
  <1>8. CursorOK'
      BY <1>1 DEF IInv, CursorOK
  <1>9. LoopOK'
    <2>1. cur \in Nat /\ left \in Nat /\ ConfirmNum \in Nat /\ Len(chain) \in Nat /\ block \in Seq(Branches)
        BY ConfFacts DEF IInv, TypeOK
    <2>2. pc \in {"handle", "save"} => Settled(block)'
        BY <1>1, <1>3, <2>1, ConfSame DEF IInv, LoopOK, Settled
    <2> QED BY <1>1, <1>2, <2>1, <2>2, ConfSame DEF IInv, LoopOK
  <1> QED BY <1>4, <1>5, <1>6, <1>7, <1>8, <1>9 DEF IInv

-----------------------------------------------------------------------------
(* The loop.                                                               *)

\* The largest number of an interval.
LEMMA MaxOfInterval ==
    ASSUME NEW lo \in Nat, NEW hi \in Nat, lo <= hi
    PROVE  Max(lo..hi) = hi
  <1>1. \E x \in lo..hi : \A y \in lo..hi : x >= y
      OBVIOUS
  <1>2. /\ Max(lo..hi) \in lo..hi
        /\ \A y \in lo..hi : Max(lo..hi) >= y
      BY <1>1 DEF Max
  <1> QED BY <1>2

\* Recorded blocks are below the end of the chain.
LEMMA RowBound ==
    ASSUME WithinLimits, IInv, NEW r \in rows
    PROVE  Len(r) \in Nat /\ Len(r) < Len(chain) /\ r \in Seq(Branches)
  <1>1. r \in Seq(Branches) /\ Settled(r)
      BY DEF IInv, TypeOK, RowsOK
  <1> QED BY <1>1, ConfFacts DEF Settled, SettledOn

\* Steps that leave chain, table and handled blocks alone.
LEMMA Framed ==
    ASSUME WithinLimits, IInv, UNCHANGED <<conf, chain, rows, handled, start>>
    PROVE  RowsOK' /\ HandledOK' /\ ((pc # "down" \/ rows # {}) => ChainOK')
  <1>1. RowsOK'
      BY ConfSame DEF IInv, RowsOK, Settled
  <1>2. HandledOK'
      BY DEF IInv, HandledOK
  <1>3. (pc # "down" \/ rows # {}) => ChainOK'
      BY ConfSame DEF IInv, ChainOK
  <1> QED BY <1>1, <1>2, <1>3

LEMMA RunStep ==
    ASSUME WithinLimits, IInv, Run
    PROVE  IInv'
  <1>1. UNCHANGED <<conf, chain, rows, handled, block, left>> /\ pc = "down" /\ pc' = "loop"
      BY DEF Run
  <1>2. CASE rows = {}
    <2> DEFINE from == IF ConfigBlockNumber = 0 THEN Len(chain) ELSE ConfigBlockNumber
    <2>1. cur' = from + 1 /\ start' = from + 1
        BY <1>2 DEF Run
    <2>2. from \in Nat /\ from >= Keep /\ from <= MaxHeight /\ from + 1 > Keep
        BY ConfFacts
    <2>3. start \in Nat /\ start <= from + 1
        BY <1>2 DEF IInv, TypeOK, ChainOK
    <2> HIDE DEF from
    <2>4. TypeOK'
      <3>1. cur' \in 0..(Wrap - 1) /\ start' \in Nat
          BY <2>1, <2>2, ConfFacts
      <3> QED BY <1>1, <3>1, ConfSame DEF IInv, TypeOK
    <2>5. ChainOK'
      <3>1. Len(chain) \in Keep..MaxHeight /\ ConfirmNum + ConcurrencyNum <= Len(chain)
          BY DEF IInv, ChainOK
      <3>2. start' > Keep /\ start' <= from + 1
          BY <2>1, <2>2, ConfFacts
      <3> QED BY <1>1, <3>1, <3>2, ConfSame DEF ChainOK, from
    <2>6. HandledOK'
      <3>1. \A b \in handled : b \in Seq(Branches) /\ Len(b) \in Nat /\ Len(b) <= start
          BY <1>2 DEF IInv, TypeOK, HandledOK
      <3>2. ASSUME NEW b \in handled, NEW k \in (from + 1)..Len(b) PROVE Prefix(b, k) \in handled
        <4>1. k = Len(b) /\ b \in Seq(Branches)
            BY <2>2, <2>3, <3>1, <3>2
        <4> QED BY <4>1, WholePrefix
      <3>3. \A b \in handled : Len(b) <= from + 1
          BY <2>2, <2>3, <3>1
      <3> QED BY <1>1, <2>1, <3>2, <3>3 DEF HandledOK
    <2>7. RowsOK' /\ CursorOK' /\ LoopOK'
        BY <1>1, <1>2, <2>1, ConfSame DEF IInv, RowsOK, CursorOK, LoopOK
    <2> QED BY <2>4, <2>5, <2>6, <2>7 DEF IInv
  <1>3. CASE rows # {}
    <2>1. PICK lo \in Nat, hi \in Nat :
             /\ Covers(rows, lo, hi) /\ start <= lo /\ (lo = start \/ lo + Keep <= hi + 1)
        BY <1>3 DEF IInv, CursorOK
    <2>2. lo <= hi /\ (\A r \in rows : Len(r) \in lo..hi) /\ (\A n \in lo..hi : \E r \in rows : Len(r) = n)
        BY <2>1 DEF Covers
    <2>3. {Number(b) : b \in rows} = lo..hi
        BY <2>2 DEF Number
    <2>4. cur' = hi + 1 /\ start' = start
        BY <1>3, <2>2, <2>3, MaxOfInterval DEF Run
    <2>5. hi < Len(chain)
        BY <2>2, RowBound
    <2>6. TypeOK'
      <3>1. cur' \in 0..(Wrap - 1)
          BY <2>4, <2>5, ConfFacts
      <3> QED BY <1>1, <2>4, <3>1, ConfSame DEF IInv, TypeOK
    <2>7. CursorOK'
      <3>1. lo <= cur' /\ cur' <= hi + 1
          BY <2>2, <2>4
      <3> QED BY <1>1, <1>3, <2>1, <2>4, <3>1 DEF CursorOK
    <2>8. LoopOK'
        BY <1>1, ConfSame DEF IInv, LoopOK
    <2> QED BY <1>1, <1>3, <2>4, <2>6, <2>7, <2>8, Framed DEF IInv
  <1> QED BY <1>2, <1>3

\* While the parser runs, the cursor is inside the table or next to it.
LEMMA CursorFacts ==
    ASSUME WithinLimits, IInv, pc # "down"
    PROVE  /\ cur \in Nat /\ cur < Wrap /\ start \in Nat /\ start > Keep /\ cur >= start
           /\ left \in Nat /\ cur > Keep /\ start > 0
  <1>1. cur \in Nat /\ cur < Wrap /\ start \in Nat /\ left \in Nat
      BY ConfFacts DEF IInv, TypeOK
  <1>2. start > Keep
      BY DEF IInv, ChainOK
  <1>3. cur >= start
    <2>1. CASE rows = {}
        BY <1>1, <2>1 DEF IInv, CursorOK
    <2>2. CASE rows # {}
      <3>1. PICK lo \in Nat, hi \in Nat : start <= lo /\ lo <= cur
          BY <2>2 DEF IInv, CursorOK
      <3> QED BY <1>1, <3>1
    <2> QED BY <2>1, <2>2
  <1> QED BY <1>1, <1>2, <1>3, ConfFacts

LEMMA RoundStep ==
    ASSUME WithinLimits, IInv, Round
    PROVE  IInv'
  <1>1. UNCHANGED <<conf, chain, rows, handled, cur, start, block>> /\ pc = "loop" /\ pc' = "fetch"
      BY DEF Round
  <1>2. /\ Sub(Len(chain), ConfirmNum) = Len(chain) - ConfirmNum
        /\ Sub(Sub(Len(chain), ConfirmNum), ConcurrencyNum) = Len(chain) - ConfirmNum - ConcurrencyNum
    <2>1. /\ ConfirmNum <= Len(chain) /\ Len(chain) < Wrap
          /\ Len(chain) - ConfirmNum \in Nat /\ Len(chain) - ConfirmNum < Wrap
          /\ ConcurrencyNum <= Len(chain) - ConfirmNum
        BY ConfFacts
    <2>2. Sub(Len(chain), ConfirmNum) = Len(chain) - ConfirmNum
        BY <2>1, ConfFacts, SubFacts DEF Sub
    <2>3. Sub(Len(chain) - ConfirmNum, ConcurrencyNum) = (Len(chain) - ConfirmNum) - ConcurrencyNum
        BY <2>1, ConfFacts, SubFacts DEF Sub
    <2> QED BY <2>2, <2>3
  <1>3. \/ /\ ConcurrencyNum > 1 /\ left' = ConcurrencyNum
           /\ cur < Len(chain) - ConfirmNum - ConcurrencyNum
        \/ left' = 0 /\ cur < Len(chain) - ConfirmNum
      BY <1>2 DEF Round
  <1>4. /\ left' \in 0..ConcurrencyNum /\ (left' > 0 => ConcurrencyNum > 1)
        /\ cur + ConfirmNum + left' <= Len(chain) /\ cur + ConfirmNum + 1 <= Len(chain)
    <2>1. cur \in Nat /\ ConfirmNum \in Nat /\ ConcurrencyNum \in Nat /\ Len(chain) \in Nat
        BY <1>1, ConfFacts, CursorFacts
    <2>2. CASE ConcurrencyNum > 1 /\ left' = ConcurrencyNum
               /\ cur < Len(chain) - ConfirmNum - ConcurrencyNum
        BY ONLY <2>1, <2>2
    <2>3. CASE left' = 0 /\ cur < Len(chain) - ConfirmNum
        BY ONLY <2>1, <2>3
    <2> QED BY <1>3, <2>2, <2>3
  <1>5. TypeOK'
      BY <1>1, <1>4, ConfSame DEF IInv, TypeOK
  <1>6. CursorOK'
      BY <1>1 DEF IInv, CursorOK
  <1>7. LoopOK'
      BY <1>1, <1>4, ConfSame DEF LoopOK
  <1> QED BY <1>1, <1>5, <1>6, <1>7, Framed DEF IInv

LEMMA ForkStep ==
    ASSUME WithinLimits, IInv, ForkFound
    PROVE  IInv'
  <1>1. /\ UNCHANGED <<conf, chain, rows, handled, start, block, left>> /\ pc = "fetch" /\ pc' = "loop"
        /\ cur' = Sub(cur, 1)
      BY DEF ForkFound
  <1>2. cur \in Nat /\ cur > 0 /\ cur' = cur - 1 /\ Sub(cur, 1) = cur - 1
    <2>1. cur \in Nat /\ cur > 0 /\ 1 <= cur /\ cur < Wrap /\ 1 \in Nat /\ Wrap \in Nat
        BY <1>1, CursorFacts, ConfFacts
    <2> QED BY <1>1, <2>1, SubFacts DEF Sub
  <1>3. PICK r \in rows : Len(r) = cur - 1
      BY <1>2 DEF ForkFound, CheckFork, Number
  <1>4. PICK lo \in Nat, hi \in Nat :
           /\ Covers(rows, lo, hi) /\ start <= lo /\ (lo = start \/ lo + Keep <= hi + 1)
           /\ lo <= cur /\ cur <= hi + 1
      BY <1>1, <1>3 DEF IInv, CursorOK
  <1>5. lo <= cur' /\ cur' <= hi + 1
      BY <1>2, <1>3, <1>4 DEF Covers
  <1>6. TypeOK'
    <2>1. cur < Wrap /\ Wrap \in Nat
        BY <1>1, CursorFacts, ConfFacts
    <2>2. cur' \in 0..(Wrap - 1)
        BY ONLY <1>2, <2>1
    <2> QED BY <1>1, <2>2, ConfSame DEF IInv, TypeOK
  <1>7. CursorOK'
      BY <1>1, <1>3, <1>4, <1>5 DEF CursorOK
  <1>8. LoopOK'
      BY <1>1, ConfSame DEF IInv, LoopOK
  <1> QED BY <1>1, <1>6, <1>7, <1>8, Framed DEF IInv

\* The block before the cursor is handled.  It is in the table, where the fork
\* check or, in a batch, the limit on reorganisations vouches for it, or it is
\* below the table, where the chain is settled.
LEMMA ParentHandled ==
    ASSUME WithinLimits, IInv, pc = "fetch", cur > start, cur <= Len(chain),
           left > 0 \/ ~CheckFork(BlockAt(cur))
    PROVE  Prefix(BlockAt(cur), cur - 1) \in handled
  <1>1. /\ cur \in Nat /\ cur > 0 /\ start \in Nat /\ cur < Wrap /\ Wrap \in Nat
        /\ chain \in Seq(Branches) /\ Len(chain) \in Nat /\ Keep \in Nat
        /\ cur - 1 \in Nat /\ cur \in 0..Len(chain) /\ cur - 1 \in 0..cur
      BY CursorFacts, ConfFacts
  <1>2. Prefix(BlockAt(cur), cur - 1) = Prefix(chain, cur - 1)
      BY <1>1, PrefixOfPrefix DEF BlockAt, Prefix
  <1>3. rows # {}
      BY <1>1 DEF IInv, CursorOK
  <1>4. PICK lo \in Nat, hi \in Nat :
           /\ Covers(rows, lo, hi) /\ start <= lo /\ (lo = start \/ lo + Keep <= hi + 1)
           /\ lo <= cur /\ cur <= hi + 1
      BY <1>3 DEF IInv, CursorOK
  <1>5. \A r \in rows : r \in handled /\ r \in Seq(Branches) /\ Settled(r)
      BY DEF IInv, RowsOK, TypeOK
  <1>6. CASE lo < cur
    <2>1. cur - 1 \in lo..hi
        BY <1>1, <1>4, <1>6
    <2>2. PICK r \in rows : Len(r) = cur - 1
        BY <1>4, <2>1 DEF Covers
    <2>3. CASE left > 0
      <3>1. Slack = 0
          BY <2>3, ConfFacts DEF IInv, LoopOK
      <3>2. Prefix(r, cur - 1) = Prefix(chain, cur - 1)
        <4>1. (cur - 1) + 0 <= Len(r)
            BY <1>1, <2>2
        <4> QED BY <1>1, <1>5, <3>1, <4>1 DEF Settled, SettledOn
      <3> QED BY <1>2, <1>5, <2>2, <3>2, WholePrefix
    <2>4. CASE ~CheckFork(BlockAt(cur))
      <3>1. Sub(cur, 1) = cur - 1
        <4>1. 1 \in Nat /\ 1 <= cur
            BY <1>1
        <4> QED BY <1>1, <4>1, SubFacts DEF Sub
      <3>2. r = Parent(BlockAt(cur))
          BY <2>2, <2>4, <3>1 DEF CheckFork, Number
      <3>3. Len(BlockAt(cur)) = cur
          BY <1>1, PrefixFacts DEF BlockAt, Prefix
      <3> QED BY <1>5, <3>2, <3>3 DEF Parent, Front, Prefix
    <2> QED BY <2>3, <2>4
  <1>7. CASE lo = cur
    <2>1. hi \in lo..hi
        BY <1>4 DEF Covers
    <2>2. PICK h \in rows : Len(h) = hi
        BY <1>4, <2>1 DEF Covers
    <2>3. (cur - 1) + Keep <= Len(h) /\ cur - 1 \in start..Len(h)
        BY <1>1, <1>4, <1>7, <2>2
    <2>4. Prefix(h, cur - 1) = Prefix(chain, cur - 1)
      <3>1. (cur - 1) + Slack <= Len(h)
          BY <1>1, <2>2, <2>3, ConfFacts
      <3> QED BY <1>1, <1>5, <3>1 DEF Settled, SettledOn
    <2>5. Prefix(h, cur - 1) \in handled
        BY <1>5, <2>3 DEF IInv, HandledOK
    <2> QED BY <1>2, <2>4, <2>5
  <1> QED BY <1>1, <1>4, <1>6, <1>7

LEMMA GetStep ==
    ASSUME WithinLimits, IInv, GetBlock
    PROVE  IInv'
  <1>1. /\ UNCHANGED <<conf, chain, rows, handled, cur, start, left>> /\ pc = "fetch" /\ pc' = "handle"
        /\ block' = BlockAt(cur) /\ cur <= Len(chain) /\ (left > 0 \/ ~CheckFork(BlockAt(cur)))
      BY DEF GetBlock
  <1>2. cur \in 0..Len(chain) /\ chain \in Seq(Branches) /\ cur \in Nat
      BY <1>1, CursorFacts, ConfFacts
  <1>3. block' \in Seq(Branches) /\ Len(block') = cur
      BY <1>1, <1>2, PrefixFacts DEF BlockAt, Prefix
  <1>4. SettledOn(block', chain, ConfirmNum, Slack)
    <2>1. cur + ConfirmNum + 1 <= Len(chain)
        BY <1>1 DEF IInv, LoopOK
    <2>2. ASSUME NEW n \in Nat, n + Slack <= cur PROVE Prefix(block', n) = Prefix(chain, n)
      <3>1. n \in 0..cur
          BY <1>2, <2>2, ConfFacts
      <3> QED BY <1>1, <1>2, <3>1, PrefixOfPrefix DEF BlockAt, Prefix
    <2> QED BY <1>3, <2>1, <2>2 DEF SettledOn
  <1>5. cur > start => Prefix(block', cur - 1) \in handled
      BY <1>1, ParentHandled
  <1>6. TypeOK'
      BY <1>1, <1>3, ConfSame DEF IInv, TypeOK
  <1>7. CursorOK'
      BY <1>1 DEF IInv, CursorOK
  <1>8. LoopOK'
      BY <1>1, <1>3, <1>4, <1>5, ConfSame DEF IInv, LoopOK, Settled
  <1> QED BY <1>1, <1>6, <1>7, <1>8, Framed DEF IInv

LEMMA ParseStep ==
    ASSUME WithinLimits, IInv, ParsingBlockData
    PROVE  IInv'
  <1>1. /\ UNCHANGED <<conf, chain, rows, cur, start, block, left>> /\ pc = "handle" /\ pc' = "save"
        /\ handled' = handled \cup {block}
      BY DEF ParsingBlockData
  <1>2. /\ cur \in Nat /\ start \in Nat /\ cur >= start /\ start > 0
        /\ block \in Seq(Branches) /\ Len(block) = cur
        /\ cur > start => Prefix(block, cur - 1) \in handled
      BY <1>1, CursorFacts DEF IInv, TypeOK, LoopOK
  <1>3. ASSUME NEW k \in start..cur PROVE Prefix(block, k) \in handled'
    <2>1. CASE k = cur
        BY <1>1, <1>2, <2>1, WholePrefix
    <2>2. CASE k < cur
      <3>1. /\ cur - 1 \in 0..Len(block) /\ k \in 0..(cur - 1) /\ k \in start..(cur - 1)
            /\ Prefix(block, cur - 1) \in handled
          BY <1>2, <1>3, <2>2
      <3>2. Len(Prefix(block, cur - 1)) = cur - 1
          BY <1>2, <3>1, PrefixFacts
      <3>3. Prefix(Prefix(block, cur - 1), k) \in handled
          BY <3>1, <3>2 DEF IInv, HandledOK
      <3> QED BY <1>1, <1>2, <3>1, <3>3, PrefixOfPrefix
    <2> QED BY <1>2, <1>3, <2>1, <2>2
  <1>4. rows = {} => Len(block) <= start
      BY <1>1, <1>2 DEF IInv, CursorOK
  <1>5. TypeOK'
      BY <1>1, <1>2, ConfSame DEF IInv, TypeOK
  <1>6. ChainOK'
      BY <1>1, ConfSame DEF IInv, ChainOK
  <1>7. HandledOK'
      BY <1>1, <1>2, <1>3, <1>4 DEF IInv, HandledOK
  <1>8. RowsOK'
      BY <1>1, ConfSame DEF IInv, RowsOK, Settled
  <1>9. CursorOK'
      BY <1>1 DEF IInv, CursorOK
  <1>10. LoopOK'
      BY <1>1, ConfSame DEF IInv, LoopOK, Settled
  <1> QED BY <1>5, <1>6, <1>7, <1>8, <1>9, <1>10 DEF IInv

LEMMA CreateStep ==
    ASSUME WithinLimits, IInv, CreateBlockInfo
    PROVE  IInv'
  <1>1. /\ UNCHANGED <<conf, chain, handled, start, block>> /\ pc = "save"
        /\ rows' = {r \in rows : Number(r) # cur} \cup {block}
        /\ cur' = cur + 1 /\ left' = (IF left > 0 THEN left - 1 ELSE 0)
        /\ pc' = (IF left > 1 THEN "fetch" ELSE "delete")
      BY DEF CreateBlockInfo
  <1>2. /\ cur \in Nat /\ start \in Nat /\ cur >= start /\ left \in Nat /\ start > Keep
        /\ block \in Seq(Branches) /\ Len(block) = cur /\ Settled(block) /\ block \in handled
        /\ cur + ConfirmNum + left <= Len(chain) /\ cur + ConfirmNum + 1 <= Len(chain)
      BY <1>1, CursorFacts DEF IInv, TypeOK, LoopOK, Settled, SettledOn
  <1>3. TypeOK'
    <2>1. cur' \in 0..(Wrap - 1)
      <3>1. /\ ConfirmNum \in Nat /\ MaxHeight \in Nat /\ Keep \in Nat /\ Wrap \in Nat
            /\ Len(chain) \in Nat /\ Len(chain) <= MaxHeight /\ Wrap > MaxHeight + Keep
          BY ConfFacts DEF IInv, ChainOK
      <3>2. cur \in Nat /\ cur + ConfirmNum + 1 <= Len(chain) /\ cur' = cur + 1
          BY <1>1, <1>2
      <3> QED BY ONLY <3>1, <3>2
    <2>2. left' \in 0..ConcurrencyNum
      <3>1. left \in 0..ConcurrencyNum /\ ConcurrencyNum \in Nat
          BY ConfFacts DEF IInv, TypeOK
      <3> QED BY <1>1, <3>1
    <2>3. rows' \subseteq Seq(Branches)
        BY <1>1, <1>2 DEF IInv, TypeOK
    <2>4. pc' \in {"fetch", "delete"}
        BY <1>1
    <2> QED BY <1>1, <2>1, <2>2, <2>3, <2>4, ConfSame DEF IInv, TypeOK
  <1>4. rows' # {}
      BY <1>1
  <1>5. ChainOK'
      BY <1>1, <1>2, <1>4, ConfSame DEF IInv, ChainOK
  <1>6. HandledOK'
      BY <1>1, <1>4 DEF IInv, HandledOK
  <1>7. RowsOK'
      BY <1>1, <1>2, ConfSame DEF IInv, RowsOK, Settled
  <1>8. CursorOK'
    <2>1. CASE rows = {}
      <3>1. cur = start /\ \A r \in rows' : Len(r) = cur
          BY <1>1, <1>2, <2>1 DEF IInv, CursorOK
      <3>2. Covers(rows', cur, cur)
          BY <1>1, <1>2, <3>1 DEF Covers
      <3>3. /\ start' <= cur /\ cur = start' /\ cur <= cur' /\ cur' <= cur + 1 /\ cur < cur'
          BY <1>1, <1>2, <3>1
      <3> QED BY <1>2, <1>4, <3>2, <3>3 DEF CursorOK
    <2>2. CASE rows # {}
      <3>1. PICK lo \in Nat, hi \in Nat :
               /\ Covers(rows, lo, hi) /\ start <= lo /\ (lo = start \/ lo + Keep <= hi + 1)
               /\ lo <= cur /\ cur <= hi + 1
          BY <1>1, <2>2 DEF IInv, CursorOK
      <3> DEFINE top == IF cur <= hi THEN hi ELSE cur
      <3>2. top \in Nat /\ lo <= top /\ cur <= top /\ hi <= top /\ top <= hi + 1 /\ (top = hi \/ top = cur)
            /\ (top # hi => top = cur)
          BY <1>2, <3>1 DEF Covers
      <3> HIDE DEF top
      <3>3. Covers(rows', lo, top)
        <4>1. \A r \in rows' : Len(r) \in lo..top
            BY <1>1, <1>2, <3>1, <3>2 DEF Covers
        <4>2. ASSUME NEW n \in lo..top PROVE \E r \in rows' : Len(r) = n
          <5>1. CASE n = cur
              BY <1>1, <1>2, <5>1
          <5>2. CASE n # cur
            <6>1. n \in lo..hi
                BY <3>1, <3>2, <4>2, <5>2
            <6>2. PICK r \in rows : Len(r) = n
                BY <3>1, <6>1 DEF Covers
            <6> QED BY <1>1, <5>2, <6>2 DEF Number
          <5> QED BY <5>1, <5>2
        <4> QED BY <3>2, <4>1, <4>2 DEF Covers
      <3>4. /\ start' <= lo /\ (lo = start' \/ lo + Keep <= top + 1)
            /\ lo <= cur' /\ cur' <= top + 1 /\ lo < cur'
        <4>1. Keep \in Nat /\ cur \in Nat /\ cur' = cur + 1 /\ start' = start
            BY <1>1, <1>2, ConfFacts
        <4>2. start <= lo /\ (lo = start \/ lo + Keep <= hi + 1) /\ lo <= cur
            BY <3>1
        <4>3. lo + Keep <= hi + 1 => lo + Keep <= top + 1
            BY ONLY <3>2, <4>1, lo \in Nat, hi \in Nat
        <4>4. lo <= cur' /\ cur' <= top + 1 /\ lo < cur'
            BY ONLY <3>2, <4>1, <4>2, lo \in Nat, hi \in Nat
        <4> QED BY ONLY <4>1, <4>2, <4>3, <4>4
      <3> QED BY <1>4, <3>2, <3>3, <3>4 DEF CursorOK
    <2> QED BY <2>1, <2>2
  <1>9. LoopOK'
    <2>1. left' > 0 => ConcurrencyNum > 1
      <3>1. left' > 0 => left > 0
          BY <1>1, <1>2
      <3> QED BY <3>1 DEF IInv, LoopOK
    <2>2. pc' = "fetch" => /\ cur' + ConfirmNum + left' <= Len(chain)
                           /\ cur' + ConfirmNum + 1 <= Len(chain)
      <3>1. pc' = "fetch" => left > 1
          BY <1>1
      <3>2. left > 1 => left' = left - 1
          BY <1>1, <1>2
      <3>3. /\ ConfirmNum \in Nat /\ Len(chain) \in Nat /\ left \in Nat /\ cur \in Nat
            /\ cur' = cur + 1 /\ cur + ConfirmNum + left <= Len(chain)
          BY <1>1, <1>2, ConfFacts
      <3>4. left > 1 => /\ cur' + ConfirmNum + (left - 1) <= Len(chain)
                        /\ cur' + ConfirmNum + 1 <= Len(chain)
          BY ONLY <3>3
      <3> QED BY ONLY <3>1, <3>2, <3>4
    <2>3. pc' \in {"fetch", "delete"}
        BY <1>1
    <2> QED BY <1>1, <2>1, <2>2, <2>3, ConfSame DEF LoopOK
  <1> QED BY <1>3, <1>5, <1>6, <1>7, <1>8, <1>9 DEF IInv

LEMMA DeleteStep ==
    ASSUME WithinLimits, IInv, DeleteBlockInfo
    PROVE  IInv'
  <1>1. /\ UNCHANGED <<conf, chain, handled, cur, start, block, left>> /\ pc = "delete" /\ pc' = "loop"
        /\ rows' = {r \in rows : Number(r) >= Sub(cur, Keep)}
      BY DEF DeleteBlockInfo
  <1>2. /\ cur \in Nat /\ start \in Nat /\ start > Keep /\ cur > Keep /\ Keep \in Nat /\ Keep > 0
        /\ cur < Wrap /\ Wrap \in Nat /\ cur - Keep \in Nat
      BY <1>1, CursorFacts, ConfFacts
  <1>3. Sub(cur, Keep) = cur - Keep
      BY <1>2, SubFacts DEF Sub
  <1>4. PICK lo \in Nat, hi \in Nat :
           /\ Covers(rows, lo, hi) /\ start <= lo /\ (lo = start \/ lo + Keep <= hi + 1)
           /\ lo < cur /\ cur <= hi + 1
      BY <1>1 DEF IInv, CursorOK
  <1> DEFINE low == IF lo < cur - Keep THEN cur - Keep ELSE lo
  <1>5. /\ low \in Nat /\ lo <= low /\ cur - Keep <= low /\ low <= hi /\ low <= cur
        /\ low = lo \/ low = cur - Keep
      BY <1>2, <1>4
  <1> HIDE DEF low
  <1>6. Covers(rows', low, hi)
    <2>1. \A r \in rows' : Len(r) \in low..hi
      <3> SUFFICES ASSUME NEW r \in rows' PROVE Len(r) \in low..hi
          OBVIOUS
      <3>1. r \in rows /\ Len(r) >= cur - Keep /\ Len(r) \in lo..hi
          BY <1>1, <1>3, <1>4 DEF Covers, Number
      <3> QED BY <1>5, <3>1
    <2>2. ASSUME NEW n \in low..hi PROVE \E r \in rows' : Len(r) = n
      <3>1. n \in lo..hi /\ n >= cur - Keep
          BY <1>2, <1>5, <2>2
      <3>2. PICK r \in rows : Len(r) = n
          BY <1>4, <3>1 DEF Covers
      <3> QED BY <1>1, <1>3, <3>1, <3>2 DEF Number
    <2> QED BY <1>5, <2>1, <2>2 DEF Covers
  <1>7. rows' # {}
    <2>1. low \in low..hi
        BY <1>5
    <2> QED BY <1>6, <2>1 DEF Covers
  <1>8. CursorOK'
    <2>1. /\ start' <= low /\ (low = start' \/ low + Keep <= hi + 1)
          /\ low <= cur' /\ cur' <= hi + 1
        BY <1>1, <1>2, <1>4, <1>5
    <2> QED BY <1>1, <1>5, <1>6, <1>7, <2>1 DEF CursorOK
  <1>9. TypeOK'
      BY <1>1, ConfSame DEF IInv, TypeOK
  <1>10. ChainOK' /\ HandledOK'
      BY <1>1, <1>2, <1>7, ConfSame DEF IInv, ChainOK, HandledOK
  <1>11. RowsOK' /\ LoopOK'
      BY <1>1, ConfSame DEF IInv, RowsOK, LoopOK, Settled
  <1> QED BY <1>8, <1>9, <1>10, <1>11 DEF IInv

LEMMA EndStep ==
    ASSUME WithinLimits, IInv, RoundFails \/ Crash
    PROVE  IInv'
  <1>1. /\ UNCHANGED <<conf, chain, rows, handled, start>> /\ left' = 0 /\ pc # "down"
        /\ pc' \in {"down", "loop"} /\ (pc' = "loop" => cur' = cur)
        /\ block' \in {block, << >>} /\ cur' \in {cur, ConfigBlockNumber}
      BY DEF RoundFails, Crash
  <1>2. TypeOK'
    <2>1. cur' \in 0..(Wrap - 1) /\ left' \in 0..ConcurrencyNum
      <3>1. ConfigBlockNumber \in 0..(Wrap - 1) /\ 0 \in 0..ConcurrencyNum
          BY ConfFacts
      <3> QED BY <1>1, <3>1 DEF IInv, TypeOK
    <2>2. block' \in Seq(Branches)
      <3>1. << >> \in Seq(Branches)
          BY EmptySeq
      <3>2. block \in Seq(Branches)
          BY DEF IInv, TypeOK
      <3>3. block' = block \/ block' = << >>
          BY <1>1
      <3> QED BY ONLY <3>1, <3>2, <3>3
    <2> QED BY <1>1, <2>1, <2>2, ConfSame DEF IInv, TypeOK
  <1>3. CursorOK'
      BY <1>1 DEF IInv, CursorOK
  <1>4. LoopOK'
      BY <1>1, ConfSame DEF LoopOK
  <1> QED BY <1>1, <1>2, <1>3, <1>4, Framed DEF IInv

-----------------------------------------------------------------------------
(* The theorems.                                                           *)

LEMMA InitOK == WithinLimits /\ Init => IInv
  <1> SUFFICES ASSUME WithinLimits, Init PROVE IInv
      OBVIOUS
  <1> USE DEF Init
  <1>1. conf \in Deployments /\ conf \in DeploymentType /\ Keep \in Nat /\ Wrap \in Nat
      BY BlockParserAssumption
  <1>2. /\ MaxHeight \in Nat /\ ConfirmNum \in Nat /\ ConcurrencyNum \in Nat
        /\ ConfigBlockNumber \in Nat /\ chain \in Seq(Branches) /\ Len(chain) \in Nat
      BY <1>1 DEF DeploymentType, MaxHeight, ConfirmNum, ConcurrencyNum, ConfigBlockNumber
  <1>3. /\ Len(chain) \in Keep..MaxHeight /\ ConfirmNum + ConcurrencyNum <= Len(chain)
        /\ ConfigBlockNumber <= MaxHeight /\ Wrap > MaxHeight + Keep
      BY <1>1, <1>2, BlockParserAssumption
         DEF WithinLimits, MaxHeight, ConfirmNum, ConcurrencyNum, ConfigBlockNumber
  <1>4. TypeOK
    <2>1. cur \in 0..(Wrap - 1) /\ left \in 0..ConcurrencyNum
        BY <1>1, <1>2, <1>3
    <2>2. << >> \in Seq(Branches)
        OBVIOUS
    <2> QED BY <1>1, <1>2, <2>1, <2>2 DEF TypeOK
  <1>5. ChainOK
    <2>1. start <= (IF ConfigBlockNumber = 0 THEN Len(chain) ELSE ConfigBlockNumber) + 1
        BY <1>2
    <2> QED BY <1>3, <2>1 DEF ChainOK
  <1>6. HandledOK /\ RowsOK /\ CursorOK /\ LoopOK
      BY DEF HandledOK, RowsOK, CursorOK, LoopOK
  <1> QED BY <1>4, <1>5, <1>6 DEF IInv

LEMMA Inductive == WithinLimits /\ IInv /\ [Next]_vars => IInv'
  <1> SUFFICES ASSUME WithinLimits, IInv, [Next]_vars PROVE IInv'
      OBVIOUS
  <1>1. CASE Next
      BY <1>1, ChainStep, RunStep, RoundStep, ForkStep, GetStep, ParseStep, CreateStep, DeleteStep,
         EndStep DEF Next
  <1>2. CASE UNCHANGED vars
      BY <1>2, ConfSame DEF vars, IInv, TypeOK, ChainOK, HandledOK, RowsOK, CursorOK, LoopOK, Settled
  <1> QED BY <1>1, <1>2

LEMMA Invariance == WithinLimits => (Spec => []IInv)
  <1> SUFFICES ASSUME WithinLimits PROVE Spec => []IInv
      OBVIOUS
  <1>1. Init => IInv
      BY InitOK
  <1>2. IInv /\ [Next]_vars => IInv'
      BY Inductive
  <1> QED BY <1>1, <1>2, PTL DEF Spec

\* Within the limits the cursor of the parser never wraps, and the table, the
\* loop's block and its batch keep their types.
THEOREM TypeCorrect == WithinLimits => (Spec => []TypeOK)
  <1>1. IInv => TypeOK
      BY DEF IInv
  <1> QED BY <1>1, Invariance, PTL

\* Within the limits no block is handled before the one it builds on, whatever
\* is reorganised, retried, batched or restarted.
THEOREM NothingSkipped == WithinLimits => (Spec => []NoBlockSkipped)
  <1>1. IInv => NoBlockSkipped
    <2> SUFFICES ASSUME IInv, NEW b \in handled, Number(b) > start PROVE Parent(b) \in handled
        BY DEF NoBlockSkipped
    <2>1. Len(b) \in Nat /\ start \in Nat
        BY DEF IInv, TypeOK
    <2>2. Len(b) - 1 \in start..Len(b)
        BY <2>1 DEF Number
    <2> QED BY <2>2 DEF IInv, HandledOK, Parent, Front, Prefix
  <1> QED BY <1>1, Invariance, PTL

=============================================================================
