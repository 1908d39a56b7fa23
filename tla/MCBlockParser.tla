---------------------------- MODULE MCBlockParser ----------------------------
(* Small deployments of BlockParser: two branches, a few blocks.           *)
EXTENDS BlockParser

MCFirstChain(height) == [i \in 1..height |-> 1]

\* Sub mode only, and reorganisations exactly as deep as the table reaches.
SubMode ==
    [firstChain |-> MCFirstChain(2), maxReorg |-> 3, maxHeight |-> 7,
     confirmNum |-> 0, concurrencyNum |-> 1, blockNumber |-> 0]

\* Both modes, started from an old block, and reorganisations no deeper than the
\* blocks that sub mode leaves.
CatchUp ==
    [firstChain |-> MCFirstChain(3), maxReorg |-> 2, maxHeight |-> 9,
     confirmNum |-> 1, concurrencyNum |-> 2, blockNumber |-> 2]

MCDeployments == {SubMode, CatchUp}

ASSUME WithinLimits
=============================================================================
