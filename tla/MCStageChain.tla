---------------------------- MODULE MCStageChain ----------------------------
EXTENDS StageChain, TLC

CONSTANTS b1, r1, r2, l1, p1

\* One batch with a record that is cleared and one that quarantine may hold.
OneBatch == {b1}
BatchOfOne == [r \in {r1, r2} |-> b1]
LayoutOfOne == b1 :> l1
DoubtfulRecord == {r2}
OnePartition == [t \in Topics |-> b1 :> p1]
=============================================================================
