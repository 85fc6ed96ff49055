----------------------------- MODULE MCDataSplits -----------------------------
(* Small instance of DataSplits: five adversarial questions of one repo, and   *)
(* of another repo one and a how-to; hash orders that disagree.  Without an   *)
(* answer to the one, its cell borrows from the five.                         *)
EXTENDS DataSplits, TLC

MCIds == 1..7
MCCategory == [q \in MCIds |-> IF q <= 6 THEN "adversarial" ELSE "howto"]
MCRepo == [q \in MCIds |-> IF q <= 5 THEN "r1" ELSE "r2"]
MCGoldenKey == [q \in MCIds |-> q]
MCSplitKey == [q \in MCIds |-> (3 * q) % 11]
MCMixKey == [q \in MCIds |-> (7 * q) % 11]

\* One of each role: golden, kept and dropped in train, test, and the one whose cell borrows.
MCUnsettled == {1, 2, 3, 4, 6}

Symmetry == Permutations(Texts)
==============================================================================
