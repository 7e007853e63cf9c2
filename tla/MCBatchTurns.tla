--------------------------- MODULE MCBatchTurns ---------------------------
(* Three downloads, the third a child of the second; batches 0, 1 and none. *)
EXTENDS BatchTurns

CONSTANTS g1, g2, g3

MCGid == {g1, g2, g3}
MCParent == [g \in MCGid |-> IF g = g3 THEN g2 ELSE NoGid]
=============================================================================
