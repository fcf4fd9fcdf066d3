--------------------------- MODULE MCLidarMerger ---------------------------
(* A scan that fails, an empty one, one and two points, and a second       *)
(* layout.                                                                 *)
EXTENDS LidarMerger

Outcome(ok, points, step, is_dense) ==
  [ok |-> ok, points |-> points, step |-> step, is_dense |-> is_dense]

MCProjection ==
  {Outcome(FALSE, 0, 4, FALSE), Outcome(TRUE, 0, 4, TRUE), Outcome(TRUE, 1, 4, TRUE),
   Outcome(TRUE, 2, 4, FALSE), Outcome(TRUE, 1, 5, TRUE)}
=============================================================================
