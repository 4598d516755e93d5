--------------------------- MODULE MCQueueTraffic ---------------------------
(* QueueTraffic and QueueLife for TLC: the cells are interchangeable. *)
EXTENDS QueueLife, TLC

CellSymmetry == Permutations(Cell)

=============================================================================
