---------------------------- MODULE MCQueueModel ----------------------------
(***************************************************************************)
(* QueueModel on a small instance: three entries, a queue of at most three *)
(* and a history of two (500 in the code), so the cap is met.              *)
(***************************************************************************)
EXTENDS QueueModel

Symmetry == Permutations(Entries)

=============================================================================
