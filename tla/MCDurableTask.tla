--------------------------- MODULE MCDurableTask ---------------------------
(* Small instances of DurableTask for TLC.                                 *)
EXTENDS DurableTask, TLC

Symmetry == Permutations(Owners) \cup Permutations(RetryIds)
=============================================================================
