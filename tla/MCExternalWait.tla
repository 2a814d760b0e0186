---------------------------- MODULE MCExternalWait ---------------------------
(* Small instances of ExternalWait for TLC.                                *)
EXTENDS ExternalWait, TLC

CONSTANTS w1, w2

Symmetric == Permutations(Workers)
=============================================================================
