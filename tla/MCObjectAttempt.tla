--------------------------- MODULE MCObjectAttempt ---------------------------
(* A small instance of ObjectAttempt for TLC.                              *)
EXTENDS ObjectAttempt, TLC

CONSTANTS r1, r2, q1, c1, c2
=============================================================================
