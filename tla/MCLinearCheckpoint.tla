------------------------- MODULE MCLinearCheckpoint -------------------------
(* A small instance of LinearCheckpoint for TLC.                           *)
EXTENDS LinearCheckpoint

CONSTANTS r1
=============================================================================
