--------------------------- MODULE MCDurableWrite ---------------------------
(* Small instances of DurableWrite for TLC.                                *)
EXTENDS DurableWrite, TLC

CONSTANTS h1, h2, w1, w2

\* One worker in each of two hub processes that share the database.
TwoHubs == (w1 :> h1) @@ (w2 :> h2)
=============================================================================
