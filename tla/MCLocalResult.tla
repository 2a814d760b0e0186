---------------------------- MODULE MCLocalResult ----------------------------
(* Small instances of LocalResult for TLC.                                 *)
EXTENDS LocalResult, TLC

CONSTANTS p1, p2, r1, x1, x2, c1, o1

\* A kernel with the writer and a reader; a hub with a reader and the
\* cleaner.
KernelAndHub == (r1 :> p1) @@ (x1 :> p1) @@ (x2 :> p2) @@ (c1 :> p2)
=============================================================================
