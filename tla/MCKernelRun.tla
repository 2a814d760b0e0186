----------------------------- MODULE MCKernelRun -----------------------------
(* Small instances of KernelRun for TLC.                                   *)
EXTENDS KernelRun, TLC

CONSTANTS c1, c2, h1, q1, q2, r1, r2

OneCanvas == [r \in Runs |-> c1]
TwoCanvases == (r1 :> c1) @@ (r2 :> c2)
OneHub == [q \in Requests |-> h1]

\* Submissions of the same run at the same hub differ in nothing.
Symmetry == Permutations(Kernels) \cup Permutations(Requests)
=============================================================================
