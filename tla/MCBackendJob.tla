----------------------------- MODULE MCBackendJob ----------------------------
(* Small instances of BackendJob for TLC.                                  *)
EXTENDS BackendJob, TLC

CONSTANTS s1, s2

Symmetric == Permutations(Supervisors)
=============================================================================
