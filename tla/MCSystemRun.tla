----------------------------- MODULE MCSystemRun -----------------------------
(* Small instances of SystemRun for TLC. *)
EXTENDS SystemRun, TLC

CONSTANTS s1, s2, t1, r1

Symmetry == Permutations(Starts) \cup Permutations(Stops)
==============================================================================
