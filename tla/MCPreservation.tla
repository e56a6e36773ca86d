---------------------------- MODULE MCPreservation ----------------------------
(* Small instances of Preservation for TLC. *)
EXTENDS Preservation, TLC

CONSTANTS rp0, rp1, i1, i2, p1, p2, s1

Symmetry == Permutations(Disks) \cup Permutations(Importers) \cup Permutations(Preparers)
==============================================================================
