--------------------------- MODULE MCInstallStaging ---------------------------
(* Small instances of InstallStaging for TLC. *)
EXTENDS InstallStaging, TLC

CONSTANTS boot, member, index, miniroot, i1, p1, n1, n2, w1

Symmetry == Permutations(Installers)
==============================================================================
