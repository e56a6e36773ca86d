----------------------------- MODULE MCAdmission -----------------------------
(* Small instances of Admission for TLC. *)
EXTENDS Admission, TLC

CONSTANTS v7, bsd, p1, p2

OneForBsd == [s \in Systems |-> IF s = bsd THEN 1 ELSE 2]

\* The second number may be asked for by name, and the M1 CLI may take the first.
SecondOfV7 == {<<v7, 2>>}
FirstOfV7 == {<<v7, <<v7, 1>>>>}

ProcSymmetry == Permutations(Procs)
==============================================================================
