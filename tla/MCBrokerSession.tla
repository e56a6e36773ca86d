---------------------------- MODULE MCBrokerSession ----------------------------
(* Small instances of BrokerSession for TLC. *)
EXTENDS BrokerSession, TLC

CONSTANTS c1, c2, o1, o2

\* For runs without liveness properties.
Symmetry == Permutations(Clients) \cup Permutations(Operators)
================================================================================
