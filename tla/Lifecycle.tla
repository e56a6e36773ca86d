------------------------------ MODULE Lifecycle ------------------------------
(***************************************************************************)
(* What the broker promises about its session records, whoever writes      *)
(* them: a record appears only while fewer than MaxTotal records occupy a  *)
(* slot, it then moves along the edges of TRANSITIONS only, and it is      *)
(* never removed or reused.  Admission implements this.                    *)
(***************************************************************************)
EXTENDS Naturals, FiniteSets, SessionStates

CONSTANTS Sessions,     \* every session id there can be
          MaxTotal      \* max_total_sessions

VARIABLE state          \* session id -> recorded state, or Absent

OccupyingSessions == {s \in Sessions : Occupying(state[s])}

Init == state = [s \in Sessions |-> Absent]

Admit(s) ==
  /\ state[s] = Absent
  /\ Cardinality(OccupyingSessions) < MaxTotal
  /\ state' = [state EXCEPT ![s] = "requested"]

\* Several records may move at once: reconcile fails every stale one.
Move ==
  /\ state' \in [Sessions -> States \cup {Absent}]
  /\ \A s \in Sessions : state'[s] = state[s] \/ CanMove(state[s], state'[s])

Next == Move \/ \E s \in Sessions : Admit(s)

Spec == Init /\ [][Next]_state
==============================================================================
