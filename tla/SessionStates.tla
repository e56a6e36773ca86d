---------------------------- MODULE SessionStates ----------------------------
(***************************************************************************)
(* The session lifecycle of broker/models.py: the states a session record  *)
(* may hold, the edges Store.transition accepts between them, and which    *)
(* records occupy an admission slot.                                       *)
(***************************************************************************)

States == {"requested", "allocated", "preparing", "starting", "ready", "active",
           "stopping", "resetting", "released", "failed"}

\* No record file exists for the session.
Absent == "absent"

\* models.TRANSITIONS, as the relation Store.transition tests.
CanMove(s, t) ==
  \/ s = "requested" /\ t \in {"allocated", "failed"}
  \/ s = "allocated" /\ t \in {"preparing", "failed"}
  \/ s = "preparing" /\ t \in {"starting", "failed"}
  \/ s = "starting"  /\ t \in {"ready", "stopping", "failed"}
  \/ s = "ready"     /\ t \in {"active", "stopping", "failed"}
  \/ s = "active"    /\ t \in {"ready", "stopping", "failed"}
  \/ s = "stopping"  /\ t \in {"resetting", "failed"}
  \/ s = "failed"    /\ t \in {"stopping", "resetting"}
  \/ s = "resetting" /\ t \in {"released", "failed"}

\* manager.OCCUPYING: every state but RELEASED holds an admission slot.
Occupying(s) == s \in States /\ s # "released"
==============================================================================
