--------------------------- MODULE SessionContract ---------------------------
(***************************************************************************)
(* What the broker promises of one admitted session, in the terms of       *)
(* docs/PRESERVATION.md: whoever writes its record, the record moves along *)
(* TRANSITIONS; a session is reset only when the emulator that the record  *)
(* names has exited; its disks go only in a reset; and it is released only *)
(* without them.  BrokerSession implements this.                           *)
(***************************************************************************)
EXTENDS SessionStates

VARIABLES
  state, \* the recorded state
  disks, \* the recorded workspace has its disks
  live   \* the recorded emulator runs

vars == <<state, disks, live>>

Init == state = "preparing" /\ disks = FALSE /\ live = FALSE

\* Any edge that does not claim an exit or a removal; a session is started or stopped
\* only while it has its disks.
Move ==
  /\ state' \in States \ {"resetting", "released"}
  /\ state' \in {"starting", "stopping"} => disks
  /\ CanMove(state, state')
  /\ UNCHANGED <<disks, live>>

\* The workspace is recorded while the session is being prepared.
Prepare ==
  /\ state = "preparing"
  /\ disks' = TRUE
  /\ UNCHANGED <<state, live>>

\* The emulator of a session that has disks is recorded.
Launch ==
  /\ state \in {"starting", "stopping", "failed"} /\ disks
  /\ live' = TRUE
  /\ UNCHANGED <<state, disks>>

Exit == live' = FALSE /\ UNCHANGED <<state, disks>>

Reset ==
  /\ state \in {"stopping", "failed"} /\ ~live
  /\ state' = "resetting"
  /\ UNCHANGED <<disks, live>>

Discard ==
  /\ state = "resetting" /\ ~live
  /\ disks' = FALSE
  /\ UNCHANGED <<state, live>>

\* A removal that fails half-way may have taken the disks.
DiscardFails ==
  /\ state = "resetting" /\ ~live
  /\ state' = "failed"
  /\ disks' = FALSE
  /\ UNCHANGED live

Release ==
  /\ state = "resetting" /\ ~disks /\ ~live
  /\ state' = "released"
  /\ UNCHANGED <<disks, live>>

Next == Move \/ Prepare \/ Launch \/ Exit \/ Reset \/ Discard \/ DiscardFails \/ Release

Spec == Init /\ [][Next]_vars
==============================================================================
