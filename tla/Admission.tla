------------------------------ MODULE Admission ------------------------------
(***************************************************************************)
(* Admission, allocation and disposal of sessions by the broker's          *)
(* processes (broker/manager.py, broker/store.py): any number of           *)
(* short-lived processes share state/broker/ through one flock, each file  *)
(* replaced atomically, and any of them may be killed between two writes.  *)
(* What the supervisor does to a record while it runs is abstracted to     *)
(* moves along the lifecycle's edges; BrokerSession models it in full.     *)
(***************************************************************************)
EXTENDS Naturals, FiniteSets, SessionStates

CONSTANTS
  Procs,       \* broker processes: CLI invocations and supervisors that release
  Systems,     \* system ids with a manifest
  Explicit,    \* session ids operators ask for, of the generated form or not
  MaxNumber,   \* bound: the largest number _next_id may hand out
  MaxTotal,    \* max_total_sessions
  Limit,       \* limit_for: system -> concurrent sessions admitted
  M1Paths,     \* bound: the <<system, id>> paths where the M1 CLI makes workspaces
  None

ASSUME MaxTotalAssumption == MaxTotal \in Nat \ {0}
ASSUME MaxNumberAssumption == MaxNumber \in Nat \ {0}
ASSUME LimitAssumption == Limit \in [Systems -> Nat \ {0}]
ASSUME NoneAssumption == None \notin Procs /\ None \notin Explicit
                         /\ None \notin Systems \X (1..MaxNumber)

\* "<system>-<number>" ids that _next_id makes, and the ones operators choose.
Generated == Systems \X (1..MaxNumber)
Ids == Generated \cup Explicit

VARIABLES
  lock,        \* holder of state/broker/lock, or None
  state,       \* id -> state in its record file, or Absent
  owner,       \* id -> system_id in its record file, or None
  recorded,    \* ids whose record names its workspace
  workspaces,  \* <<system, id>> directories under sessions/
  ours,        \* history: directories the broker has published
  foreign,     \* history: directories the M1 CLI has published
  counter,     \* "next" in counter.json
  issued,      \* history: ids _next_id has returned
  spawned,     \* ids a supervisor was started for
  pc, sys, id  \* per process: where it is, system asked for, session id

files == <<state, owner, recorded, workspaces, ours, foreign>>
vars == <<lock, files, counter, issued, spawned, pc, sys, id>>

OccupyingIds == {i \in Ids : Occupying(state[i])}
OccupyingOf(s) == {i \in OccupyingIds : owner[i] = s}

\* Steps of a process that holds the broker lock.
LockedSteps == {"admit", "number", "duplicate", "save", "allocate", "prepare", "discard", "removed"}
Steps == LockedSteps \cup {"idle", "copy", "launch", "poll", "fail"}

TypeOK ==
  /\ lock \in Procs \cup {None}
  /\ state \in [Ids -> States \cup {Absent}]
  /\ owner \in [Ids -> Systems \cup {None}]
  /\ recorded \subseteq Ids
  /\ workspaces \subseteq Systems \X Ids
  /\ ours \subseteq Systems \X Ids
  /\ foreign \subseteq Systems \X Ids
  /\ counter \in 1..(MaxNumber + 1)
  /\ issued \subseteq Generated
  /\ spawned \subseteq Ids
  /\ pc \in [Procs -> Steps]
  /\ sys \in [Procs -> Systems \cup {None}]
  /\ id \in [Procs -> Ids \cup {None}]

Init ==
  /\ lock = None
  /\ state = [i \in Ids |-> Absent]
  /\ owner = [i \in Ids |-> None]
  /\ recorded = {}
  /\ workspaces = {} /\ ours = {} /\ foreign = {}
  /\ counter = 1
  /\ issued = {}
  /\ spawned = {}
  /\ pc = [p \in Procs |-> "idle"]
  /\ sys = [p \in Procs |-> None]
  /\ id = [p \in Procs |-> None]

Acquire(p) == lock = None /\ lock' = p
Goto(p, step) == pc' = [pc EXCEPT ![p] = step]
\* The command ends, releasing the lock if it held it.
Quit(p) ==
  /\ pc' = [pc EXCEPT ![p] = "idle"]
  /\ sys' = [sys EXCEPT ![p] = None]
  /\ id' = [id EXCEPT ![p] = None]
  /\ lock' = IF lock = p THEN None ELSE lock

\* Faults: operators named Faulty... are plausible bugs, used by no action; a run
\* with one in place of the definition that follows it breaks a property.
FaultyTransition(i, t) == state' = [state EXCEPT ![i] = t]

\* Store.transition: refuse an edge that is not in TRANSITIONS, then save.
Transition(i, t) ==
  /\ CanMove(state[i], t)
  /\ state' = [state EXCEPT ![i] = t]

------------------------------------------------------------------------------
(* Broker.request: the admission section, under the lock. *)

Request(p) ==
  /\ pc[p] = "idle"
  /\ Acquire(p)
  /\ \E s \in Systems, requested \in Explicit \cup {None} :
       /\ sys' = [sys EXCEPT ![p] = s]
       /\ id' = [id EXCEPT ![p] = requested]
  /\ Goto(p, "admit")
  /\ UNCHANGED <<files, counter, issued, spawned>>

FaultyFull(s) ==
  \/ Cardinality(OccupyingIds) > MaxTotal
  \/ Cardinality(OccupyingOf(s)) > Limit[s]

Full(s) ==
  \/ Cardinality(OccupyingIds) >= MaxTotal
  \/ Cardinality(OccupyingOf(s)) >= Limit[s]

Admit(p) ==
  /\ pc[p] = "admit"
  /\ ~Full(sys[p])
  /\ Goto(p, IF id[p] = None THEN "number" ELSE "duplicate")
  /\ UNCHANGED <<lock, files, counter, issued, spawned, sys, id>>

Refuse(p) ==
  /\ pc[p] = "admit"
  /\ Full(sys[p])
  /\ Quit(p)
  /\ UNCHANGED <<files, counter, issued, spawned>>

FaultyTaken(s, i) == <<s, i>> \in workspaces  \* records are not looked at
Taken(s, i) == state[i] # Absent \/ <<s, i>> \in workspaces

FaultyCounterPast(n) == n       \* the counter is saved at the number just used
FaultyCounterStep(n) == n + 2   \* or two past it
CounterPast(n) == n + 1

\* _next_id: the first free number at or after the counter, which is saved
\* past that number before the id is used.
NextId(p) ==
  /\ pc[p] = "number"
  /\ \E n \in counter..MaxNumber :
       /\ ~Taken(sys[p], <<sys[p], n>>)
       /\ \A m \in counter..(n - 1) : Taken(sys[p], <<sys[p], m>>)
       /\ counter' = CounterPast(n)
       /\ id' = [id EXCEPT ![p] = <<sys[p], n>>]
       /\ issued' = issued \cup {<<sys[p], n>>}
  /\ Goto(p, "duplicate")
  /\ UNCHANGED <<lock, files, spawned, sys>>

CheckDuplicate(p) ==
  /\ pc[p] = "duplicate"
  /\ IF Taken(sys[p], id[p])
       THEN Quit(p)
       ELSE Goto(p, "save") /\ UNCHANGED <<lock, sys, id>>
  /\ UNCHANGED <<files, counter, issued, spawned>>

\* The new record is saved in REQUESTED.
SaveRequested(p) ==
  /\ pc[p] = "save"
  /\ state' = [state EXCEPT ![id[p]] = "requested"]
  /\ owner' = [owner EXCEPT ![id[p]] = sys[p]]
  /\ Goto(p, "allocate")
  /\ UNCHANGED <<lock, recorded, workspaces, ours, foreign, counter, issued, spawned, sys, id>>

SaveAllocated(p) ==
  /\ pc[p] = "allocate"
  /\ Transition(id[p], "allocated")
  /\ Goto(p, "prepare")
  /\ UNCHANGED <<lock, owner, recorded, workspaces, ours, foreign, counter, issued, spawned, sys, id>>

\* The last save of the section; the lock is then released.
SavePreparing(p) ==
  /\ pc[p] = "prepare"
  /\ Transition(id[p], "preparing")
  /\ lock' = None
  /\ Goto(p, "copy")
  /\ UNCHANGED <<owner, recorded, workspaces, ours, foreign, counter, issued, spawned, sys, id>>

------------------------------------------------------------------------------
(* Broker.request: preparation and launch, outside the lock. *)

\* backend.prepare: prepare_session publishes the workspace only where no
\* directory stands; anything it or render_runtime raises fails the request.
Prepare(p) ==
  /\ pc[p] = "copy"
  /\ \/ /\ <<sys[p], id[p]>> \notin workspaces
        /\ workspaces' = workspaces \cup {<<sys[p], id[p]>>}
        /\ ours' = ours \cup {<<sys[p], id[p]>>}
        /\ \E step \in {"launch", "fail"} : Goto(p, step)
     \/ Goto(p, "fail") /\ UNCHANGED <<workspaces, ours>>
  /\ UNCHANGED <<lock, state, owner, recorded, foreign, counter, issued, spawned, sys, id>>

\* The locked save of the prepared workspace, then Popen of the supervisor,
\* which may raise.
Launch(p) ==
  /\ pc[p] = "launch"
  /\ lock = None
  /\ recorded' = recorded \cup {id[p]}
  /\ \/ spawned' = spawned \cup {id[p]} /\ Goto(p, "poll")
     \/ UNCHANGED spawned /\ Goto(p, "fail")
  /\ UNCHANGED <<lock, state, owner, workspaces, ours, foreign, counter, issued, sys, id>>

\* The startup poll: return once the record shows a running session, raise when
\* it shows FAILED, when the supervisor has exited or when the time is up.
Poll(p) ==
  /\ pc[p] = "poll"
  /\ \/ state[id[p]] \in {"starting", "ready", "active"} /\ Quit(p)
     \/ Goto(p, "fail") /\ UNCHANGED <<lock, sys, id>>
  /\ UNCHANGED <<files, counter, issued, spawned>>

\* The except clause: whatever was raised, the record ends FAILED or RELEASED.
Fail(p) ==
  /\ pc[p] = "fail"
  /\ lock = None
  /\ IF state[id[p]] \in {"failed", "released"}
       THEN UNCHANGED state
       ELSE Transition(id[p], "failed")
  /\ Quit(p)
  /\ UNCHANGED <<owner, recorded, workspaces, ours, foreign, counter, issued, spawned>>

------------------------------------------------------------------------------
(* Broker.release, under the lock throughout. *)

\* RESETTING is saved before anything is removed, so a killed release resumes.
ReleaseBegin(p) ==
  /\ pc[p] = "idle"
  /\ \E i \in Ids :
       /\ \/ state[i] = "failed" /\ Transition(i, "resetting")
          \/ state[i] = "resetting" /\ UNCHANGED state
       /\ id' = [id EXCEPT ![p] = i]
  /\ Acquire(p)
  /\ Goto(p, "discard")
  /\ UNCHANGED <<owner, recorded, workspaces, ours, foreign, counter, issued, spawned, sys>>

FaultyDisks(p) == {<<owner[id[p]], id[p]>>} \cap workspaces  \* recorded or not

\* The disks a release would remove: the directory at the recorded workspace path.
Disks(p) == {<<owner[id[p]], id[p]>>} \cap (IF id[p] \in recorded THEN workspaces ELSE {})

\* The removal and the final save are two writes.
ReleaseRemove(p) ==
  /\ pc[p] = "discard"
  /\ Disks(p) # {}
  /\ workspaces' = workspaces \ Disks(p)
  /\ Goto(p, "removed")
  /\ UNCHANGED <<lock, state, owner, recorded, ours, foreign, counter, issued, spawned, sys, id>>

ReleaseDone(p) ==
  /\ pc[p] = "removed" \/ (pc[p] = "discard" /\ Disks(p) = {})
  /\ Transition(id[p], "released")
  /\ Quit(p)
  /\ UNCHANGED <<owner, recorded, workspaces, ours, foreign, counter, issued, spawned>>

\* A golden mismatch, an unreadable golden or a failing rmtree.
ReleaseFail(p) ==
  /\ pc[p] = "discard"
  /\ Transition(id[p], "failed")
  /\ Quit(p)
  /\ UNCHANGED <<owner, recorded, workspaces, ours, foreign, counter, issued, spawned>>

------------------------------------------------------------------------------
(* Everything else that writes these files. *)

\* Broker.reconcile, one of the saves it makes under the lock: a record in an
\* operational state whose supervisor does not match goes to FAILED.  Which match is
\* left open, so this may be any of them; a killed reconcile leaves the others.
Reconcile(i) ==
  /\ lock = None
  /\ i \in OccupyingIds
  /\ state[i] \notin {"failed", "resetting"}
  /\ Transition(i, "failed")
  /\ UNCHANGED <<lock, owner, recorded, workspaces, ours, foreign, counter, issued, spawned, pc, sys, id>>

\* Supervisor.transition, for any state a supervisor asks for.
SupervisorMove(i) ==
  /\ i \in spawned
  /\ lock = None
  /\ \E t \in {"starting", "ready", "active", "stopping", "resetting", "failed"} :
       Transition(i, t)
  /\ UNCHANGED <<lock, owner, recorded, workspaces, ours, foreign, counter, issued, spawned, pc, sys, id>>

\* `utm session prepare`: the M1 CLI publishes a workspace without the broker's
\* lock or records, through the same prepare_session.
ForeignPrepare(s, i) ==
  /\ <<s, i>> \in M1Paths \ workspaces
  /\ workspaces' = workspaces \cup {<<s, i>>}
  /\ foreign' = foreign \cup {<<s, i>>}
  /\ UNCHANGED <<lock, state, owner, recorded, ours, counter, issued, spawned, pc, sys, id>>

\* The process is killed; the kernel drops its flock.
Crash(p) ==
  /\ pc[p] # "idle"
  /\ Quit(p)
  /\ UNCHANGED <<files, counter, issued, spawned>>

ProcStep(p) ==
  \/ Request(p) \/ Admit(p) \/ Refuse(p) \/ NextId(p) \/ CheckDuplicate(p)
  \/ SaveRequested(p) \/ SaveAllocated(p) \/ SavePreparing(p)
  \/ Prepare(p) \/ Launch(p) \/ Poll(p) \/ Fail(p)
  \/ ReleaseBegin(p) \/ ReleaseRemove(p) \/ ReleaseDone(p) \/ ReleaseFail(p)
  \/ Crash(p)

Next ==
  \/ \E p \in Procs : ProcStep(p)
  \/ \E i \in Ids : Reconcile(i) \/ SupervisorMove(i)
  \/ \E s \in Systems, i \in Ids : ForeignPrepare(s, i)

Spec == Init /\ [][Next]_vars

------------------------------------------------------------------------------
(* Properties. *)

\* Admission counts every record that is not RELEASED, crashed requests and FAILED
\* evidence included, so the limits of the configuration hold at every moment,
\* however requests, releases and kills interleave.
WithinLimits ==
  /\ Cardinality(OccupyingIds) <= MaxTotal
  /\ \A s \in Systems : Cardinality(OccupyingOf(s)) <= Limit[s]

\* _next_id never hands out an identifier a second time, not even one whose
\* request was killed before its record was saved.
NumbersIssuedOnce == [][\A p \in Procs : NextId(p) => id'[p] \notin issued]_vars

\* A session is prepared and launched by one process only: two requests, one of
\* them for an explicit id that the other's counter has just reached, never
\* both pass the duplicate check.
RequestSteps == {"save", "allocate", "prepare", "copy", "launch", "poll", "fail"}
ExclusivePreparation ==
  \A p, q \in Procs :
    p # q /\ pc[p] \in RequestSteps /\ pc[q] \in RequestSteps => id[p] # id[q]

\* A session recorded as running has its disks: no release of an earlier failure,
\* no request for the same id and no kill leaves a running record without them.
RunningHasDisks ==
  \A i \in Ids : state[i] \in {"starting", "ready", "active"} =>
                  i \in recorded /\ <<owner[i], i>> \in workspaces

\* Disks another tool put at a path where the broker never published any are
\* never removed, although a failed request leaves a record for that very id.
ForeignDisksKept == foreign \ ours \subseteq workspaces

\* Records appear within the limit and move along TRANSITIONS only.
Records == INSTANCE Lifecycle WITH Sessions <- Ids
LifecycleKept == Records!Spec
==============================================================================
