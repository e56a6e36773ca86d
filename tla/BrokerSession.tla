---------------------------- MODULE BrokerSession ----------------------------
(***************************************************************************)
(* One admitted session and every process that touches it: the `broker     *)
(* request` that prepares and launches it, its detached supervisor, the    *)
(* emulator behind the supervisor's PTY, attach clients, the stop,         *)
(* recover-stop and release commands of operators, and reconcile.          *)
(*                                                                         *)
(* The processes meet in the session's record file, which every change     *)
(* rewrites under the broker lock, in its workspace, in a signal, in the   *)
(* PTY and in the console socket.  A locked read-modify-write is one step; *)
(* release, which holds the lock over several writes, is several.  A state *)
(* that is loaded without the lock and acted on later is kept in between.  *)
(***************************************************************************)
EXTENDS Naturals, Sequences, FiniteSets, SessionStates

CONSTANTS
  Clients,        \* attach commands
  Operators,      \* processes that run stop, recover-stop and release
  Faults,         \* what the environment may do, from FaultKinds
  MonitorProfile, \* the profile's monitor_may_already_be_active
  None

\* "slow_start": the startup deadline may expire; "early_reconcile": reconcile may
\* run while the request is still in flight; "kill_...": the process may be killed
\* at any step; "hang_up": a client may close its end at any moment; "slow_client": a
\* client may not take what is relayed to it; "flood": more output may come than one
\* read returns; "full_input": the emulator may leave its input unread until writes fail.
FaultKinds == {"slow_start", "early_reconcile", "kill_request", "kill_supervisor",
               "kill_operator", "hang_up", "slow_client", "flood", "full_input"}

Self == "supervisor"   \* the supervisor, as a process that releases
Releasers == Operators \cup {Self}

ASSUME FaultsAssumption == Faults \subseteq FaultKinds
ASSUME ProfileAssumption == MonitorProfile \in BOOLEAN
ASSUME NoneAssumption == None \notin Clients /\ None \notin Releasers /\ Self \notin Operators

VARIABLES
  rec,      \* the record file: state, why it failed, and which fields are set
  disk,     \* the workspace: "none", its "disks", or a "stub" without disks
  lock,     \* the release that holds the broker lock, or None
  stage,    \* how far that release is
  req,      \* the request command
  sup,      \* the supervisor: pc and memory
  emu,      \* the emulator process
  pty,      \* unread console output, unread input
  client,   \* each attach command and its connection
  op,       \* each operator process
  hist      \* history: what the last stop has sent, what was attested and emitted

vars == <<rec, disk, lock, stage, req, sup, emu, pty, client, op, hist>>

Causes == {"none", "request", "stale", "exit", "shutdown", "readiness", "deadline", "golden",
           "removal"}

RequestSteps == {"prepare", "save", "spawn", "poll", "except", "done"}
SetupSteps == {"setup", "announce"}
LoopSteps == {"top", "begin", "deadline", "clear", "select", "events", "boundary", "timers", "poll"}
ExitSteps == {"exit", "reset", "release"}
SupervisorSteps == {"none", "born", "dead"} \cup SetupSteps \cup LoopSteps \cup ExitSteps
OperatorSteps == {"idle", "verify", "write", "signal", "release"}

Records == [state : States, why : Causes, sup : BOOLEAN, emu : BOOLEAN, ws : BOOLEAN]
Supervisors ==
  [pc : SupervisorSteps, todo : Seq(States), why : Causes,
   stop : BOOLEAN, timed : BOOLEAN, phase : {"none", "monitor", "exit"},
   ready : BOOLEAN, failed : BOOLEAN, readiness : {"unset", "armed", "expired"},
   attached : Clients \cup {None}, events : SUBSET {"listener", "console", "client"},
   prompt : BOOLEAN]
\* flood: more than one read returns stands before what is in out.
Consoles == [out : SUBSET {"marker", "prompt"}, flood : BOOLEAN,
             keys : SUBSET {"enter", "quit", "typed"}]
NoConsole == [out |-> {}, flood |-> FALSE, keys |-> {}]
Histories == [sent : SUBSET {"enter", "quit"}, attested : BOOLEAN, first : BOOLEAN, raised : BOOLEAN]
ClientSteps == {"idle", "checked", "queued", "queued_closed", "open", "typed", "closed"}

TypeOK ==
  /\ rec \in Records
  /\ disk \in {"none", "disks", "stub"}
  /\ lock \in Releasers \cup {None}
  /\ stage \in {"none", "discard", "removed"}
  /\ req \in RequestSteps
  /\ sup \in Supervisors
  /\ emu \in {"none", "guest", "monitor", "zombie", "gone"}
  /\ pty \in Consoles
  /\ client \in [Clients -> ClientSteps]
  /\ op \in [Operators -> OperatorSteps]
  /\ hist \in Histories

\* Admission has just saved the record in PREPARING.
Init ==
  /\ rec = [state |-> "preparing", why |-> "none", sup |-> FALSE, emu |-> FALSE, ws |-> FALSE]
  /\ disk = "none"
  /\ lock = None /\ stage = "none"
  /\ req = "prepare"
  /\ sup = [pc |-> "none", todo |-> <<>>, why |-> "none", stop |-> FALSE, timed |-> FALSE,
            phase |-> "none", ready |-> FALSE, failed |-> FALSE, readiness |-> "unset",
            attached |-> None, events |-> {}, prompt |-> FALSE]
  /\ emu = "none"
  /\ pty = NoConsole
  /\ client = [c \in Clients |-> "idle"]
  /\ op = [o \in Operators |-> "idle"]
  /\ hist = [sent |-> {}, attested |-> FALSE, first |-> FALSE, raised |-> FALSE]

Running == emu \in {"guest", "monitor"}
Alive == sup.pc \notin {"none", "dead"}
Listening == sup.pc \in {"announce"} \cup LoopSteps

\* process_matches: pid and start ticks of the record name a process that is still
\* in /proc, which a zombie is.
SupervisorMatches == rec.sup /\ Alive
EmulatorMatches == rec.emu /\ emu \in {"guest", "monitor", "zombie"}

\* Faults: operators named Faulty... are plausible bugs, used by no action; a run
\* with one in place of the definition that follows it breaks a property.
FaultyMoved(t, why) == [rec EXCEPT !.state = why, !.why = t]  \* arguments swapped

\* Store.transition on the record.
Moved(t, why) == [rec EXCEPT !.state = t, !.why = IF t = "failed" THEN why ELSE @]

------------------------------------------------------------------------------
(* Broker.request, after its admission section. *)

\* backend.prepare publishes the workspace or raises.
RequestPrepare ==
  /\ req = "prepare"
  /\ \/ disk' = "disks" /\ req' \in {"save", "except"}
     \/ UNCHANGED disk /\ req' = "except"
  /\ UNCHANGED <<rec, lock, stage, sup, emu, pty, client, op, hist>>

RequestSave ==
  /\ req = "save"
  /\ lock = None
  /\ rec' = [rec EXCEPT !.ws = TRUE]
  /\ req' = "spawn"
  /\ UNCHANGED <<disk, lock, stage, sup, emu, pty, client, op, hist>>

RequestSpawn ==
  /\ req = "spawn"
  /\ \/ sup' = [sup EXCEPT !.pc = "born"] /\ req' = "poll"
     \/ UNCHANGED sup /\ req' = "except"
  /\ UNCHANGED <<rec, disk, lock, stage, emu, pty, client, op, hist>>

\* One turn of the startup poll.  The record is loaded before the child is polled,
\* so a child found dead may have got past PREPARING in between.
RequestPoll ==
  /\ req = "poll"
  /\ \/ rec.state \in {"starting", "ready", "active"} /\ req' = "done"
     \/ rec.state = "failed" /\ req' = "except"
     \/ sup.pc = "dead" /\ req' = "except"
  /\ UNCHANGED <<rec, disk, lock, stage, sup, emu, pty, client, op, hist>>

\* SIGTERM: request_stop once the handler is installed, the end of it before.
Signalled == IF sup.pc = "born" THEN [sup EXCEPT !.pc = "dead"] ELSE [sup EXCEPT !.stop = TRUE]

\* The startup deadline: process.terminate(), a bounded wait, and the raise.  It is
\* reached too when the record went through STARTING, READY and ACTIVE between polls.
RequestTimeout ==
  /\ req = "poll"
  /\ rec.state \in {"stopping", "resetting", "released"} \/ "slow_start" \in Faults
  /\ sup' = IF Alive THEN Signalled ELSE sup
  /\ req' = "except"
  /\ UNCHANGED <<rec, disk, lock, stage, emu, pty, client, op, hist>>

\* The except clause.
RequestExcept ==
  /\ req = "except"
  /\ lock = None
  /\ rec' = IF rec.state \in {"failed", "released"} THEN rec ELSE Moved("failed", "request")
  /\ req' = "done"
  /\ UNCHANGED <<disk, lock, stage, sup, emu, pty, client, op, hist>>

RequestKilled ==
  /\ req # "done"
  /\ "kill_request" \in Faults
  /\ req' = "done"
  /\ UNCHANGED <<rec, disk, lock, stage, sup, emu, pty, client, op, hist>>

RequestStep ==
  RequestPrepare \/ RequestSave \/ RequestSpawn \/ RequestPoll \/ RequestExcept

------------------------------------------------------------------------------
(* The supervisor: ends, transitions and start-up. *)

\* The process is gone: its socket, connections and PTY master are closed.
Dead == [sup EXCEPT !.pc = "dead", !.todo = <<>>, !.attached = None, !.events = {}]
ClientsDropped ==
  [c \in Clients |-> IF client[c] \in {"idle", "checked"} THEN client[c] ELSE "idle"]

\* The supervisor ends for whatever reason: an exception it does not catch, a
\* signal, or the end of main.
Die(raised) ==
  /\ sup' = Dead
  /\ client' = ClientsDropped
  /\ pty' = NoConsole
  /\ hist' = [hist EXCEPT !.raised = @ \/ raised]

\* The supervisor is at this step and has no transition of the last one left.
At(step) == sup.pc = step /\ sup.todo = <<>>

FaultyAccepts(t) == TRUE  \* the edge is not checked
Accepts(t) == rec.state = t \/ CanMove(rec.state, t)

\* Supervisor.transition, one locked step per call: the state is loaded again,
\* nothing is done when it is there already, and an edge that is not in
\* TRANSITIONS raises InvalidTransition, which nothing in run() catches.
SupTransition ==
  /\ sup.todo # <<>>
  /\ lock = None
  /\ IF Accepts(Head(sup.todo))
       THEN /\ rec' = IF rec.state = Head(sup.todo) THEN rec ELSE Moved(Head(sup.todo), sup.why)
            /\ sup' = [sup EXCEPT !.todo = Tail(@)]
            /\ UNCHANGED <<client, pty, hist>>
       ELSE Die(TRUE) /\ UNCHANGED rec
  /\ UNCHANGED <<disk, lock, stage, req, emu, op>>

\* run(): the handlers are installed and the process identity is saved.
SupBoot ==
  /\ At("born")
  /\ lock = None
  /\ rec' = [rec EXCEPT !.sup = TRUE]
  /\ sup' = [sup EXCEPT !.pc = "setup"]
  /\ UNCHANGED <<disk, lock, stage, req, emu, pty, client, op, hist>>

\* The launch description is read from the workspace, the socket bound and the
\* emulator started; any of it may raise, and no handler covers this part.
SupLaunch ==
  /\ At("setup")
  /\ \/ /\ disk = "disks"
        /\ emu' = "guest"
        /\ sup' = [sup EXCEPT !.pc = "announce", !.todo = <<"starting">>]
        /\ UNCHANGED <<client, pty, hist>>
     \/ Die(TRUE) /\ UNCHANGED emu
  /\ UNCHANGED <<rec, disk, lock, stage, req, op>>

\* The emulator's identity is saved after the transition to STARTING.
SupIdentify ==
  /\ At("announce")
  /\ lock = None
  /\ rec' = [rec EXCEPT !.emu = TRUE]
  /\ sup' = [sup EXCEPT !.pc = "top"]
  /\ UNCHANGED <<disk, lock, stage, req, emu, pty, client, op, hist>>

SupKilled ==
  /\ Alive
  /\ "kill_supervisor" \in Faults
  /\ Die(FALSE)
  /\ lock' = IF lock = Self THEN None ELSE lock
  /\ stage' = IF lock = Self THEN "none" ELSE stage
  /\ UNCHANGED <<rec, disk, req, emu, op>>

------------------------------------------------------------------------------
(* The supervisor's loop: stop requests. *)

FaultyStopDue == (sup.stop \/ sup.failed) /\ ~sup.timed  \* a failure is torn down
StopDue == sup.stop /\ ~sup.timed

\* A stop request is taken up: the state is loaded, and the transition to
\* STOPPING is a locked step of its own.
SupTop ==
  /\ At("top")
  /\ sup' = IF StopDue
              THEN [sup EXCEPT !.pc = "begin",
                               !.todo = IF rec.state \in {"starting", "ready", "active", "failed"}
                                          THEN <<"stopping">> ELSE <<>>]
              ELSE [sup EXCEPT !.pc = IF sup.timed THEN "deadline" ELSE "select"]
  /\ UNCHANGED <<rec, disk, lock, stage, req, emu, pty, client, op, hist>>

\* A write to the PTY raises when the emulator has gone or its input is full, and
\* nothing in run() catches that.
WriteFails == (~Running \/ "full_input" \in Faults) /\ Die(TRUE)

Send(keys) ==
  /\ pty' = [pty EXCEPT !.keys = @ \cup keys]
  /\ hist' = [hist EXCEPT !.sent = keys]

\* SimhMonitorShutdownDriver.begin: quit at a live prompt, else Ctrl-E.
SupBegin ==
  /\ At("begin")
  /\ \/ LET live == MonitorProfile /\ sup.prompt
        IN /\ Send(IF live THEN {"quit"} ELSE {"enter"})
           /\ sup' = [sup EXCEPT !.pc = "deadline", !.timed = TRUE,
                                 !.phase = IF live THEN "exit" ELSE "monitor"]
           /\ UNCHANGED client
     \/ WriteFails
  /\ UNCHANGED <<rec, disk, lock, stage, req, emu, op>>

FaultyTimedOut == [sup EXCEPT !.pc = "select", !.timed = FALSE]  \* begun again instead
TimedOut == [sup EXCEPT !.pc = "clear", !.todo = <<"failed">>, !.why = "shutdown"]

\* The shutdown deadline: the session fails, and the supervisor stays for an
\* inspection and another stop.
SupShutdownTimeout ==
  /\ At("deadline")
  /\ Running
  /\ sup' = TimedOut
  /\ UNCHANGED <<rec, disk, lock, stage, req, emu, pty, client, op, hist>>

\* The request is forgotten once FAILED is saved, with any that came meanwhile.
SupClear ==
  /\ At("clear")
  /\ sup' = [sup EXCEPT !.pc = "select", !.failed = TRUE, !.stop = FALSE, !.timed = FALSE,
                        !.phase = "none"]
  /\ UNCHANGED <<rec, disk, lock, stage, req, emu, pty, client, op, hist>>

------------------------------------------------------------------------------
(* The supervisor's loop: console, listener and client events. *)

HasOutput == pty.out # {} \/ pty.flood
Queued == {c \in Clients : client[c] \in {"queued", "queued_closed"}}

\* selector.select: what is ready now is handled below, in any order, by handlers
\* that do not look again whether it still is.
SupSelect ==
  /\ At("select")
  /\ LET ready == (IF Queued # {} THEN {"listener"} ELSE {})
                  \cup (IF HasOutput THEN {"console"} ELSE {})
                  \cup (IF sup.attached # None /\ client[sup.attached] \in {"typed", "closed"}
                          THEN {"client"} ELSE {})
     IN sup' = [sup EXCEPT !.events = ready,
                           !.pc = IF ready = {} THEN "boundary" ELSE "events"]
  /\ UNCHANGED <<rec, disk, lock, stage, req, emu, pty, client, op, hist>>

Handling(event) == At("events") /\ event \in sup.events
Handled(event) == [sup EXCEPT !.events = @ \ {event}]

FaultyFree == TRUE  \* a later attachment takes the console over
Free == sup.attached = None

\* The first attachment; readiness is armed by the first one that finds STARTING.
SupAccept(c) ==
  /\ Handling("listener")
  /\ c \in Queued
  /\ Free
  /\ client' = [client EXCEPT ![c] = IF @ = "queued" THEN "open" ELSE "closed"]
  /\ sup' = [Handled("listener") EXCEPT
       !.attached = c,
       !.todo = IF rec.state = "ready" THEN <<"active">> ELSE <<>>,
       !.readiness = IF rec.state = "starting" /\ @ = "unset" THEN "armed" ELSE @]
  /\ UNCHANGED <<rec, disk, lock, stage, req, emu, pty, op, hist>>

\* A second one is told so and closed; telling a peer that has hung up raises.
SupReject(c) ==
  /\ Handling("listener")
  /\ c \in Queued
  /\ ~Free
  /\ IF client[c] = "queued"
       THEN /\ client' = [client EXCEPT ![c] = "idle"]
            /\ sup' = Handled("listener")
            /\ UNCHANGED <<pty, hist>>
       ELSE Die(TRUE)
  /\ UNCHANGED <<rec, disk, lock, stage, req, emu, op>>

\* Supervisor.detach: the connection is closed and an ACTIVE session is READY again.
Detached == IF sup.attached = None THEN client ELSE [client EXCEPT ![sup.attached] = "idle"]
FaultyDetachTodo == <<>>  \* the record is left ACTIVE
DetachTodo == IF rec.state = "active" THEN <<"ready">> ELSE <<>>

\* Relaying output to a peer that has hung up fails, to a slow one it may, and that
\* detaches it.
PeerGone == sup.attached # None /\ client[sup.attached] = "closed"
RelayFailures ==
  {fails \in BOOLEAN :
     /\ PeerGone => fails
     /\ fails => PeerGone \/ (sup.attached # None /\ "slow_client" \in Faults)}
Relayed(fails) == IF fails THEN Detached ELSE client

\* Console output is relayed, and the readiness marker makes the session READY,
\* and ACTIVE as well when somebody is attached.
Heard(s, marker, fails) ==
  LET becomesReady == marker /\ ~s.ready
      stillAttached == sup.attached # None /\ ~fails
  IN [s EXCEPT !.attached = IF fails THEN None ELSE @,
               !.ready = @ \/ marker,
               !.todo = (IF fails THEN DetachTodo ELSE <<>>)
                        \o (IF ~becomesReady THEN <<>>
                            ELSE IF stillAttached THEN <<"ready", "active">> ELSE <<"ready">>)]

\* What one read of the PTY returns, and what it leaves.
FirstRead == IF pty.flood THEN {} ELSE pty.out
AfterRead(read) == [pty EXCEPT !.out = @ \ read, !.flood = FALSE]

\* The driver finds the monitor prompt: the confirmation on which it sends quit, or
\* evidence for a later stop.
Confirmed == "prompt" \in FirstRead /\ sup.phase = "monitor"
Evidence == "prompt" \in FirstRead /\ MonitorProfile /\ sup.ready /\ sup.phase = "none"

\* A marker that the next read returns has come in time, unless the deadline is over.
InReach(p) == "marker" \in p.out /\ ~p.flood
InTime(p) == InReach(p) /\ sup.readiness # "expired"

\* Output arrives.
ConsoleRead ==
  /\ pty' = [AfterRead(FirstRead) EXCEPT !.keys = @ \cup (IF Confirmed THEN {"quit"} ELSE {})]
  /\ hist' = [hist EXCEPT !.sent = @ \cup (IF Confirmed THEN {"quit"} ELSE {}),
                          !.first = @ \/ InTime(AfterRead(FirstRead))]
  /\ \E fails \in RelayFailures :
       /\ sup' = Heard([Handled("console") EXCEPT !.phase = IF Confirmed THEN "exit" ELSE @,
                                                  !.prompt = @ \/ Evidence],
                       "marker" \in FirstRead, fails)
       /\ client' = Relayed(fails)

SupConsole ==
  /\ Handling("console")
  /\ ConsoleRead \/ (Confirmed /\ WriteFails)
  /\ UNCHANGED <<rec, disk, lock, stage, req, emu, op>>

\* The client's input goes to the guest and voids the prompt evidence; its end, or
\* Ctrl-], detaches, after what was typed before it.  The event may be stale:
\* detached meanwhile, recv is called on None and raises; reattached, recv finds
\* nothing and detaches the newcomer.
ClientTyped ==
  /\ client[sup.attached] = "typed"
  /\ client' = [client EXCEPT ![sup.attached] = "open"]
  /\ pty' = [pty EXCEPT !.keys = @ \cup {"typed"}]
  /\ sup' = [Handled("client") EXCEPT !.prompt = FALSE]
  /\ UNCHANGED hist

ClientGone ==
  /\ client[sup.attached] # "typed"
  /\ \E before \in BOOLEAN :
       /\ before => client[sup.attached] = "closed"
       /\ pty' = [pty EXCEPT !.keys = IF before THEN @ \cup {"typed"} ELSE @]
       /\ sup' = [Handled("client") EXCEPT !.attached = None, !.todo = DetachTodo,
                                           !.prompt = @ /\ ~before]
  /\ client' = Detached
  /\ UNCHANGED hist

SupClient ==
  /\ Handling("client")
  /\ \/ sup.attached = None /\ Die(TRUE)
     \/ sup.attached # None /\ (ClientTyped \/ ClientGone)
     \/ /\ sup.attached # None /\ client[sup.attached] \in {"typed", "closed"}
        /\ WriteFails
  /\ UNCHANGED <<rec, disk, lock, stage, req, emu, op>>

------------------------------------------------------------------------------
(* The supervisor's loop: deadlines and the emulator's exit. *)

FaultyBoundaryRead == {}  \* the deadline counts before the console is read
BoundaryRead == FirstRead
ReadinessDue == ~sup.ready /\ sup.readiness \in {"armed", "expired"}

\* While the session is not ready and its readiness deadline is over, the console is
\* read once more before the deadline counts.  The driver does not see what is read here.
SupBoundary ==
  /\ At("boundary")
  /\ \/ /\ ReadinessDue /\ HasOutput
        /\ \E fails \in RelayFailures :
             /\ sup' = [Heard(sup, "marker" \in BoundaryRead, fails)
                          EXCEPT !.pc = "timers", !.readiness = "expired"]
             /\ client' = Relayed(fails)
        /\ pty' = AfterRead(BoundaryRead)
     \/ /\ ReadinessDue /\ ~HasOutput
        /\ sup' = [sup EXCEPT !.pc = "timers", !.readiness = "expired"]
        /\ UNCHANGED <<pty, client>>
     \/ /\ sup.ready \/ sup.readiness # "expired"
        /\ sup' = [sup EXCEPT !.pc = "timers"]
        /\ UNCHANGED <<pty, client>>
  /\ UNCHANGED <<rec, disk, lock, stage, req, emu, op, hist>>

FaultyExpirable == ~sup.failed  \* a stop does not suspend the timers
FaultyExpiryOnAttach ==  \* no timer runs before the first attachment
  ~sup.failed /\ ~sup.stop /\ sup.readiness # "unset"
Expirable == ~sup.failed /\ ~sup.stop
ReadinessOver == Expirable /\ ~sup.ready /\ sup.readiness = "expired"
Expired(why) == [sup EXCEPT !.pc = "poll", !.todo = <<"failed">>, !.why = why, !.failed = TRUE]

\* Readiness, absolute and idle expiry: the session fails, nothing is sent.
SupExpire ==
  /\ At("timers")
  /\ Expirable
  /\ sup' = Expired(IF ReadinessOver THEN "readiness" ELSE "deadline")
  /\ UNCHANGED <<rec, disk, lock, stage, req, emu, pty, client, op, hist>>

FaultyResetDue == rec.state \in {"stopping", "failed"}  \* any exit after a stop counts
ResetDue == rec.state = "failed" \/ (rec.state = "stopping" /\ sup.phase = "exit")

\* The rest of the loop: every selected event handled, no deadline over, the
\* emulator still running.
SupGoOn ==
  /\ sup.todo = <<>>
  /\ \E next \in LoopSteps :
       /\ \/ sup.pc = "deadline" /\ next = "select"
          \/ sup.pc = "events" /\ sup.events = {} /\ next = "boundary"
          \/ sup.pc = "timers" /\ ~ReadinessOver /\ next = "poll"
          \/ sup.pc = "poll" /\ Running /\ next = "top"
       /\ sup' = [sup EXCEPT !.pc = next]
  /\ UNCHANGED <<rec, disk, lock, stage, req, emu, pty, client, op, hist>>

\* The emulator has exited and is reaped.  Only an exit that was asked for at the
\* monitor prompt, or one of a session already FAILED, resets the session.
SupPollExited ==
  /\ At("poll")
  /\ emu = "zombie"
  /\ lock = None
  /\ emu' = "gone"
  /\ sup' = [sup EXCEPT !.pc = IF ResetDue THEN "reset" ELSE "exit",
                        !.todo = IF ResetDue THEN <<"resetting">> ELSE <<"failed">>,
                        !.why = "exit"]
  /\ UNCHANGED <<rec, disk, lock, stage, req, pty, client, op, hist>>

\* run() ends: its finally clause closes the socket, the connections and the PTY.
SupExit ==
  /\ At("exit")
  /\ Die(FALSE)
  /\ UNCHANGED <<rec, disk, lock, stage, req, emu, op>>

\* The same for result 0, after which main calls Broker.release.
SupReset ==
  /\ At("reset")
  /\ sup' = [Dead EXCEPT !.pc = "release"]
  /\ client' = ClientsDropped
  /\ pty' = NoConsole
  /\ UNCHANGED <<rec, disk, lock, stage, req, emu, op, hist>>

------------------------------------------------------------------------------
(* Broker.release, by an operator or by the supervisor that has reset. *)

FaultyReleasable == rec.state \in {"resetting", "failed"}  \* the emulator is not looked for
Releasable == rec.state = "resetting" \/ (rec.state = "failed" /\ ~EmulatorMatches)

\* The lock is taken and RESETTING saved.
ReleaseBegin(r) ==
  /\ lock = None
  /\ Releasable
  /\ IF r = Self THEN At("release") /\ UNCHANGED op
                 ELSE op[r] = "idle" /\ op' = [op EXCEPT ![r] = "release"]
  /\ rec' = Moved("resetting", "none")
  /\ lock' = r
  /\ stage' = "discard"
  /\ UNCHANGED <<disk, req, sup, emu, pty, client, hist>>

\* The release is over, and with it the process.
ReleaseEnds(r) ==
  /\ lock' = None
  /\ stage' = "none"
  /\ IF r = Self THEN Die(FALSE) /\ UNCHANGED op
                 ELSE /\ op' = [op EXCEPT ![r] = "idle"]
                      /\ UNCHANGED <<sup, client, pty, hist>>

\* The goldens still match: the recorded workspace is removed.
ReleaseRemove(r) ==
  /\ lock = r
  /\ stage = "discard"
  /\ rec.ws /\ disk # "none"
  /\ disk' = "none"
  /\ stage' = "removed"
  /\ UNCHANGED <<rec, lock, req, sup, emu, pty, client, op, hist>>

Removed == stage = "removed" \/ ~rec.ws \/ disk = "none"

ReleaseDone(r) ==
  /\ lock = r
  /\ Removed
  /\ rec' = Moved("released", "none")
  /\ ReleaseEnds(r)
  /\ UNCHANGED <<disk, req, emu>>

\* A golden that changed or cannot be read leaves the workspace alone; a workspace
\* that cannot be removed may have lost its disks before rmtree failed.
ReleaseFail(r) ==
  /\ lock = r
  /\ stage = "discard"
  /\ \/ rec' = Moved("failed", "golden") /\ UNCHANGED disk
     \/ /\ rec.ws /\ disk # "none"
        /\ rec' = Moved("failed", "removal")
        /\ disk' \in {disk, "stub"}
  /\ ReleaseEnds(r)
  /\ UNCHANGED <<req, emu>>

\* The supervisor finds its session released already, or in a state release refuses.
SupReleaseRefused ==
  /\ At("release")
  /\ lock = None
  /\ ~Releasable
  /\ Die(FALSE)
  /\ UNCHANGED <<rec, disk, lock, stage, req, emu, op>>

ReleaseNext(r) == ReleaseRemove(r) \/ ReleaseDone(r) \/ ReleaseFail(r)

------------------------------------------------------------------------------
(* Broker.stop and Broker.reconcile. *)

\* The record is loaded without the lock and judged: ordinary stop refuses FAILED,
\* recover-stop everything else, and both a record that names no supervisor.
StopRequest(o, recovery) ==
  /\ op[o] = "idle"
  /\ rec.state \notin {"resetting", "released"}
  /\ recovery <=> rec.state = "failed"
  /\ rec.ws /\ rec.sup
  /\ op' = [op EXCEPT ![o] = "verify"]
  /\ UNCHANGED <<rec, disk, lock, stage, req, sup, emu, pty, client, hist>>

\* The launch description is read and the recorded supervisor looked up in /proc.
StopVerify(o) ==
  /\ op[o] = "verify"
  /\ op' = [op EXCEPT ![o] = IF disk = "disks" /\ Alive THEN "write" ELSE "idle"]
  /\ UNCHANGED <<rec, disk, lock, stage, req, sup, emu, pty, client, hist>>

\* broker-stop.json, with the operator's attestation.  atomic_json makes the
\* directory it writes into.
StopWrite(o) ==
  /\ op[o] = "write"
  /\ disk' = IF disk = "none" THEN "stub" ELSE disk
  /\ hist' = [hist EXCEPT !.attested = TRUE]
  /\ op' = [op EXCEPT ![o] = "signal"]
  /\ UNCHANGED <<rec, lock, stage, req, sup, emu, pty, client>>

\* SIGTERM to the recorded supervisor; it may be gone by now.  The bounded wait that
\* follows only reads: MonitorShutdown has it.
StopSignal(o) ==
  /\ op[o] = "signal"
  /\ sup' = IF Alive THEN Signalled ELSE sup
  /\ op' = [op EXCEPT ![o] = "idle"]
  /\ UNCHANGED <<rec, disk, lock, stage, req, emu, pty, client, hist>>

OperatorKilled(o) ==
  /\ op[o] # "idle"
  /\ "kill_operator" \in Faults
  /\ op' = [op EXCEPT ![o] = "idle"]
  /\ lock' = IF lock = o THEN None ELSE lock
  /\ stage' = IF lock = o THEN "none" ELSE stage
  /\ UNCHANGED <<rec, disk, req, sup, emu, pty, client, hist>>

\* A record in an operational state whose supervisor does not match goes to FAILED.
Reconcile ==
  /\ lock = None
  /\ rec.state \notin {"released", "failed", "resetting"}
  /\ ~SupervisorMatches
  /\ req = "done" \/ "early_reconcile" \in Faults
  /\ rec' = Moved("failed", "stale")
  /\ UNCHANGED <<disk, lock, stage, req, sup, emu, pty, client, op, hist>>

OperatorStep(o) ==
  \/ \E recovery \in BOOLEAN : StopRequest(o, recovery)
  \/ StopVerify(o) \/ StopWrite(o) \/ StopSignal(o)
  \/ ReleaseBegin(o) \/ ReleaseNext(o)

------------------------------------------------------------------------------
(* Broker.attach. *)

\* The record is loaded without the lock; only a running session is attachable.
AttachCheck(c) ==
  /\ client[c] = "idle"
  /\ rec.state \in {"starting", "ready", "active"}
  /\ client' = [client EXCEPT ![c] = "checked"]
  /\ UNCHANGED <<rec, disk, lock, stage, req, sup, emu, pty, op, hist>>

\* connect(), to whatever listens at the recorded path by then.
AttachConnect(c) ==
  /\ client[c] = "checked"
  /\ client' = [client EXCEPT ![c] = IF Listening THEN "queued" ELSE "idle"]
  /\ UNCHANGED <<rec, disk, lock, stage, req, sup, emu, pty, op, hist>>

AttachType(c) ==
  /\ client[c] = "open"
  /\ client' = [client EXCEPT ![c] = "typed"]
  /\ UNCHANGED <<rec, disk, lock, stage, req, sup, emu, pty, op, hist>>

\* Ctrl-] or the end of input: sent, if at all, right before the client closes.
AttachClose(c) ==
  /\ "hang_up" \in Faults
  /\ \/ client[c] \in {"open", "typed"} /\ client' = [client EXCEPT ![c] = "closed"]
     \/ client[c] = "queued" /\ client' = [client EXCEPT ![c] = "queued_closed"]
  /\ UNCHANGED <<rec, disk, lock, stage, req, sup, emu, pty, op, hist>>

ClientStep(c) ==
  AttachCheck(c) \/ AttachConnect(c) \/ AttachType(c) \/ AttachClose(c)

------------------------------------------------------------------------------
(* The emulator (external): a SIMH that runs a guest or stands at its monitor. *)

Output(x) == pty' = [pty EXCEPT !.out = IF Alive THEN @ \cup x ELSE @]

\* More output than one read returns, about 4 KiB of a PTY; what needs more reads is
\* one flood after the other.
EmuFlood ==
  /\ Running /\ Alive
  /\ "flood" \in Faults
  /\ ~HasOutput
  /\ pty' = [pty EXCEPT !.flood = TRUE]
  /\ UNCHANGED <<rec, disk, lock, stage, req, sup, emu, client, op, hist>>

EmuMarker ==
  /\ emu = "guest" /\ Alive
  /\ "marker" \notin pty.out
  /\ Output({"marker"})
  /\ hist' = [hist EXCEPT !.first = @ \/ InTime(pty')]
  /\ UNCHANGED <<rec, disk, lock, stage, req, sup, emu, client, op>>

\* The guest halts into the monitor by itself.
EmuHalt ==
  /\ emu = "guest"
  /\ emu' = "monitor"
  /\ Output({"prompt"})
  /\ UNCHANGED <<rec, disk, lock, stage, req, sup, client, op, hist>>

\* Input is consumed: Ctrl-E stops the guest, quit ends a monitor, what an operator
\* typed may do either, or resume the guest.
EmuRead(key) ==
  /\ Running
  /\ key \in pty.keys
  /\ \E next \in {"guest", "monitor", "zombie"} :
       /\ key = "enter" => next = "monitor"
       /\ key = "quit" => next = IF emu = "monitor" THEN "zombie" ELSE "guest"
       /\ emu' = next
       /\ pty' = [pty EXCEPT !.keys = @ \ {key},
                             !.out = @ \cup (IF next = "monitor" THEN {"prompt"} ELSE {})]
  /\ UNCHANGED <<rec, disk, lock, stage, req, sup, client, op, hist>>

\* It exits: by itself, or because its terminal hung up.
EmuExit ==
  /\ Running
  /\ emu' = "zombie"
  /\ UNCHANGED <<rec, disk, lock, stage, req, sup, pty, client, op, hist>>

\* init reaps the orphan of a dead supervisor.
EmuReaped ==
  /\ emu = "zombie" /\ ~Alive
  /\ emu' = "gone"
  /\ UNCHANGED <<rec, disk, lock, stage, req, sup, pty, client, op, hist>>

EmuStep ==
  \/ EmuFlood \/ EmuMarker \/ EmuHalt \/ (\E key \in pty.keys : EmuRead(key))
  \/ EmuExit \/ EmuReaped

------------------------------------------------------------------------------
SupStep ==
  \/ SupTransition \/ SupBoot \/ SupLaunch \/ SupIdentify
  \/ SupTop \/ SupBegin \/ SupShutdownTimeout \/ SupClear
  \/ SupSelect \/ SupConsole \/ SupClient
  \/ \E c \in Clients : SupAccept(c) \/ SupReject(c)
  \/ SupBoundary \/ SupExpire \/ SupGoOn \/ SupPollExited
  \/ SupExit \/ SupReset
  \/ SupReleaseRefused \/ ReleaseBegin(Self) \/ ReleaseNext(Self)

Next ==
  \/ RequestStep \/ RequestTimeout \/ RequestKilled
  \/ SupStep \/ SupKilled
  \/ EmuStep
  \/ \E c \in Clients : ClientStep(c)
  \/ \E o \in Operators : OperatorStep(o) \/ OperatorKilled(o)
  \/ Reconcile

Spec == Init /\ [][Next]_vars

\* The supervisor is scheduled, and a deadline that it looks at again and again is
\* found over.  Nothing is assumed of operators or the emulator.
Fairness ==
  /\ WF_vars(SupStep)
  /\ SF_vars(SupShutdownTimeout)
  /\ SF_vars(SupExpire)

FairSpec == Spec /\ Fairness

------------------------------------------------------------------------------
(* Properties. *)

\* What the broker promises of a session holds of it, interleaved with every stop,
\* release, kill and failure: nothing is reset while its recorded emulator runs, disks
\* go only in a reset, and a release leaves none.
Contract == INSTANCE SessionContract
  WITH state <- rec.state, disks <- rec.ws /\ disk = "disks", live <- rec.emu /\ Running
ContractKept == Contract!Spec

\* A reset that does not follow a failure was confirmed: this very stop, and not an
\* earlier one, sent quit at a monitor prompt, and the emulator was reaped.
ResetIsConfirmed ==
  [][rec.state = "stopping" /\ rec'.state = "resetting"
       => "quit" \in hist.sent /\ emu = "gone"]_vars

\* Nothing is sent to the emulator unless an operator attested the guest's sync.
NoUnattestedInput == hist.sent # {} => hist.attested

\* While a stop is being carried out the record says so: no timer, detach or late
\* readiness moves it out of STOPPING.  Only the except clause of a request that is
\* still in flight may.
PhaseIsStopping ==
  sup.phase # "none" /\ sup.pc \in LoopSteps \ {"clear"}
    => rec.state = "stopping" \/ rec.why = "request"

\* A failure that another process recorded, the request's own except clause or a
\* reconcile, is not overwritten by the supervisor that was starting meanwhile: the
\* session is never attachable again.
FailureIsNotOverwritten ==
  [][rec.state \in {"failed", "resetting", "released"}
       => rec'.state \notin {"starting", "ready", "active"}]_vars

\* Between the loop's turns, ACTIVE means that somebody is attached and READY that
\* nobody is.
ActiveMeansAttached ==
  At("top") =>
    /\ rec.state = "active" => sup.attached # None
    /\ rec.state = "ready" => sup.attached = None

\* One console at most: every accepted connection is the supervisor's attached one.
OneConsole ==
  \A c \in Clients : client[c] \in {"open", "typed", "closed"} => sup.attached = c

\* A marker that the next read of the console returns, before the readiness deadline
\* counts, is never lost to it, even at the deadline itself.  One that stands behind
\* more output than that may be.
MarkerWithinReachWins == ~(hist.first /\ rec.why = "readiness")

\* STARTING does not last: the deadlines bound it, attached or not, while the
\* supervisor lives.
StartingEnds == rec.state = "starting" ~> (rec.state # "starting" \/ ~Alive)

\* A stop request that reached the loop is answered by a reset or by a failure.
StopAnswered ==
  (sup.stop /\ sup.pc \in LoopSteps)
    ~> (rec.state \in {"failed", "resetting", "released"} \/ ~Alive)

\* A deadline that fails the session leaves the supervisor there for an inspection.
FailureKeepsSupervisor == ~(sup.failed /\ hist.raised /\ Running)

\* Disks are removed only once the emulator has exited.
ConfirmedExitBeforeRemoval == emu \in {"guest", "monitor"} => disk = "disks"

\* Clients that come and go do not end a session that has not failed, whose emulator
\* still runs.
ClientsDoNotEndSessions ==
  hist.raised /\ Running => rec.state \notin {"ready", "active"}
==============================================================================
