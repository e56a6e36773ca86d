------------------------------ MODULE SystemRun ------------------------------
(***************************************************************************)
(* `utm system start`, `stop` and `ready` of one system and session        *)
(* (scripts/utm.py), which share the runtime file state/<system>.json and  *)
(* the session's console.log.  A start runs the emulator on a PTY in its   *)
(* foreground, copies its output into the log and records how it ended; a  *)
(* stop interrupts the recorded process and records why; ready looks for a *)
(* marker in the log.  Every write of the runtime file replaces it, no     *)
(* lock is taken, and any command may be killed.                           *)
(***************************************************************************)
EXTENDS Naturals, Sequences, FiniteSets

CONSTANTS
  Starts,   \* start commands; each has at most one child, named after it
  Stops,    \* stop commands
  Readies,  \* ready commands
  MaxOut,   \* bound: how much all children together print
  None

ASSUME NoneAssumption == None \notin Starts \cup Stops
ASSUME OutputAssumption == MaxOut \in Nat

VARIABLES
  file,     \* the runtime file: pid, runtime, exit code, termination
  emulator, \* start -> its child
  start,    \* start -> where it is, and the file content it has loaded
  stop,     \* stop -> where it is, and the file content it has loaded
  console,  \* start -> what its child has printed, and how much of it has been read
  log,      \* console.log: its content, who truncated it last, and (history) whether
            \* two starts have had it open at once since
  ready     \* ready -> where it is, and (history) the start whose log it passed

vars == <<file, emulator, start, stop, console, log, ready>>

\* Which start the parts of the file come from: its "pid", its "runtime" (session,
\* configuration and emulator), its "exit" code and its "termination".  Only the first is
\* there to be read: an exit code and a termination do not say whose they are.
Files == [pid : Starts \cup {None}, runtime : Starts \cup {None},
          exit : Starts \cup {None}, termination : Starts \cup {None}]
StartSteps == {"idle", "fork", "record", "open", "console", "interrupt", "load", "merge", "over"}
StartCommands == [pc : StartSteps, reaped : BOOLEAN, exit : BOOLEAN, loaded : Files]
StopCommands == [pc : {"idle", "signal", "wait", "write", "over"}, loaded : Files]
ReadyCommands == [pc : {"idle", "poll", "over"}, of : Starts \cup {None}, clean : BOOLEAN]
Chunks == {"text", "marker"}
Consoles == [said : Seq(Chunks), read : Nat]
Entries == [by : Starts \cup {None}, chunk : Chunks]
Logs == [text : Seq(Entries), by : Starts \cup {None}, mixed : BOOLEAN]
NoFile == [pid |-> None, runtime |-> None, exit |-> None, termination |-> None]

TypeOK ==
  /\ file \in Files
  /\ emulator \in [Starts -> {"none", "running", "zombie", "gone"}]
  /\ start \in [Starts -> StartCommands]
  /\ stop \in [Stops -> StopCommands]
  /\ console \in [Starts -> Consoles]
  /\ log \in Logs
  /\ ready \in [Readies -> ReadyCommands]

Init ==
  /\ file = NoFile
  /\ emulator = [s \in Starts |-> "none"]
  /\ start = [s \in Starts |-> [pc |-> "idle", reaped |-> FALSE, exit |-> FALSE, loaded |-> NoFile]]
  /\ stop = [t \in Stops |-> [pc |-> "idle", loaded |-> NoFile]]
  /\ console = [s \in Starts |-> [said |-> <<>>, read |-> 0]]
  /\ log = [text |-> <<>>, by |-> None, mixed |-> FALSE]
  /\ ready = [r \in Readies |-> [pc |-> "idle", of |-> None, clean |-> TRUE]]

\* pid_alive: a zombie still takes signal 0.
PidAlive(pid) == pid # None /\ emulator[pid] \in {"running", "zombie"}

------------------------------------------------------------------------------
(* cmd_system_start. *)

StartGoes(s, pc) == start' = [start EXCEPT ![s] = [@ EXCEPT !.pc = pc]]

\* The command is over, and what it had loaded gone.
StartOver(s) == start' = [start EXCEPT ![s] = [@ EXCEPT !.pc = "over", !.loaded = NoFile]]
StopOver(t) == stop' = [stop EXCEPT ![t] = [pc |-> "over", loaded |-> NoFile]]

\* The runtime file is read, and its process looked up, before anything is started.
StartRead(s) ==
  /\ start[s].pc = "idle"
  /\ start' = [start EXCEPT ![s] = [@ EXCEPT !.pc = "fork", !.loaded = file]]
  /\ UNCHANGED <<file, emulator, stop, console, log, ready>>

StartRefused(s) ==
  /\ start[s].pc = "fork"
  /\ PidAlive(start[s].loaded.pid)
  /\ StartOver(s)
  /\ UNCHANGED <<file, emulator, stop, console, log, ready>>

StartFork(s) ==
  /\ start[s].pc = "fork"
  /\ ~PidAlive(start[s].loaded.pid)
  /\ emulator' = [emulator EXCEPT ![s] = "running"]
  /\ StartGoes(s, "record")
  /\ UNCHANGED <<file, stop, console, log, ready>>

\* started(): the file is replaced, and the session announced as RUNNING.
StartRecord(s) ==
  /\ start[s].pc = "record"
  /\ file' = [NoFile EXCEPT !.pid = s, !.runtime = s]
  /\ StartGoes(s, "open")
  /\ UNCHANGED <<emulator, stop, console, log, ready>>

HasLogOpen(s) == start[s].pc = "console"

\* Faults: operators named Faulty... are plausible bugs, used by no action; a run
\* with one in place of the definition that follows it breaks a property.
FaultyOpened == log.text  \* opened for appending
Opened == <<>>

\* interactive_console: only now is the log of the start before truncated.
StartOpen(s) ==
  /\ start[s].pc = "open"
  /\ log' = [text |-> Opened, by |-> s, mixed |-> \E o \in Starts \ {s} : HasLogOpen(o)]
  /\ StartGoes(s, "console")
  /\ UNCHANGED <<file, emulator, stop, console, ready>>

Unread(s) == SubSeq(console[s].said, console[s].read + 1, Len(console[s].said))

\* The content after a write at the writer's own offset, which may be past the end
\* or in the middle of what another start has written.
Written(text, offset, entries) ==
  [i \in 1..(IF Len(text) > offset + Len(entries) THEN Len(text) ELSE offset + Len(entries)) |->
     IF i > offset /\ i <= offset + Len(entries) THEN entries[i - offset]
     ELSE IF i <= Len(text) THEN text[i] ELSE [by |-> None, chunk |-> "text"]]

\* Output is read from the PTY and written through to the log and the terminal.
StartRelay(s) ==
  /\ start[s].pc = "console"
  /\ Unread(s) # <<>>
  /\ log' = [log EXCEPT !.text = Written(@, console[s].read,
              [i \in 1..Len(Unread(s)) |-> [by |-> s, chunk |-> Unread(s)[i]]])]
  /\ console' = [console EXCEPT ![s] = [@ EXCEPT !.read = Len(console[s].said)]]
  /\ UNCHANGED <<file, emulator, start, stop, ready>>

\* The loop finds the child exited, and reaps it ...
StartReap(s) ==
  /\ start[s].pc = "console"
  /\ emulator[s] = "zombie"
  /\ emulator' = [emulator EXCEPT ![s] = "gone"]
  /\ start' = [start EXCEPT ![s] = [@ EXCEPT !.reaped = TRUE]]
  /\ UNCHANGED <<file, stop, console, log, ready>>

FaultyConsoleOver(s) == start[s].reaped  \* what is still in the PTY is dropped
ConsoleOver(s) == start[s].reaped /\ Unread(s) = <<>>

\* ... and ends with the exit code once the PTY has reported its end as well.
StartEnd(s) ==
  /\ start[s].pc = "console"
  /\ ConsoleOver(s)
  /\ start' = [start EXCEPT ![s] = [@ EXCEPT !.pc = "load", !.exit = TRUE]]
  /\ UNCHANGED <<file, emulator, stop, console, log, ready>>

\* A write of the runtime file, the log or the terminal, or a read, fails: SIGINT to
\* the child, if it has not been reaped.
StartError(s) ==
  /\ start[s].pc \in {"record", "open", "console"}
  /\ StartGoes(s, "interrupt")
  /\ UNCHANGED <<file, emulator, stop, console, log, ready>>

\* Its end is waited for, without a bound, and the error raised again; a second
\* interrupt ends the wait, and the command goes on while its child runs.
StartInterrupted(s) ==
  /\ start[s].pc = "interrupt"
  /\ emulator[s] \in {"zombie", "gone"}
  /\ emulator' = [emulator EXCEPT ![s] = "gone"]
  /\ StartGoes(s, "load")
  /\ UNCHANGED <<file, stop, console, log, ready>>

StartInterruptedAgain(s) ==
  /\ start[s].pc = "interrupt"
  /\ StartGoes(s, "load")
  /\ UNCHANGED <<file, emulator, stop, console, log, ready>>

\* The finally clause loads what a stop may have written, if it can be read ...
StartLoad(s) ==
  /\ start[s].pc = "load"
  /\ \E found \in {file, NoFile} :
       start' = [start EXCEPT ![s] = [@ EXCEPT !.pc = "merge", !.loaded = found]]
  /\ UNCHANGED <<file, emulator, stop, console, log, ready>>

OwnExit(s) == IF start[s].exit THEN s ELSE None
FaultyMerged(s) ==  \* the child's own pid is not put back
  [start[s].loaded EXCEPT !.exit = OwnExit(s)]
FaultyMergedType(s) ==  \* a missing exit code is recorded as null
  [start[s].loaded EXCEPT !.pid = s, !.exit = IF start[s].exit THEN s ELSE FALSE]

\* ... and puts its own pid and exit code over it.  Session and termination are those of
\* the file, whichever start they belong to; its own session is there if the file has none.
KeptRuntime(s) ==
  IF start[s].loaded.runtime = None THEN s ELSE start[s].loaded.runtime
Merged(s) ==
  [start[s].loaded EXCEPT !.pid = s, !.exit = OwnExit(s), !.runtime = KeptRuntime(s)]

StartMerge(s) ==
  /\ start[s].pc = "merge"
  /\ file' = Merged(s)
  /\ StartOver(s)
  /\ UNCHANGED <<emulator, stop, console, log, ready>>

StartKilled(s) ==
  /\ start[s].pc # "over"
  /\ StartOver(s)
  /\ UNCHANGED <<file, emulator, stop, console, log, ready>>

------------------------------------------------------------------------------
(* cmd_system_stop. *)

StopRead(t) ==
  /\ stop[t].pc = "idle"
  /\ file.pid # None
  /\ stop' = [stop EXCEPT ![t] = [pc |-> "signal", loaded |-> file]]
  /\ UNCHANGED <<file, emulator, start, console, log, ready>>

\* The recorded process is alive and attested, and SIGINT is sent.
StopSignal(t) ==
  /\ stop[t].pc = "signal"
  /\ PidAlive(stop[t].loaded.pid)
  /\ stop' = [stop EXCEPT ![t] = [@ EXCEPT !.pc = "wait"]]
  /\ UNCHANGED <<file, emulator, start, console, log, ready>>

FaultyStopped(t) == emulator[stop[t].loaded.pid] # "running"  \* a zombie counts as gone
Stopped(t) == ~PidAlive(stop[t].loaded.pid)

\* stop_process returns once the process is gone.
StopConfirmed(t) ==
  /\ stop[t].pc = "wait"
  /\ Stopped(t)
  /\ stop' = [stop EXCEPT ![t] = [@ EXCEPT !.pc = "write"]]
  /\ UNCHANGED <<file, emulator, start, console, log, ready>>

\* The termination is added to what was loaded at the start of the command.
StopWrite(t) ==
  /\ stop[t].pc = "write"
  /\ file' = [stop[t].loaded EXCEPT !.termination = stop[t].loaded.pid]
  /\ StopOver(t)
  /\ UNCHANGED <<emulator, start, console, log, ready>>

\* Refused, timed out, or killed.
StopEnds(t) ==
  /\ stop[t].pc # "over"
  /\ StopOver(t)
  /\ UNCHANGED <<file, emulator, start, console, log, ready>>

------------------------------------------------------------------------------
(* cmd_system_ready: the log is read again and again until the marker is in its tail *)
(* or the time is up.                                                               *)

ReadyBegin(r) ==
  /\ ready[r].pc = "idle"
  /\ ready' = [ready EXCEPT ![r] = [@ EXCEPT !.pc = "poll"]]
  /\ UNCHANGED <<file, emulator, start, stop, console, log>>

ReadyPass(r) ==
  /\ ready[r].pc = "poll"
  /\ \E i \in 1..Len(log.text) : log.text[i].chunk = "marker"
  /\ ready' = [ready EXCEPT ![r] = [pc |-> "over", of |-> log.by, clean |-> ~log.mixed]]
  /\ UNCHANGED <<file, emulator, start, stop, console, log>>

\* HUMAN_REQUIRED, or a kill.
ReadyEnds(r) ==
  /\ ready[r].pc = "poll"
  /\ ready' = [ready EXCEPT ![r] = [@ EXCEPT !.pc = "over"]]
  /\ UNCHANGED <<file, emulator, start, stop, console, log>>

------------------------------------------------------------------------------
(* The emulator (external) prints, and exits when it likes; init reaps an orphan. *)

Printed == {at \in Starts \X (1..MaxOut) : at[2] <= Len(console[at[1]].said)}

EmulatorPrint(s, chunk) ==
  /\ emulator[s] = "running"
  /\ start[s].pc \in {"record", "open", "console", "interrupt"}
  /\ Cardinality(Printed) < MaxOut
  /\ console' = [console EXCEPT ![s] = [@ EXCEPT !.said = Append(console[s].said, chunk)]]
  /\ UNCHANGED <<file, emulator, start, stop, log, ready>>

EmulatorExit(s) ==
  /\ emulator[s] = "running"
  /\ emulator' = [emulator EXCEPT ![s] = "zombie"]
  /\ UNCHANGED <<file, start, stop, console, log, ready>>

OrphanReaped(s) ==
  /\ emulator[s] = "zombie"
  /\ start[s].pc = "over"
  /\ emulator' = [emulator EXCEPT ![s] = "gone"]
  /\ UNCHANGED <<file, start, stop, console, log, ready>>

StartStep(s) ==
  \/ StartRead(s) \/ StartRefused(s) \/ StartFork(s) \/ StartRecord(s)
  \/ StartOpen(s) \/ StartRelay(s) \/ StartReap(s) \/ StartEnd(s)
  \/ StartError(s) \/ StartInterrupted(s) \/ StartInterruptedAgain(s)
  \/ StartLoad(s) \/ StartMerge(s)

Next ==
  \/ \E s \in Starts : StartStep(s) \/ StartKilled(s) \/ EmulatorExit(s) \/ OrphanReaped(s)
  \/ \E s \in Starts, chunk \in Chunks : EmulatorPrint(s, chunk)
  \/ \E t \in Stops :
       StopRead(t) \/ StopSignal(t) \/ StopConfirmed(t) \/ StopWrite(t) \/ StopEnds(t)
  \/ \E r \in Readies : ReadyBegin(r) \/ ReadyPass(r) \/ ReadyEnds(r)

Spec == Init /\ [][Next]_vars

------------------------------------------------------------------------------
(* Properties. *)

\* However starts and stops overwrite each other's file, an exit code in it is that of the
\* process whose pid it has, which is gone, and a process whose termination a stop has
\* recorded is gone.  Nobody is told that a running emulator has exited, or been stopped.
\* That a termination is about the pid it stands beside is not claimed: Merged may bring
\* them together from two starts.
RecordedEndsAreTrue ==
  /\ file.exit # None => file.exit = file.pid /\ emulator[file.exit] = "gone"
  /\ file.termination # None => emulator[file.termination] = "gone"

\* A start that ends by itself leaves the whole of what its child has printed in the
\* log, also what the child printed just before it exited, unless a second start has
\* opened the same log meanwhile.
TranscriptComplete ==
  \A s \in Starts : start[s].exit /\ log.by = s /\ ~log.mixed =>
    /\ Len(log.text) = Len(console[s].said)
    /\ \A i \in 1..Len(log.text) : log.text[i] = [by |-> s, chunk |-> console[s].said[i]]

\* A PASS is about the run whose log it is, never about the one before it in the same
\* session, as long as no two starts write the log at once.
ReadyIsOfItsRun ==
  \A r \in Readies : ready[r].of # None /\ ready[r].clean =>
    \E i \in 1..Len(console[ready[r].of].said) : console[ready[r].of].said[i] = "marker"
==============================================================================
