--------------------------- MODULE MonitorShutdown ---------------------------
(***************************************************************************)
(* A stop as a race against time: the SIMH shutdown driver (shutdown.py),  *)
(* the part of the supervisor's loop that drives it, and the bounded wait  *)
(* of the stop command.  BrokerSession has the rest of the session; here   *)
(* the PTY keeps the order of what is written to it, a prompt may arrive   *)
(* in two reads, and a clock counts down the deadlines.  One tick is the   *)
(* longest turn of the loop.                                               *)
(***************************************************************************)
EXTENDS Naturals, Sequences, SessionStates

CONSTANTS
  Operators, \* stop and recover-stop commands
  Timeout,   \* shutdown_timeout, in ticks
  Grace,     \* what the stop command waits longer than that
  Delay,     \* the ticks within which a timely emulator reacts to its input
  MaxKeys,   \* bound: unread input
  MaxOut     \* the size of the PTY's output buffer: the emulator waits when it is full

ASSUME TimingAssumption ==
  Timeout \in Nat \ {0} /\ Grace \in Nat /\ Delay \in Nat /\ Delay < Timeout
ASSUME BufferAssumption == MaxKeys \in Nat /\ MaxOut \in Nat /\ MaxOut >= 2

VARIABLES
  profile, \* monitor_may_already_be_active
  timely,  \* the emulator reacts within Delay
  state,   \* the state of the record
  sup,     \* the supervisor
  drv,     \* the driver: evidence of a prompt, and what its two tails end with
  emu,     \* "guest", "monitor", "line" (a command line begun by a Ctrl-E), "gone"
  lag,     \* how long the emulator has left its input unread
  keys,    \* unread input
  out,     \* unread output
  op,      \* stop command -> where it is
  hist     \* history: of the stop being carried out, and what went astray

vars == <<profile, timely, state, sup, drv, emu, lag, keys, out, op, hist>>

\* The last four are the same bytes, told apart by why they were sent: on a prompt after
\* Ctrl-E; the same, but a client has typed since that Ctrl-E; on evidence that was true
\* when it was observed; on evidence that was not.
Keys == {"enter", "cont", "quit", "hasty", "evident", "presumed"}
Telling == {"quit", "evident"}
Prompt == <<"pro", "mpt">>
Never == 2 * Timeout + 3  \* where ages stop counting

Supervisors == [pc : {"top", "clear", "select", "release", "dead"}, stop : BOOLEAN,
                failed : BOOLEAN, phase : {"none", "monitor", "exit"}, left : 0..Timeout,
                turned : BOOLEAN]
Drivers == [evidence : BOOLEAN, live : BOOLEAN, shut : BOOLEAN]
Commands == [pc : {"idle", "signal", "wait"}, recovery : BOOLEAN, started : BOOLEAN,
             left : 0..(Timeout + Grace), polled : BOOLEAN, again : BOOLEAN,
             answer : {"none", "failed", "resetting", "released", "expired"}]
Histories == [age : 0..Never, typed : BOOLEAN, clean : BOOLEAN, sure : BOOLEAN,
              astray : SUBSET Telling]

TypeOK ==
  /\ profile \in BOOLEAN /\ timely \in BOOLEAN
  /\ state \in {"ready", "stopping", "failed", "resetting", "released"}
  /\ sup \in Supervisors
  /\ drv \in Drivers
  /\ emu \in {"guest", "monitor", "line", "gone"}
  /\ lag \in 0..Delay
  /\ keys \in Seq(Keys) /\ Len(keys) <= MaxKeys
  /\ out \in Seq({"text", "pro", "mpt"}) /\ Len(out) <= MaxOut
  /\ op \in [Operators -> Commands]
  /\ hist \in Histories

Idle == [pc |-> "idle", recovery |-> FALSE, started |-> FALSE, left |-> 0, polled |-> FALSE,
         again |-> FALSE, answer |-> "none"]

\* The guest is up and has passed readiness; no stop has been asked for yet.
Init ==
  /\ profile \in BOOLEAN /\ timely \in BOOLEAN
  /\ state = "ready"
  /\ sup = [pc |-> "top", stop |-> FALSE, failed |-> FALSE, phase |-> "none", left |-> 0,
            turned |-> FALSE]
  /\ drv = [evidence |-> FALSE, live |-> FALSE, shut |-> FALSE]
  /\ emu = "guest" /\ lag = 0
  /\ keys = <<>> /\ out = <<>>
  /\ op = [o \in Operators |-> Idle]
  /\ hist = [age |-> 0, typed |-> FALSE, clean |-> FALSE, sure |-> FALSE,
             astray |-> {}]

Alive == sup.pc # "dead"

------------------------------------------------------------------------------
(* SimhMonitorShutdownDriver.  A tail is abstracted to whether it ends with the *)
(* first half of a prompt: a whole one is acted on in the read that completes it. *)

HasPrompt(half, data) ==
  \/ half /\ Head(data) = "mpt"
  \/ \E i \in 1..(Len(data) - 1) : data[i] = "pro" /\ data[i + 1] = "mpt"
EndsInHalf(data) == data[Len(data)] = "pro"

Live == profile /\ drv.evidence

\* begin: what is sent, the phase, and the driver afterwards.
Begun == [key |-> IF ~Live THEN "enter" ELSE IF hist.sure THEN "evident" ELSE "presumed",
          phase |-> IF Live THEN "exit" ELSE "monitor",
          drv |-> IF Live THEN drv ELSE [drv EXCEPT !.shut = FALSE]]

FaultyConfirms(data) ==  \* also outside a stop
  sup.phase # "exit" /\ HasPrompt(drv.shut, data)
Confirms(data) == sup.phase = "monitor" /\ HasPrompt(drv.shut, data)

\* observe: a prompt outside a stop is evidence for the next one.
Watching == profile /\ sup.phase = "none"
Witnessed(data) == Watching /\ HasPrompt(drv.live, data)
Observed(data) ==
  [evidence |-> drv.evidence \/ Witnessed(data),
   live |-> IF Watching THEN EndsInHalf(data) ELSE drv.live,
   shut |-> IF sup.phase = "monitor" THEN EndsInHalf(data) ELSE drv.shut]

\* invalidate_on_input.
FaultyInvalidated == drv  \* the evidence outlives the input
Invalidated == IF profile THEN [drv EXCEPT !.evidence = FALSE, !.live = FALSE] ELSE drv

------------------------------------------------------------------------------
(* The supervisor's loop. *)

Send(key) == keys' = Append(keys, key)

\* The record becomes FAILED; a stop command that waits meanwhile may see it.
Fail ==
  /\ state' = "failed"
  /\ op' = [o \in Operators |-> [op[o] EXCEPT !.again = @ \/ op[o].pc = "wait"]]

\* A stop request is taken up: STOPPING, the driver's first key, and the deadline.
SupBegin ==
  /\ sup.pc = "top"
  /\ sup.stop /\ sup.phase = "none"
  /\ Len(keys) < MaxKeys
  /\ state' = IF state \in {"ready", "failed"} THEN "stopping" ELSE state
  /\ Send(Begun.key)
  /\ drv' = Begun.drv
  /\ sup' = [sup EXCEPT !.pc = "select", !.phase = Begun.phase, !.left = Timeout, !.turned = TRUE]
  /\ hist' = [hist EXCEPT !.age = 0, !.typed = FALSE,
                          !.clean = keys = <<>> /\ out = <<>>
                                    /\ emu = IF Live THEN "monitor" ELSE "guest"]
  /\ UNCHANGED <<profile, timely, emu, lag, out, op>>

\* The deadline is over and the emulator still there: FAILED is saved ...
SupTimeout ==
  /\ sup.pc = "top"
  /\ sup.phase # "none" /\ sup.left = 0 /\ emu # "gone"
  /\ Fail
  /\ sup' = [sup EXCEPT !.pc = "clear"]
  /\ UNCHANGED <<profile, timely, drv, emu, lag, keys, out, hist>>

\* ... and only then is the request forgotten, with whatever signal came between.
SupClear ==
  /\ sup.pc = "clear"
  /\ sup' = [sup EXCEPT !.pc = "select", !.stop = FALSE, !.failed = TRUE, !.phase = "none",
                        !.turned = TRUE]
  /\ hist' = [hist EXCEPT !.clean = FALSE]
  /\ UNCHANGED <<profile, timely, state, drv, emu, lag, keys, out, op>>

\* No stop is due and no deadline over.
SupTop ==
  /\ sup.pc = "top"
  /\ IF sup.phase = "none" THEN ~sup.stop ELSE sup.left > 0 \/ emu = "gone"
  /\ sup' = [sup EXCEPT !.pc = "select", !.turned = TRUE]
  /\ UNCHANGED <<profile, timely, state, drv, emu, lag, keys, out, op, hist>>

FaultyRearms(data) == sup.phase # "none"  \* any output of the emulator prolongs the stop
FaultyNeverRearms(data) == FALSE          \* one deadline for both phases
Rearms(data) == Confirms(data)

FaultyPhaseName(data) ==  \* a phase that nothing else knows
  IF Confirms(data) THEN "exiting" ELSE sup.phase
PhaseAfter(data) == IF Confirms(data) THEN "exit" ELSE sup.phase

\* What has arrived of the output is read; a prompt that confirms the monitor is
\* answered with quit, and the emulator has another Timeout to exit.
SupRead ==
  /\ sup.pc = "select"
  /\ \E n \in 1..Len(out) :
       LET data == SubSeq(out, 1, n)
       IN /\ out' = SubSeq(out, n + 1, Len(out))
          /\ drv' = Observed(data)
          /\ IF Confirms(data)
               THEN Len(keys) < MaxKeys /\ Send(IF hist.typed THEN "hasty" ELSE "quit")
               ELSE UNCHANGED keys
          /\ hist' = [hist EXCEPT !.sure =
               IF Witnessed(data) THEN emu = "monitor" /\ keys = <<>> ELSE @]
          /\ sup' = [sup EXCEPT !.phase = PhaseAfter(data),
                                !.left = IF Rearms(data) THEN Timeout ELSE @]
  /\ UNCHANGED <<profile, timely, state, emu, lag, op>>

\* The attached client types a command that resumes the guest.  Room for a whole stop
\* stays in the (bounded) input.
SupRelay ==
  /\ sup.pc = "select"
  /\ Len(keys) + 2 < MaxKeys
  /\ Send("cont")
  /\ drv' = Invalidated
  /\ hist' = [hist EXCEPT !.typed = TRUE, !.clean = FALSE]
  /\ UNCHANGED <<profile, timely, state, sup, emu, lag, out, op>>

\* The idle or absolute deadline.
SupExpire ==
  /\ sup.pc = "select"
  /\ ~sup.failed /\ ~sup.stop
  /\ Fail
  /\ sup' = [sup EXCEPT !.pc = "top", !.failed = TRUE]
  /\ UNCHANGED <<profile, timely, drv, emu, lag, keys, out, hist>>

SupRunning ==
  /\ sup.pc = "select"
  /\ emu # "gone"
  /\ sup' = [sup EXCEPT !.pc = "top"]
  /\ UNCHANGED <<profile, timely, state, drv, emu, lag, keys, out, op, hist>>

\* The emulator has exited: reset and release after a confirmed stop or a failure,
\* the end of the supervisor otherwise.
SupExited ==
  /\ sup.pc = "select"
  /\ emu = "gone"
  /\ IF state = "failed" \/ (state = "stopping" /\ sup.phase = "exit")
       THEN state' = "resetting" /\ sup' = [sup EXCEPT !.pc = "release"] /\ UNCHANGED op
       ELSE Fail /\ sup' = [sup EXCEPT !.pc = "dead"]
  /\ hist' = [hist EXCEPT !.age = 0]
  /\ keys' = <<>> /\ out' = <<>>
  /\ UNCHANGED <<profile, timely, drv, emu, lag>>

\* Broker.release succeeds or refuses; BrokerSession says when.
SupRelease ==
  /\ sup.pc = "release"
  /\ \/ state' = "released" /\ UNCHANGED op
     \/ Fail
  /\ sup' = [sup EXCEPT !.pc = "dead"]
  /\ UNCHANGED <<profile, timely, drv, emu, lag, keys, out, hist>>

------------------------------------------------------------------------------
(* Broker.stop. *)

\* The record is judged and the supervisor found alive.
StopCheck(o, recovery) ==
  /\ op[o].pc = "idle"
  /\ Alive /\ state \notin {"resetting", "released"}
  /\ recovery <=> state = "failed"
  /\ op' = [op EXCEPT ![o] = [Idle EXCEPT !.pc = "signal", !.recovery = recovery]]
  /\ UNCHANGED <<profile, timely, state, sup, drv, emu, lag, keys, out, hist>>

FaultyStarted(o) == TRUE  \* a FAILED that recover-stop finds counts as its answer
Started(o) == ~op[o].recovery

\* SIGTERM, and the wait begins; os.kill raises if the supervisor has gone.
StopSignal(o) ==
  /\ op[o].pc = "signal"
  /\ IF Alive
       THEN /\ sup' = [sup EXCEPT !.stop = TRUE]
            /\ op' = [op EXCEPT ![o] = [@ EXCEPT !.pc = "wait", !.left = Timeout + Grace,
                                                 !.started = Started(o)]]
       ELSE op' = [op EXCEPT ![o] = Idle] /\ UNCHANGED sup
  /\ UNCHANGED <<profile, timely, state, drv, emu, lag, keys, out, hist>>

Answered(o, answer) ==
  op' = [op EXCEPT ![o] = [@ EXCEPT !.pc = "idle", !.left = 0, !.polled = FALSE,
                                    !.answer = answer]]

\* The record is read once more.  A recover-stop must see STOPPING before it takes
\* FAILED, or anything else, for its answer.
StopPoll(o) ==
  /\ op[o].pc = "wait" /\ op[o].left > 0
  /\ LET started == op[o].started \/ state = "stopping"
     IN IF started /\ state \in {"resetting", "released", "failed"}
          THEN Answered(o, state)
          ELSE op' = [op EXCEPT ![o] = [@ EXCEPT !.started = started, !.polled = TRUE]]
  /\ UNCHANGED <<profile, timely, state, sup, drv, emu, lag, keys, out, hist>>

StopExpire(o) ==
  /\ op[o].pc = "wait" /\ op[o].left = 0
  /\ Answered(o, "expired")
  /\ UNCHANGED <<profile, timely, state, sup, drv, emu, lag, keys, out, hist>>

------------------------------------------------------------------------------
(* The emulator (external): a SIMH at its monitor or running a guest. *)

\* The guest prints, any amount of it.
EmuText ==
  /\ emu = "guest"
  /\ Len(out) < MaxOut
  /\ out # <<>> => out[Len(out)] # "text"
  /\ out' = Append(out, "text")
  /\ UNCHANGED <<profile, timely, state, sup, drv, emu, lag, keys, op, hist>>

\* The guest halts into the monitor by itself.
EmuHalt ==
  /\ emu = "guest"
  /\ Len(out) + 2 <= MaxOut
  /\ emu' = "monitor"
  /\ out' = out \o Prompt
  /\ hist' = [hist EXCEPT !.clean = FALSE]
  /\ UNCHANGED <<profile, timely, state, sup, drv, lag, keys, op>>

\* Ctrl-E is the interrupt character of a running guest's terminal: it takes effect
\* when it is written, and what is queued before it, either way, may be flushed.
EmuInterrupt ==
  /\ emu = "guest"
  /\ Len(out) + 2 <= MaxOut
  /\ \E i \in 1..Len(keys) :
       /\ keys[i] = "enter"
       /\ keys' = SubSeq(keys, i + 1, Len(keys))
  /\ emu' = "monitor"
  /\ out' \in {out \o Prompt, Prompt}
  /\ lag' = 0
  /\ UNCHANGED <<profile, timely, state, sup, drv, op, hist>>

\* Other input is read in order.  A running guest swallows it; at the monitor Ctrl-E
\* is dropped or becomes part of the next line, which is then no command.
EmuRead ==
  /\ emu # "gone" /\ keys # <<>>
  /\ LET key == Head(keys)
     IN /\ emu = "guest" => key # "enter"
        /\ emu' \in CASE emu = "guest" -> {"guest"}
                      [] key = "enter" -> {emu, "line"}
                      [] emu = "line"  -> {"monitor"}
                      [] key = "cont"  -> {"guest"}
                      [] OTHER         -> {"gone"}
        /\ out' = IF emu = "line" /\ emu' = "monitor" THEN out \o Prompt ELSE out
        /\ Len(out') <= MaxOut
        /\ hist' = [hist EXCEPT !.astray = IF emu = "guest" /\ key \in Telling THEN @ \cup {key} ELSE @]
  /\ keys' = IF emu' = "gone" THEN <<>> ELSE Tail(keys)
  /\ lag' = 0
  /\ UNCHANGED <<profile, timely, state, sup, drv, op>>

EmuExit ==
  /\ emu # "gone"
  /\ emu' = "gone"
  /\ keys' = <<>>
  /\ UNCHANGED <<profile, timely, state, sup, drv, lag, out, op, hist>>

------------------------------------------------------------------------------
(* The clock.  The loop turns, reads all there is, and every waiting stop command *)
(* polls at least once a tick; a timely emulator reads its input within Delay.    *)

Down(n) == IF n = 0 THEN 0 ELSE n - 1
Up(n, bound) == IF n = bound THEN bound ELSE n + 1

Tick ==
  /\ sup.pc \in {"top", "release", "dead"}
  /\ sup.pc = "top" => sup.turned /\ out = <<>>
  /\ \A o \in Operators : op[o].pc = "wait" /\ op[o].left > 0 => op[o].polled
  /\ timely /\ emu # "gone" /\ keys # <<>> => lag < Delay
  /\ sup' = [sup EXCEPT !.left = Down(@), !.turned = FALSE]
  /\ op' = [o \in Operators |-> [op[o] EXCEPT !.left = Down(@), !.polled = FALSE]]
  /\ lag' = IF keys = <<>> THEN 0 ELSE Up(lag, Delay)
  /\ hist' = [hist EXCEPT !.age = IF sup.pc = "top" /\ sup.phase # "none" THEN Up(@, Never) ELSE 0]
  /\ UNCHANGED <<profile, timely, state, drv, emu, keys, out>>

SupStep ==
  \/ SupBegin \/ SupTimeout \/ SupClear \/ SupTop \/ SupRead \/ SupRelay
  \/ SupExpire \/ SupRunning \/ SupExited \/ SupRelease

StopStep(o) ==
  \/ \E recovery \in BOOLEAN : StopCheck(o, recovery)
  \/ StopSignal(o) \/ StopPoll(o) \/ StopExpire(o)

EmuStep == EmuText \/ EmuHalt \/ EmuInterrupt \/ EmuRead \/ EmuExit

Next == SupStep \/ EmuStep \/ Tick \/ \E o \in Operators : StopStep(o)

Spec == Init /\ [][Next]_vars

------------------------------------------------------------------------------
(* Properties. *)

\* A quit sent on a prompt that came after Ctrl-E is read by the monitor and never by
\* the guest, also when that prompt was an old one, still unread when the stop began,
\* and the guest has been resumed since; only typing during the stop can spoil it.
QuitReachesMonitor == "quit" \notin hist.astray

\* A quit sent without Ctrl-E, on evidence of an earlier prompt, reaches the monitor as
\* well, if the emulator stood there with no input left when the prompt was observed:
\* any input since then, which may resume the guest, has voided the evidence.
EvidenceStaysTrue == "evident" \notin hist.astray

\* A stop that has been taken up is decided within twice the timeout: the deadline is
\* extended once, when the monitor is confirmed, whatever the emulator prints.
StopIsBounded == hist.age <= 2 * Timeout

\* A stop that finds the guest running and the PTY quiet is not given up on an
\* emulator that always answers in time, although its two answers together may take
\* longer than the timeout.
TimelyStopSucceeds == timely /\ hist.clean => sup.pc # "clear"

\* A recover-stop that answers FAILED has seen a failure newer than its own signal,
\* not the one it was called to recover from.
RecoveryAnswerIsNew ==
  \A o \in Operators : op[o].recovery /\ op[o].answer = "failed" => op[o].again
==============================================================================
