-------------------------- MODULE BrokerContractProofs --------------------------
(***************************************************************************)
(* What the broker promises of a session, proved: the record follows its   *)
(* contract, what is typed at the emulator was attested, a stop that is     *)
(* being carried out is on record, a reset was confirmed, and ACTIVE means  *)
(* that somebody is attached.  The proofs rest on which transitions a step  *)
(* of the supervisor can still have before it.                              *)
(***************************************************************************)
EXTENDS BrokerSessionProofs

USE DEF Releasers, Causes, RequestSteps, SetupSteps, LoopSteps, ExitSteps, SupervisorSteps,
        OperatorSteps, ClientSteps

------------------------------------------------------------------------------
(* The transitions a step leaves behind. *)

Waking == {"born", "setup", "announce"}

TodoOf(pc) ==
  CASE pc = "announce" -> {<<>>, <<"starting">>}
    [] pc = "begin" -> {<<>>, <<"stopping">>}
    [] pc \in {"clear", "poll", "exit"} -> {<<>>, <<"failed">>}
    [] pc = "reset" -> {<<>>, <<"resetting">>}
    [] pc \in {"events", "timers"} ->
         {<<>>, <<"ready">>, <<"active">>, <<"ready", "ready">>, <<"ready", "active">>}
    [] OTHER -> {<<>>}

TodoKnown == sup.todo \in TodoOf(sup.pc)

LEMMA ShortTodos ==
  /\ \A s \in States : Head(<<s>>) = s /\ Tail(<<s>>) = <<>> /\ <<s>> # <<>>
  /\ \A s, t \in States : Head(<<s, t>>) = s /\ Tail(<<s, t>>) = <<t>> /\ <<s, t>> # <<>>
  /\ \A s, t \in States : <<s>> \o <<t>> = <<s, t>>
  /\ \A s \in Seq(States) : <<>> \o s = s /\ s \o <<>> = s
<1>1. \A s \in States : Head(<<s>>) = s /\ Tail(<<s>>) = <<>> /\ <<s>> # <<>>
  OBVIOUS
<1>2. \A s, t \in States : Head(<<s, t>>) = s /\ Tail(<<s, t>>) = <<t>> /\ <<s, t>> # <<>>
  OBVIOUS
<1>3. ASSUME NEW s \in States, NEW t \in States PROVE <<s>> \o <<t>> = <<s, t>>
  <2> DEFINE u == <<s>> \o <<t>>
             v == <<s, t>>
  <2>1. /\ <<s>> \in Seq(States) /\ Len(<<s>>) = 1 /\ <<s>>[1] = s
        /\ <<t>> \in Seq(States) /\ Len(<<t>>) = 1 /\ <<t>>[1] = t
        /\ v \in Seq(States) /\ Len(v) = 2 /\ v[1] = s /\ v[2] = t
    OBVIOUS
  <2>2. u \in Seq(States) /\ Len(u) = 2 /\ u[1] = s /\ u[2] = t
    <3> HIDE DEF v
    <3> DEFINE a == <<s>>
               b == <<t>>
    <3>1. a \in Seq(States) /\ Len(a) = 1 /\ a[1] = s /\ b \in Seq(States) /\ Len(b) = 1 /\ b[1] = t
      BY <2>1
    <3>2. u = a \o b
      OBVIOUS
    <3> HIDE DEF a, b, u
    <3> QED BY <3>1, <3>2, ConcatProperties
  <2> HIDE DEF u, v
  <2>3. \A i \in 1..Len(u) : u[i] = v[i]
    BY <2>1, <2>2
  <2>4. u = v
    BY <2>1, <2>2, <2>3, SeqEqual
  <2> QED BY <2>4 DEF u, v
<1>4. \A s \in Seq(States) : <<>> \o s = s /\ s \o <<>> = s
  BY ConcatEmptySeq
<1> QED BY <1>1, <1>2, <1>3, <1>4

\* What is left after the next transition.
LEMMA TailOfTodo ==
  ASSUME NEW pc, NEW todo \in TodoOf(pc), todo # <<>>
  PROVE  /\ Tail(todo) \in TodoOf(pc)
         /\ pc = "announce" => Head(todo) = "starting" /\ Tail(todo) = <<>>
         /\ pc = "begin" => Head(todo) = "stopping" /\ Tail(todo) = <<>>
         /\ pc \in {"clear", "poll", "exit"} => Head(todo) = "failed" /\ Tail(todo) = <<>>
         /\ pc = "reset" => Head(todo) = "resetting" /\ Tail(todo) = <<>>
         /\ pc \in {"events", "timers"} => Head(todo) \in {"ready", "active"}
         /\ pc \in {"announce", "begin", "clear", "poll", "exit", "reset", "events", "timers"}
<1>1. pc \in {"announce", "begin", "clear", "poll", "exit", "reset", "events", "timers"}
  BY DEF TodoOf
<1>2. CASE pc = "announce"
  <2>1. todo = <<"starting">>
    BY <1>2 DEF TodoOf
  <2> QED BY <1>2, <2>1, ShortTodos, KnownStates DEF TodoOf
<1>3. CASE pc = "begin"
  <2>1. todo = <<"stopping">>
    BY <1>3 DEF TodoOf
  <2> QED BY <1>3, <2>1, ShortTodos, KnownStates DEF TodoOf
<1>4. CASE pc \in {"clear", "poll", "exit"}
  <2>1. todo = <<"failed">>
    BY <1>4 DEF TodoOf
  <2> QED BY <1>4, <2>1, ShortTodos, KnownStates DEF TodoOf
<1>5. CASE pc = "reset"
  <2>1. todo = <<"resetting">>
    BY <1>5 DEF TodoOf
  <2> QED BY <1>5, <2>1, ShortTodos, KnownStates DEF TodoOf
<1>6. CASE pc \in {"events", "timers"}
  <2>1. todo \in {<<"ready">>, <<"active">>, <<"ready", "ready">>, <<"ready", "active">>}
    BY <1>6 DEF TodoOf
  <2>2. Head(todo) \in {"ready", "active"} /\ Tail(todo) \in {<<>>, <<"ready">>, <<"active">>}
    <3>1. CASE todo = <<"ready">>
      BY <3>1, ShortTodos, KnownStates
    <3>4. CASE todo = <<"active">>
      BY <3>4, ShortTodos, KnownStates
    <3>2. CASE todo = <<"ready", "ready">>
      BY <3>2, ShortTodos, KnownStates
    <3>3. CASE todo = <<"ready", "active">>
      BY <3>3, ShortTodos, KnownStates
    <3> QED BY <2>1, <3>1, <3>2, <3>3, <3>4
  <2> QED BY <1>6, <2>2 DEF TodoOf
<1> QED BY <1>1, <1>2, <1>3, <1>4, <1>5, <1>6

\* Having nothing left to record is possible at every step.
LEMMA NoTodo == \A pc : <<>> \in TodoOf(pc)
BY DEF TodoOf

------------------------------------------------------------------------------
(* What each step does to the supervisor's place, its todo and its stop. *)

\* It goes on at p with t still to be recorded.
With(p, t) ==
  /\ sup'.pc = p /\ sup'.todo = t
  /\ sup'.stop = sup.stop /\ sup'.phase = sup.phase /\ sup'.attached = sup.attached

\* It ends, at p, and lets go of its client.
Ended(p) ==
  /\ sup'.pc = p /\ sup'.todo = <<>>
  /\ sup'.stop = sup.stop /\ sup'.phase = sup.phase /\ sup'.attached = None

\* It has heard the console, with or without a marker, and may have lost its client.
Heeds(p) ==
  /\ sup'.pc = p /\ sup'.stop = sup.stop
  /\ \/ sup'.todo = <<>> /\ sup'.attached = sup.attached
     \/ sup'.todo = <<>> /\ sup'.attached = None /\ rec.state # "active"
     \/ sup'.todo \in {<<"ready">>, <<"ready", "ready">>} /\ sup'.attached = None
     \/ sup'.todo = <<"ready", "active">> /\ sup'.attached = sup.attached /\ sup.attached # None

LEMMA DieEffect == ASSUME TypeOK, NEW raised, Die(raised) PROVE Ended("dead")
BY DEF TypeOK, Die, Dead, Ended, Supervisors

LEMMA TransitionEffect ==
  ASSUME TypeOK, SupTransition
  PROVE  \/ Ended("dead") /\ rec' = rec
         \/ /\ With(sup.pc, Tail(sup.todo))
            /\ Accepts(Head(sup.todo)) /\ rec'.state = Head(sup.todo)
            /\ rec'.sup = rec.sup /\ rec'.emu = rec.emu /\ rec'.ws = rec.ws
            /\ rec'.why = rec.why \/ Head(sup.todo) = "failed"
<1>1. sup \in Supervisors /\ rec \in Records
  BY DEF TypeOK
<1>2. CASE Accepts(Head(sup.todo))
  <2>1. sup.todo \in Seq(States) /\ sup.todo # <<>> /\ sup' = [sup EXCEPT !.todo = Tail(sup.todo)]
    BY <1>1, <1>2 DEF SupTransition, Supervisors
  <2>2. Head(sup.todo) \in States
    BY <2>1, Todos
  <2>3. rec' = IF rec.state = Head(sup.todo) THEN rec ELSE Moved(Head(sup.todo), sup.why)
    BY <1>2 DEF SupTransition
  <2>4. /\ rec'.state = Head(sup.todo)
        /\ rec'.sup = rec.sup /\ rec'.emu = rec.emu /\ rec'.ws = rec.ws
        /\ rec'.why = rec.why \/ Head(sup.todo) = "failed"
    BY <1>1, <2>2, <2>3 DEF Moved, Records
  <2>5. With(sup.pc, Tail(sup.todo))
    BY <1>1, <2>1 DEF With, Supervisors
  <2> QED BY <1>2, <2>4, <2>5
<1>3. CASE ~Accepts(Head(sup.todo))
  BY <1>3, DieEffect DEF SupTransition
<1> QED BY <1>2, <1>3

\* It has sent the first keys of a stop.
Begun ==
  /\ sup'.pc = "deadline" /\ sup'.todo = <<>> /\ sup'.stop = sup.stop
  /\ sup'.attached = sup.attached /\ sup'.phase \in {"monitor", "exit"}
  /\ sup'.phase = "exit" => "quit" \in hist'.sent

LEMMA CourseEffects ==
  ASSUME TypeOK
  PROVE  /\ SupBoot => At("born") /\ With("setup", <<>>)
         /\ SupLaunch => At("setup") /\ (Ended("dead") \/ With("announce", <<"starting">>))
         /\ SupIdentify => At("announce") /\ With("top", <<>>)
         /\ SupKilled \/ SupExit \/ SupReleaseRefused => Ended("dead")
         /\ SupTop => At("top") /\ \/ /\ sup.stop /\ rec.state \in {"starting", "ready", "active", "failed"}
                                      /\ With("begin", <<"stopping">>)
                                   \/ /\ sup.stop /\ rec.state \notin {"starting", "ready", "active", "failed"}
                                      /\ With("begin", <<>>)
                                   \/ With("deadline", <<>>) \/ With("select", <<>>)
         /\ SupBegin => At("begin") /\ (Begun \/ (WriteFails /\ Ended("dead")))
         /\ SupShutdownTimeout => At("deadline") /\ With("clear", <<"failed">>)
         /\ SupClear => /\ At("clear") /\ sup'.pc = "select" /\ sup'.todo = <<>> /\ sup'.phase = "none"
                        /\ sup'.attached = sup.attached
         /\ SupExpire => At("timers") /\ ~sup.stop /\ With("poll", <<"failed">>)
         /\ SupGoOn => \/ At("deadline") /\ With("select", <<>>)
                       \/ At("events") /\ With("boundary", <<>>)
                       \/ At("timers") /\ With("poll", <<>>)
                       \/ At("poll") /\ With("top", <<>>)
         /\ SupPollExited => At("poll") /\ \/ ResetDue /\ With("reset", <<"resetting">>)
                                           \/ ~ResetDue /\ With("exit", <<"failed">>)
         /\ SupReset => At("reset") /\ Ended("release")
<1>1. sup \in Supervisors /\ hist \in Histories
  BY DEF TypeOK
<1>2. SupBoot => At("born") /\ With("setup", <<>>)
  BY <1>1 DEF SupBoot, At, With, Supervisors
<1>3. SupLaunch => At("setup") /\ (Ended("dead") \/ With("announce", <<"starting">>))
  <2>1. CASE Die(TRUE)
    BY <2>1, DieEffect DEF SupLaunch
  <2>2. CASE sup' = [sup EXCEPT !.pc = "announce", !.todo = <<"starting">>]
    BY <1>1, <2>2 DEF SupLaunch, With, Supervisors
  <2> QED BY <2>1, <2>2 DEF SupLaunch
<1>4. SupIdentify => At("announce") /\ With("top", <<>>)
  BY <1>1 DEF SupIdentify, At, With, Supervisors
<1>5. SupKilled \/ SupExit \/ SupReleaseRefused => Ended("dead")
  BY DieEffect DEF SupKilled, SupExit, SupReleaseRefused
<1>6. SupTop => At("top") /\ \/ /\ sup.stop /\ rec.state \in {"starting", "ready", "active", "failed"}
                                /\ With("begin", <<"stopping">>)
                             \/ /\ sup.stop /\ rec.state \notin {"starting", "ready", "active", "failed"}
                                /\ With("begin", <<>>)
                             \/ With("deadline", <<>>) \/ With("select", <<>>)
  <2>1. CASE ~StopDue
    BY <1>1, <2>1 DEF SupTop, At, With, Supervisors
  <2>2. CASE StopDue /\ rec.state \in {"starting", "ready", "active", "failed"}
    <3>1. SupTop => sup' = [sup EXCEPT !.pc = "begin", !.todo = <<"stopping">>]
      BY <2>2 DEF SupTop
    <3> QED BY <1>1, <2>2, <3>1 DEF SupTop, StopDue, With, Supervisors
  <2>3. CASE StopDue /\ rec.state \notin {"starting", "ready", "active", "failed"}
    <3>1. SupTop => sup' = [sup EXCEPT !.pc = "begin", !.todo = <<>>]
      BY <2>3 DEF SupTop
    <3> QED BY <1>1, <2>3, <3>1, ZenonT(40) DEF SupTop, StopDue, With, Supervisors
  <2> QED BY <2>1, <2>2, <2>3
<1>7. SupBegin => At("begin") /\ (Begun \/ (WriteFails /\ Ended("dead")))
  <2>1. CASE WriteFails
    BY <2>1, DieEffect DEF SupBegin, WriteFails
  <2>2. CASE ~WriteFails
    <3> DEFINE live == MonitorProfile /\ sup.prompt
               phase == IF live THEN "exit" ELSE "monitor"
    <3> SUFFICES ASSUME SupBegin PROVE At("begin") /\ Begun
      OBVIOUS
    <3>1. /\ At("begin") /\ hist' = [hist EXCEPT !.sent = IF live THEN {"quit"} ELSE {"enter"}]
          /\ sup' = [sup EXCEPT !.pc = "deadline", !.timed = TRUE, !.phase = phase]
      BY <2>2 DEF SupBegin, Send
    <3>2. live => "quit" \in hist'.sent
      BY <1>1, <3>1 DEF Histories
    <3> HIDE DEF live
    <3>3. sup'.phase = phase /\ sup'.pc = "deadline" /\ UNCHANGED <<sup.todo, sup.stop, sup.attached>>
      BY <1>1, <3>1 DEF Supervisors
    <3> QED BY <3>1, <3>2, <3>3 DEF At, Begun
  <2> QED BY <2>1, <2>2
<1>8. SupShutdownTimeout => At("deadline") /\ With("clear", <<"failed">>)
  BY <1>1 DEF SupShutdownTimeout, TimedOut, With, Supervisors
<1>9. SupClear => /\ At("clear") /\ sup'.pc = "select" /\ sup'.todo = <<>> /\ sup'.phase = "none"
                  /\ sup'.attached = sup.attached
  BY <1>1 DEF SupClear, At, Supervisors
<1>10. SupExpire => At("timers") /\ ~sup.stop /\ With("poll", <<"failed">>)
  BY <1>1 DEF SupExpire, Expirable, Expired, With, Supervisors
<1>11. SupGoOn => \/ At("deadline") /\ With("select", <<>>)
                  \/ At("events") /\ With("boundary", <<>>)
                  \/ At("timers") /\ With("poll", <<>>)
                  \/ At("poll") /\ With("top", <<>>)
  BY <1>1 DEF SupGoOn, At, With, Supervisors
<1>12. SupPollExited => At("poll") /\ \/ ResetDue /\ With("reset", <<"resetting">>)
                                      \/ ~ResetDue /\ With("exit", <<"failed">>)
  <2>1. CASE ResetDue
    <3>1. SupPollExited => sup' = [sup EXCEPT !.pc = "reset", !.todo = <<"resetting">>, !.why = "exit"]
      BY <2>1 DEF SupPollExited
    <3> QED BY <1>1, <2>1, <3>1 DEF SupPollExited, With, Supervisors
  <2>2. CASE ~ResetDue
    <3>1. SupPollExited => sup' = [sup EXCEPT !.pc = "exit", !.todo = <<"failed">>, !.why = "exit"]
      BY <2>2 DEF SupPollExited
    <3> QED BY <1>1, <2>2, <3>1 DEF SupPollExited, With, Supervisors
  <2> QED BY <2>1, <2>2
<1>13. SupReset => At("reset") /\ Ended("release")
  BY <1>1 DEF SupReset, Dead, At, Ended, Supervisors
<1> QED BY <1>2, <1>3, <1>4, <1>5, <1>6, <1>7, <1>8, <1>9, <1>10, <1>11, <1>12, <1>13

LEMMA HeardTodo ==
  ASSUME TypeOK, NEW marker, NEW fails \in BOOLEAN
  PROVE  LET todo == Heard(sup, marker, fails).todo
         IN \/ todo = <<>> /\ (fails => rec.state # "active")
            \/ todo \in {<<"ready">>, <<"ready", "ready">>} /\ (fails \/ sup.attached = None)
            \/ todo = <<"ready", "active">> /\ ~fails /\ sup.attached # None
<1> DEFINE first == IF fails THEN DetachTodo ELSE <<>>
           becomes == marker /\ ~sup.ready
           stays == sup.attached # None /\ ~fails
           second == IF ~becomes THEN <<>> ELSE IF stays THEN <<"ready", "active">> ELSE <<"ready">>
           todo == Heard(sup, marker, fails).todo
<1>1. todo = first \o second
  BY DEF Heard, TypeOK, Supervisors
<1>2. /\ second \in {<<>>, <<"ready">>, <<"ready", "active">>}
      /\ second = <<"ready">> => ~stays
      /\ second = <<"ready", "active">> => stays
  BY ShortTodos, KnownStates
<1>3. second \in Seq(States)
  BY <1>2, Todos, KnownStates
<1>4. first = <<>> \/ (first = <<"ready">> /\ fails)
  BY DEF DetachTodo
<1>5. first = <<>> => (fails => rec.state # "active")
  <2>1. <<"ready">> # <<>>
    OBVIOUS
  <2> QED BY <2>1 DEF DetachTodo
<1> HIDE DEF todo, first, second
<1>6. CASE first = <<>>
  <2>1. todo = second
    BY <1>1, <1>3, <1>6, ShortTodos
  <2> QED BY <1>2, <1>5, <1>6, <2>1 DEF todo
<1>7. CASE first = <<"ready">> /\ fails
  <2>1. second \in {<<>>, <<"ready">>}
    BY <1>2, <1>7
  <2>2. <<"ready">> \o <<>> = <<"ready">> /\ <<"ready">> \o <<"ready">> = <<"ready", "ready">>
    BY ShortTodos, Todos, KnownStates
  <2>3. todo \in {<<"ready">>, <<"ready", "ready">>}
    BY <1>1, <1>7, <2>1, <2>2
  <2> QED BY <1>7, <2>3 DEF todo
<1> QED BY <1>4, <1>6, <1>7

\* What it hears at p, with or without a marker, it heeds.
LEMMA HeardIsHeeded ==
  ASSUME TypeOK, NEW p, NEW marker, NEW fails \in BOOLEAN,
         sup'.pc = p, sup'.stop = sup.stop, sup'.todo = Heard(sup, marker, fails).todo,
         sup'.attached = IF fails THEN None ELSE sup.attached
  PROVE  Heeds(p)
BY HeardTodo DEF Heeds

LEMMA ConsoleEffects ==
  ASSUME TypeOK
  PROVE  /\ SupSelect => At("select") /\ (With("boundary", <<>>) \/ With("events", <<>>))
         /\ SupConsole => At("events") /\ \/ Ended("dead")
                                          \/ /\ Heeds("events")
                                             /\ \/ sup'.phase = sup.phase
                                                \/ sup.phase = "monitor" /\ "quit" \in hist'.sent
         /\ SupClient => At("events") /\ \/ Ended("dead") \/ With("events", <<>>)
                                         \/ Heeds("events") /\ sup'.phase = sup.phase
         /\ \A c \in Clients : SupAccept(c) =>
              /\ At("events") /\ sup'.pc = "events" /\ sup'.attached = c /\ c # None
              /\ sup'.todo = IF rec.state = "ready" THEN <<"active">> ELSE <<>>
              /\ sup'.stop = sup.stop /\ sup'.phase = sup.phase
         /\ \A c \in Clients : SupReject(c) => At("events") /\ (Ended("dead") \/ With("events", <<>>))
         /\ SupBoundary => At("boundary") /\ Heeds("timers") /\ sup'.phase = sup.phase
<1>1. sup \in Supervisors /\ hist \in Histories
  BY DEF TypeOK
<1>2. SupSelect => At("select") /\ (With("boundary", <<>>) \/ With("events", <<>>))
  BY <1>1 DEF SupSelect, At, With, Supervisors
<1>3. SupConsole => At("events") /\ \/ Ended("dead")
                                    \/ /\ Heeds("events")
                                       /\ \/ sup'.phase = sup.phase
                                          \/ sup.phase = "monitor" /\ "quit" \in hist'.sent
  <2>1. CASE WriteFails
    BY <2>1, DieEffect DEF SupConsole, WriteFails, Handling
  <2>2. CASE SupConsole /\ ConsoleRead
    <3>1. PICK fails \in BOOLEAN :
            /\ Hears(sup', "marker" \in FirstRead, fails)
            /\ sup'.phase = IF Confirmed THEN "exit" ELSE sup.phase
      BY <2>2, ConsoleReadEffect
    <3>2. At("events")
      BY <2>2 DEF SupConsole, Handling
    <3>3. Heeds("events")
      BY <3>1, <3>2, HeardIsHeeded DEF Hears, At
    <3>4. Confirmed => sup.phase = "monitor" /\ "quit" \in hist'.sent
      BY <1>1, <2>2 DEF ConsoleRead, Confirmed, Histories
    <3> QED BY <3>1, <3>2, <3>3, <3>4
  <2> QED BY <2>1, <2>2 DEF SupConsole
<1>4. SupClient => At("events") /\ \/ Ended("dead") \/ With("events", <<>>)
                                   \/ Heeds("events") /\ sup'.phase = sup.phase
  <2>1. CASE Die(TRUE)
    BY <2>1, DieEffect DEF SupClient, Handling
  <2>2. CASE SupClient /\ ClientTyped
    BY <1>1, <2>2 DEF SupClient, ClientTyped, Handling, At, Handled, With, Supervisors
  <2>3. CASE SupClient /\ ClientGone
    <3>1. /\ sup'.pc = "events" /\ sup'.stop = sup.stop /\ sup'.phase = sup.phase
          /\ sup'.attached = None /\ sup'.todo = DetachTodo
      BY <1>1, <2>3, ZenonT(40) DEF SupClient, ClientGone, Handling, At, Handled, Supervisors
    <3> QED BY <2>3, <3>1 DEF SupClient, Handling, DetachTodo, Heeds
  <2> QED BY <2>1, <2>2, <2>3 DEF SupClient, WriteFails
<1>5. ASSUME NEW c \in Clients, SupAccept(c)
      PROVE  /\ At("events") /\ sup'.pc = "events" /\ sup'.attached = c /\ c # None
             /\ sup'.todo = IF rec.state = "ready" THEN <<"active">> ELSE <<>>
             /\ sup'.stop = sup.stop /\ sup'.phase = sup.phase
  BY <1>1, <1>5, NoneAssumption DEF SupAccept, Handling, At, Handled, Supervisors
<1>6. ASSUME NEW c \in Clients, SupReject(c)
      PROVE  At("events") /\ (Ended("dead") \/ With("events", <<>>))
  <2>1. CASE client[c] = "queued"
    BY <1>1, <1>6, <2>1 DEF SupReject, Handling, At, Handled, With, Supervisors
  <2>2. CASE client[c] # "queued"
    BY <1>6, <2>2, DieEffect DEF SupReject, Handling
  <2> QED BY <2>1, <2>2
<1>7. SupBoundary => At("boundary") /\ Heeds("timers") /\ sup'.phase = sup.phase
  <2> SUFFICES ASSUME SupBoundary PROVE Heeds("timers") /\ sup'.phase = sup.phase
    BY DEF SupBoundary
  <2>1. CASE BoundaryHearsNothing
    BY <2>1 DEF BoundaryHearsNothing, Heeds
  <2>2. ASSUME NEW fails \in RelayFailures, BoundaryHears(fails)
        PROVE  Heeds("timers") /\ sup'.phase = sup.phase
    BY <2>2, RelayMayFail, HeardIsHeeded DEF BoundaryHears
  <2> QED BY <2>1, <2>2, BoundaryEffect
<1> QED BY <1>2, <1>3, <1>4, <1>5, <1>6, <1>7

\* What everybody else does to the supervisor: launch it, signal it, or nothing.
LEMMA OtherEffects ==
  ASSUME TypeOK, Readiness,
         \/ RequestStep \/ RequestTimeout \/ RequestKilled \/ EmuStep \/ Reconcile \/ UNCHANGED vars
         \/ \E c \in Clients : ClientStep(c)
         \/ \E o \in Operators : OperatorStep(o) \/ OperatorKilled(o)
         \/ ReleaseBegin(Self) \/ ReleaseNext(Self)
  PROVE  \/ sup' = sup
         \/ /\ sup'.pc = IF sup.pc = "born" THEN "dead" ELSE sup.pc
            /\ sup'.todo = sup.todo /\ sup'.attached = sup.attached /\ sup'.phase = sup.phase
            /\ sup.stop => sup'.stop
         \/ RequestSpawn /\ sup.pc = "none" /\ sup.todo = <<>> /\ With("born", <<>>) /\ req' = "poll"
         \/ Ended("dead")
<1> DEFINE Told == /\ sup'.pc = IF sup.pc = "born" THEN "dead" ELSE sup.pc
                   /\ sup'.todo = sup.todo /\ sup'.attached = sup.attached /\ sup'.phase = sup.phase
                   /\ sup.stop => sup'.stop
           Launched == RequestSpawn /\ sup.pc = "none" /\ sup.todo = <<>> /\ With("born", <<>>) /\ req' = "poll"
<1>1. sup \in Supervisors
  BY DEF TypeOK
<1>2. sup' = Signalled => Told
  BY <1>1 DEF Signalled, Supervisors
<1>3. RequestSpawn => sup' = sup \/ Launched
  BY <1>1 DEF RequestSpawn, With, Readiness, Launching, Supervisors
<1>4. RequestTimeout => sup' = sup \/ Told
  BY <1>2 DEF RequestTimeout
<1>5. RequestStep \/ RequestKilled => sup' = sup \/ Launched
  BY <1>3 DEF RequestStep, RequestPrepare, RequestSave, RequestPoll, RequestExcept, RequestKilled
<1>6. ASSUME NEW r \in Releasers, ReleaseBegin(r) \/ ReleaseNext(r) PROVE sup' = sup \/ Ended("dead")
  BY <1>6, DieEffect DEF ReleaseBegin, ReleaseNext, ReleaseRemove, ReleaseDone, ReleaseFail, ReleaseEnds
<1>7. ASSUME NEW o \in Operators, OperatorStep(o) \/ OperatorKilled(o)
      PROVE  sup' = sup \/ Told \/ Ended("dead")
  BY <1>2, <1>6, <1>7 DEF OperatorStep, OperatorKilled, StopRequest, StopVerify, StopWrite, StopSignal
<1>8. EmuStep \/ Reconcile \/ UNCHANGED vars \/ (\E c \in Clients : ClientStep(c)) => sup' = sup
  BY DEF EmuStep, EmuFlood, EmuMarker, EmuHalt, EmuRead, EmuExit, EmuReaped, Reconcile, vars, ClientStep,
         AttachCheck, AttachConnect, AttachType, AttachClose
<1>9. Self \in Releasers
  OBVIOUS
<1> HIDE DEF Told, Launched
<1>10. sup' = sup \/ Told \/ Launched \/ Ended("dead")
  BY <1>4, <1>5, <1>6, <1>7, <1>8, <1>9
<1> QED BY <1>10 DEF Told, Launched

LEMMA TodoStep == TypeOK /\ Readiness /\ TodoKnown /\ [Next]_vars => TodoKnown'
<1> SUFFICES ASSUME TypeOK, Readiness, TodoKnown, [Next]_vars PROVE TodoKnown'
  OBVIOUS
<1>1. \A p, t : With(p, t) /\ t \in TodoOf(p) => TodoKnown'
  BY DEF With, TodoKnown
<1>2. Ended("dead") \/ Ended("release") => TodoKnown'
  BY NoTodo DEF Ended, TodoKnown
<1>3. Heeds("events") \/ Heeds("timers") => TodoKnown'
  BY DEF Heeds, TodoKnown, TodoOf
<1>4. SupTransition => TodoKnown'
  <2> SUFFICES ASSUME SupTransition, With(sup.pc, Tail(sup.todo)) PROVE TodoKnown'
    BY <1>2, TransitionEffect
  <2>1. Tail(sup.todo) \in TodoOf(sup.pc)
    BY TailOfTodo DEF SupTransition, TodoKnown
  <2> QED BY <1>1, <2>1
<1>5. /\ <<"starting">> \in TodoOf("announce") /\ <<"stopping">> \in TodoOf("begin")
      /\ <<"failed">> \in TodoOf("clear") /\ <<"failed">> \in TodoOf("poll") /\ <<"failed">> \in TodoOf("exit")
      /\ <<"resetting">> \in TodoOf("reset") /\ <<"active">> \in TodoOf("events")
  BY DEF TodoOf
<1>6. SupBoot \/ SupLaunch \/ SupIdentify \/ SupKilled \/ SupExit \/ SupReleaseRefused \/ SupReset => TodoKnown'
  BY <1>1, <1>2, <1>5, NoTodo, CourseEffects
<1>7. SupTop \/ SupShutdownTimeout \/ SupExpire \/ SupGoOn \/ SupPollExited => TodoKnown'
  BY <1>1, <1>5, NoTodo, CourseEffects
<1>8. SupBegin \/ SupClear => TodoKnown'
  BY <1>2, NoTodo, CourseEffects DEF Begun, TodoKnown
<1>9. SupSelect \/ SupConsole \/ SupClient \/ SupBoundary => TodoKnown'
  BY <1>1, <1>2, <1>3, NoTodo, ConsoleEffects
<1>10. ASSUME NEW c \in Clients, SupAccept(c) \/ SupReject(c) PROVE TodoKnown'
  BY <1>1, <1>2, <1>5, <1>10, NoTodo, ConsoleEffects DEF TodoKnown
<1>11. ASSUME \/ sup' = sup
              \/ /\ sup'.pc = IF sup.pc = "born" THEN "dead" ELSE sup.pc
                 /\ sup'.todo = sup.todo
              \/ With("born", <<>>)
              \/ Ended("dead")
       PROVE  TodoKnown'
  <2>1. sup.pc = "born" => sup.todo = <<>>
    BY DEF TodoKnown, TodoOf
  <2> QED BY <1>1, <1>2, <1>11, <2>1, NoTodo DEF TodoKnown
<1> QED BY <1>4, <1>6, <1>7, <1>8, <1>9, <1>10, <1>11, OtherEffects DEF Next, SupStep

------------------------------------------------------------------------------
(* ACTIVE and READY. *)

\* Where the record will be once the todo is done, as far as clients are concerned.
Final ==
  CASE sup.todo = <<>> -> rec.state
    [] sup.todo \in {<<"active">>, <<"ready", "active">>} -> "active"
    [] sup.todo \in {<<"ready">>, <<"ready", "ready">>} -> "ready"
    [] OTHER -> "other"

Attachment ==
  /\ sup.pc \in LoopSteps =>
       /\ Final = "active" => sup.attached # None
       /\ Final = "ready" => sup.attached = None
  /\ sup.pc \in {"none"} \cup Waking => rec.state \notin {"ready", "active"}

LEMMA ActiveStep ==
  ASSUME TypeOK, Readiness, TodoKnown, Attachment, [Next]_vars
  PROVE  Attachment'
<1> DEFINE Kept == rec'.state = rec.state \/ rec'.state \in {"failed", "resetting", "released"}
<1>1. CASE SupTransition
  <2>1. CASE Ended("dead")
    BY <2>1 DEF Ended, Attachment, Waking
  <2>2. CASE With(sup.pc, Tail(sup.todo)) /\ rec'.state = Head(sup.todo)
    <3>1. sup.todo \in TodoOf(sup.pc) /\ sup.todo # <<>>
      BY <1>1 DEF SupTransition, TodoKnown
    <3>2. CASE sup.pc \in {"events", "timers"}
      <4>1. sup.todo \in {<<"ready">>, <<"active">>, <<"ready", "ready">>, <<"ready", "active">>}
        BY <3>1, <3>2 DEF TodoOf
      <4>2. Final' = Final
        <5>1. CASE sup.todo = <<"ready">>
          BY <2>2, <5>1, ShortTodos, KnownStates DEF Final, With
        <5>2. CASE sup.todo = <<"active">>
          BY <2>2, <5>2, ShortTodos, KnownStates DEF Final, With
        <5>3. CASE sup.todo = <<"ready", "ready">>
          BY <2>2, <5>3, ShortTodos, KnownStates DEF Final, With
        <5>4. CASE sup.todo = <<"ready", "active">>
          BY <2>2, <5>4, ShortTodos, KnownStates DEF Final, With
        <5> QED BY <4>1, <5>1, <5>2, <5>3, <5>4
      <4> QED BY <2>2, <3>2, <4>2 DEF With, Attachment, Waking
    <3>3. CASE sup.pc \notin {"events", "timers"}
      <4>1. Tail(sup.todo) = <<>> /\ Head(sup.todo) \in {"starting", "stopping", "failed", "resetting"}
        BY <3>1, <3>3, TailOfTodo
      <4> QED BY <2>2, <4>1 DEF With, Attachment, Final
    <3> QED BY <3>2, <3>3
  <2> QED BY <1>1, <2>1, <2>2, TransitionEffect
<1>2. CASE ~SupTransition
  <2>1. Kept
    BY <1>2, RecordEffect
  <2>2. \A p : p \notin LoopSteps \cup {"none"} \cup Waking /\ sup'.pc = p => Attachment'
    BY DEF Attachment
  <2>3. At("announce") /\ With("top", <<>>) => Attachment'
    BY <2>1 DEF At, With, Attachment, Final, Waking
  <2>4. SupBoot => Attachment'
    BY <2>1, CourseEffects DEF At, With, Attachment, Waking
  <2>5. SupLaunch => Attachment'
    BY <2>1, <2>2, CourseEffects DEF At, With, Ended, Attachment, Waking
  <2>6. SupIdentify => Attachment'
    <3>1. SupIdentify => At("announce") /\ With("top", <<>>)
      BY CourseEffects
    <3> QED BY <2>3, <3>1
  <2>7. SupKilled \/ SupExit \/ SupReleaseRefused \/ SupReset => Attachment'
    BY <2>2, CourseEffects DEF Ended, Waking
  <2>8. ASSUME NEW p \in LoopSteps, NEW q, NEW t, At(p), With(q, t),
               t \in {<<>>, <<"stopping">>, <<"failed">>, <<"resetting">>},
               q \in LoopSteps \cup {"exit", "reset"}
        PROVE  Attachment'
    <3>1. Final = rec.state
      BY <2>8 DEF At, Final
    <3>2. t \notin {<<"active">>, <<"ready", "active">>, <<"ready">>, <<"ready", "ready">>}
      BY <2>8
    <3>3. Final' = IF t = <<>> THEN rec'.state ELSE "other"
      BY <2>8, <3>2 DEF With, Final
    <3> QED BY <2>1, <2>8, <3>1, <3>3 DEF At, With, Attachment, Waking
  <2>9. SupTop \/ SupShutdownTimeout \/ SupExpire \/ SupGoOn \/ SupPollExited => Attachment'
    BY <2>8, CourseEffects
  <2>10. SupBegin \/ SupClear => Attachment'
    <3>1. Ended("dead") => Attachment'
      BY <2>2 DEF Ended, Waking
    <3> QED BY <2>1, <3>1, CourseEffects DEF At, Begun, Attachment, Final, Waking
  <2>11. ASSUME NEW p \in {"events", "boundary"}, NEW q \in {"events", "timers"}, At(p), Heeds(q)
         PROVE  Attachment'
    <3>1. Final = rec.state /\ sup.pc \in LoopSteps /\ sup'.pc \in {"events", "timers"}
      BY <2>11 DEF At, Final, Heeds
    <3>2. \/ Final' = rec'.state /\ (sup'.attached = sup.attached \/ (sup'.attached = None /\ rec.state # "active"))
          \/ Final' = "ready" /\ sup'.attached = None
          \/ Final' = "active" /\ sup'.attached # None
      <4>1. sup'.todo \in {<<"ready">>, <<"ready", "ready">>} => Final' = "ready"
        BY DEF Final
      <4>2. sup'.todo = <<"ready", "active">> => Final' = "active"
        BY DEF Final
      <4>3. sup'.todo = <<>> => Final' = rec'.state
        BY DEF Final
      <4> QED BY <2>11, <4>1, <4>2, <4>3 DEF Heeds
    <3> QED BY <2>1, <3>1, <3>2 DEF Attachment, Waking
  <2>12. Ended("dead") => Attachment'
    BY <2>2 DEF Ended, Waking
  <2>13. SupSelect \/ SupConsole \/ SupClient \/ SupBoundary => Attachment'
    BY <2>8, <2>11, <2>12, ConsoleEffects
  <2>14. ASSUME NEW c \in Clients, SupAccept(c) \/ SupReject(c) PROVE Attachment'
    <3>1. CASE SupReject(c)
      BY <2>8, <2>12, <3>1, ConsoleEffects
    <3>2. CASE SupAccept(c)
      <4>1. /\ At("events") /\ sup'.pc = "events" /\ sup'.attached = c /\ c # None
            /\ sup'.todo = IF rec.state = "ready" THEN <<"active">> ELSE <<>>
            /\ rec' = rec
        BY <3>2, ConsoleEffects DEF SupAccept
      <4> QED BY <4>1 DEF Attachment, Final, Waking
    <3> QED BY <2>14, <3>1, <3>2
  <2>15. ASSUME \/ sup' = sup
                \/ /\ sup'.pc = IF sup.pc = "born" THEN "dead" ELSE sup.pc
                   /\ sup'.todo = sup.todo /\ sup'.attached = sup.attached
                \/ sup.pc = "none" /\ With("born", <<>>)
                \/ Ended("dead")
         PROVE  Attachment'
    BY <2>1, <2>12, <2>15 DEF With, Attachment, Final, Waking
  <2> QED BY <1>2, <2>4, <2>5, <2>6, <2>7, <2>9, <2>10, <2>13, <2>14, <2>15, OtherEffects DEF Next, SupStep
<1> QED BY <1>1, <1>2

LEMMA InitialTodo == Init => Readiness /\ TodoKnown /\ Attachment
BY NoneAssumption DEF Init, Readiness, Launching, Over, TodoKnown, TodoOf, Attachment, Final, Waking

\* Whenever the supervisor looks for the next thing to do, ACTIVE means that somebody is
\* attached and READY that nobody is, however clients come, hang up and are dropped.
THEOREM ActiveIsAttached == Spec => []ActiveMeansAttached
<1>1. TypeOK /\ Readiness /\ TodoKnown /\ Attachment /\ [Next]_vars => Attachment'
  BY ActiveStep
<1>2. TodoKnown /\ Attachment => ActiveMeansAttached
  BY DEF Attachment, Final, ActiveMeansAttached, At
<1> QED BY <1>1, <1>2, InitialTodo, TodoStep, ReadinessStep, TypeCorrect, PTL DEF Spec

------------------------------------------------------------------------------
(* The contract.  From here on the startup deadline expires on no supervisor that *)
(* is still starting, and no request is reconciled while it is under way.         *)

Patient == "slow_start" \notin Faults /\ "early_reconcile" \notin Faults

\* The request prepares a workspace, records it, and only then launches a supervisor.
Requested ==
  /\ req \in Launching => rec.state = "preparing"
  /\ req = "prepare" => ~rec.ws
  /\ req = "save" => disk = "disks"
  /\ req = "spawn" => rec.ws
  /\ req = "poll" /\ sup.pc \in Waking => rec.state \in {"preparing", "starting"}
  /\ req = "except" => sup.pc \notin Waking
  /\ rec.state = "preparing" /\ rec.ws => disk = "disks"
  /\ sup.pc # "none" => rec.ws

Held == {"starting", "ready", "active", "stopping", "failed"}

\* A supervisor in its loop has an emulator on record, which keeps its disks.
Launched ==
  /\ sup.pc \in {"none"} \cup Waking => ~rec.emu
  /\ sup.pc \in {"setup", "announce"} \cup LoopSteps => rec.sup
  /\ sup.pc \in {"announce"} \cup LoopSteps => emu \in {"guest", "monitor", "zombie"}
  /\ sup.pc \in {"none"} \cup Waking /\ ~At("announce") => rec.state # "starting"
  /\ At("announce") => rec.state = "starting" /\ disk = "disks"
  /\ sup.pc \in LoopSteps => rec.emu /\ disk = "disks" /\ rec.state \in Held
  /\ sup.pc \in ExitSteps => emu = "gone"

\* Whoever releases holds the lock in RESETTING, after the emulator.
Releasing ==
  /\ lock # None => rec.state = "resetting"
  /\ stage = "removed" => lock # None /\ disk # "disks"
  /\ rec.state \in {"resetting", "released"} => ~(rec.emu /\ Running)

Course == Requested /\ Launched /\ Releasing

Known == TypeOK /\ Readiness /\ TodoKnown

\* A step inside the loop that leaves the record, the workspace and the emulator alone.
LEMMA LoopKeepsCourse ==
  ASSUME Course, sup.pc \in LoopSteps, sup'.pc \in LoopSteps \cup {"dead"},
         UNCHANGED <<rec, disk, lock, stage, req, emu>>
  PROVE  Course'
BY DEF Course, Requested, Launched, Releasing, Waking, Running, At

\* The supervisor ends, whatever it was doing.
LEMMA EndKeepsCourse ==
  ASSUME Course, sup.pc # "none", sup'.pc = "dead", UNCHANGED <<rec, disk, req, emu>>,
         UNCHANGED <<lock, stage>> \/ (lock' = None /\ stage' = "none")
  PROVE  Course'
BY DEF Course, Requested, Launched, Releasing, Waking, Running, At

LEMMA LoopCourse ==
  ASSUME Known, Course,
         \/ SupTop \/ SupBegin \/ SupShutdownTimeout \/ SupClear \/ SupSelect \/ SupConsole \/ SupClient
         \/ SupBoundary \/ SupExpire \/ SupGoOn \/ \E c \in Clients : SupAccept(c) \/ SupReject(c)
  PROVE  Course'
<1>1. UNCHANGED <<rec, disk, lock, stage, req, emu>>
  BY DEF SupTop, SupBegin, SupShutdownTimeout, SupClear, SupSelect, SupConsole, SupClient,
         SupBoundary, SupExpire, SupGoOn, SupAccept, SupReject
<1>2. CASE SupTop \/ SupBegin \/ SupShutdownTimeout \/ SupClear \/ SupExpire \/ SupGoOn
  <2>1. sup.pc \in LoopSteps /\ sup'.pc \in LoopSteps \cup {"dead"}
    BY <1>2, CourseEffects DEF Known, At, With, Begun, Ended
  <2> QED BY <1>1, <2>1, LoopKeepsCourse
<1>3. CASE \/ SupSelect \/ SupConsole \/ SupClient \/ SupBoundary
           \/ \E c \in Clients : SupAccept(c) \/ SupReject(c)
  <2>1. sup.pc \in LoopSteps /\ sup'.pc \in LoopSteps \cup {"dead"}
    BY <1>3, ConsoleEffects DEF Known, At, With, Heeds, Ended
  <2> QED BY <1>1, <2>1, LoopKeepsCourse
<1> QED BY <1>2, <1>3

LEMMA TransitionCourse ==
  ASSUME Known, Course, SupTransition
  PROVE  Course'
<1>1. sup.todo \in TodoOf(sup.pc) /\ sup.todo # <<>> /\ lock = None
  BY DEF SupTransition, Known, TodoKnown
<1>2. UNCHANGED <<disk, lock, stage, req, emu>>
  BY DEF SupTransition
<1>3. sup.pc \in {"announce", "begin", "clear", "poll", "exit", "reset", "events", "timers"}
  BY <1>1, TailOfTodo
<1>4. CASE Ended("dead") /\ rec' = rec
  BY <1>2, <1>3, <1>4, EndKeepsCourse DEF Ended
<1>5. CASE /\ With(sup.pc, Tail(sup.todo))
           /\ Accepts(Head(sup.todo)) /\ rec'.state = Head(sup.todo)
           /\ rec'.sup = rec.sup /\ rec'.emu = rec.emu /\ rec'.ws = rec.ws
  <2>1. CASE sup.pc = "announce"
    <3>1. rec'.state = "starting" /\ rec.state \in {"preparing", "starting"} /\ sup'.todo = <<>>
      BY <1>1, <1>5, <2>1, TailOfTodo DEF Accepts, CanMove, With
    <3>2. disk = "disks"
      BY <1>1, <2>1, <3>1 DEF Course, Requested, Launched, Waking, At
    <3> QED BY <1>1, <1>2, <1>5, <2>1, <3>1, <3>2
            DEF Known, Readiness, With, At, Course, Requested, Launched, Releasing, Waking, Running
  <2>2. CASE sup.pc \in LoopSteps
    <3>1. rec'.state \in {"stopping", "failed", "ready", "active"}
      BY <1>1, <1>5, <2>2, TailOfTodo
    <3> QED BY <1>1, <1>2, <1>5, <2>2, <3>1
            DEF Known, Readiness, With, At, Course, Requested, Launched, Releasing, Waking, Running, Held
  <2>3. CASE sup.pc \in {"exit", "reset"}
    <3>1. rec'.state \in {"failed", "resetting"}
      BY <1>1, <1>5, <2>3, TailOfTodo
    <3> QED BY <1>1, <1>2, <1>5, <2>3, <3>1
            DEF Known, Readiness, With, At, Course, Requested, Launched, Releasing, Waking, Running
  <2> QED BY <1>3, <2>1, <2>2, <2>3
<1> QED BY <1>4, <1>5, TransitionEffect DEF Known

LEMMA StartCourse ==
  ASSUME Known, Course, SupBoot \/ SupLaunch \/ SupIdentify
  PROVE  Course'
<1>1. rec \in Records
  BY DEF Known, TypeOK
<1>2. CASE SupBoot
  <2>1. /\ rec'.state = rec.state /\ rec'.sup /\ rec'.emu = rec.emu /\ rec'.ws = rec.ws
        /\ UNCHANGED <<disk, lock, stage, req, emu>>
    BY <1>1, <1>2 DEF SupBoot, Records
  <2>2. At("born") /\ With("setup", <<>>)
    BY <1>2, CourseEffects DEF Known
  <2> QED BY <2>1, <2>2
          DEF Known, Readiness, Launching, With, At, Course, Requested, Launched, Releasing, Waking, Running
<1>3. CASE SupLaunch
  <2>1. At("setup") /\ UNCHANGED <<rec, disk, lock, stage, req>>
    BY <1>3 DEF SupLaunch
  <2>2. CASE Die(TRUE) /\ emu' = emu
    BY <2>1, <2>2, DieEffect, EndKeepsCourse DEF Known, Ended, At
  <2>3. CASE emu' = "guest" /\ sup' = [sup EXCEPT !.pc = "announce", !.todo = <<"starting">>]
    <3>1. sup'.pc = "announce" /\ sup'.todo = <<"starting">> /\ <<"starting">> # <<>>
      BY <2>3 DEF Known, TypeOK, Supervisors
    <3> QED BY <2>1, <2>3, <3>1
            DEF Known, Readiness, Launching, At, Course, Requested, Launched, Releasing, Waking, Running
  <2> QED BY <1>3, <2>2, <2>3 DEF SupLaunch
<1>4. CASE SupIdentify
  <2>1. /\ rec'.state = rec.state /\ rec'.sup = rec.sup /\ rec'.emu /\ rec'.ws = rec.ws
        /\ UNCHANGED <<disk, lock, stage, req, emu>>
    BY <1>1, <1>4 DEF SupIdentify, Records
  <2>2. At("announce") /\ With("top", <<>>)
    BY <1>4, CourseEffects DEF Known
  <2> QED BY <2>1, <2>2
          DEF Known, Readiness, Launching, With, At, Course, Requested, Launched, Releasing, Waking, Running, Held
<1> QED BY <1>2, <1>3, <1>4

LEMMA StopCourse ==
  ASSUME Known, Course, SupPollExited \/ SupExit \/ SupReset \/ SupReleaseRefused \/ SupKilled
  PROVE  Course'
<1>1. CASE SupPollExited
  <2>1. UNCHANGED <<rec, disk, lock, stage, req>> /\ emu' = "gone" /\ sup.pc = "poll"
    BY <1>1 DEF SupPollExited, At
  <2>2. sup'.pc \in {"reset", "exit"}
    BY <1>1, CourseEffects DEF Known, With
  <2> QED BY <2>1, <2>2 DEF Course, Requested, Launched, Releasing, Waking, Running, At
<1>2. CASE SupExit \/ SupReleaseRefused \/ SupKilled
  <2>1. sup'.pc = "dead" /\ UNCHANGED <<rec, disk, req, emu>>
    BY <1>2, CourseEffects DEF Known, Ended, SupExit, SupReleaseRefused, SupKilled
  <2>2. sup.pc # "none"
    BY <1>2 DEF SupExit, SupReleaseRefused, SupKilled, At, Alive
  <2>3. UNCHANGED <<lock, stage>> \/ (lock' = None /\ stage' = "none")
    BY <1>2 DEF SupExit, SupReleaseRefused, SupKilled
  <2> QED BY <2>1, <2>2, <2>3, EndKeepsCourse
<1>3. CASE SupReset
  <2>1. UNCHANGED <<rec, disk, lock, stage, req, emu>> /\ sup.pc = "reset" /\ sup'.pc = "release"
    BY <1>3, CourseEffects DEF SupReset, Known, At, Ended
  <2> QED BY <2>1 DEF Course, Requested, Launched, Releasing, Waking, Running, At
<1> QED BY <1>1, <1>2, <1>3

LEMMA RequestCourse ==
  ASSUME Patient, Known, Course, RequestStep \/ RequestTimeout \/ RequestKilled
  PROVE  Course'
<1>1. rec \in Records /\ sup \in Supervisors
  BY DEF Known, TypeOK
<1>2. req \in Launching => sup.pc = "none" /\ sup.todo = <<>> /\ lock = None
  BY DEF Known, Readiness, Course, Requested, Releasing, Launching
<1>3. CASE RequestPrepare
  BY <1>2, <1>3 DEF RequestPrepare, Course, Requested, Launched, Releasing, Launching, Waking, At, Running
<1>4. CASE RequestSave
  <2>1. /\ rec'.state = rec.state /\ rec'.sup = rec.sup /\ rec'.emu = rec.emu /\ rec'.ws
        /\ req = "save" /\ req' = "spawn" /\ UNCHANGED <<disk, lock, stage, sup, emu>>
    BY <1>1, <1>4 DEF RequestSave, Records
  <2> QED BY <1>2, <2>1 DEF Course, Requested, Launched, Releasing, Launching, Waking, At, Running
<1>5. CASE RequestSpawn
  <2>1. CASE sup' = [sup EXCEPT !.pc = "born"] /\ req' = "poll"
    <3>1. sup'.pc = "born" /\ req = "spawn" /\ UNCHANGED <<rec, disk, lock, stage, emu>>
      BY <1>1, <1>5, <2>1 DEF RequestSpawn, Supervisors
    <3> QED BY <1>2, <2>1, <3>1
            DEF Course, Requested, Launched, Releasing, Launching, Waking, At, Running
  <2>2. CASE sup' = sup /\ req' = "except"
    BY <1>2, <1>5, <2>2
       DEF RequestSpawn, Course, Requested, Launched, Releasing, Launching, Waking, At, Running
  <2> QED BY <1>5, <2>1, <2>2 DEF RequestSpawn
<1>6. CASE RequestPoll
  <2>1. UNCHANGED <<rec, disk, lock, stage, sup, emu>> /\ req = "poll" /\ req' \in {"done", "except"}
    BY <1>6 DEF RequestPoll
  <2>2. req' = "except" => sup.pc \notin Waking
    BY <1>6 DEF RequestPoll, Course, Requested, Waking
  <2> QED BY <2>1, <2>2 DEF Course, Requested, Launched, Releasing, Launching, Waking, At, Running
<1>7. CASE RequestExcept
  <2>1. req = "except" /\ req' = "done" /\ lock = None /\ UNCHANGED <<disk, lock, stage, sup, emu>>
    BY <1>7 DEF RequestExcept
  <2>2. /\ rec'.sup = rec.sup /\ rec'.emu = rec.emu /\ rec'.ws = rec.ws
        /\ rec'.state = "failed" \/ rec'.state = rec.state
    BY <1>1, <1>7 DEF RequestExcept, Moved, Records
  <2> QED BY <2>1, <2>2 DEF Course, Requested, Launched, Releasing, Launching, Waking, At, Running, Held
<1>8. CASE RequestKilled
  BY <1>8 DEF RequestKilled, Course, Requested, Launched, Releasing, Launching, Waking, At, Running
<1>9. CASE RequestTimeout
  <2>1. /\ UNCHANGED <<rec, disk, lock, stage, emu>> /\ req = "poll" /\ req' = "except"
        /\ rec.state \in {"stopping", "resetting", "released"}
    BY <1>9 DEF RequestTimeout, Patient
  <2>2. sup.pc \notin Waking
    BY <2>1 DEF Course, Requested
  <2>3. sup'.pc = sup.pc /\ sup'.todo = sup.todo
    BY <1>1, <1>9, <2>2, SignalledFields DEF RequestTimeout, Waking
  <2> QED BY <2>1, <2>2, <2>3 DEF Course, Requested, Launched, Releasing, Launching, Waking, At, Running
<1> QED BY <1>3, <1>4, <1>5, <1>6, <1>7, <1>8, <1>9 DEF RequestStep

LEMMA ReleaseCourse ==
  ASSUME Known, Course, NEW r \in Releasers, ReleaseBegin(r) \/ ReleaseNext(r)
  PROVE  Course'
<1>1. rec \in Records /\ sup \in Supervisors
  BY DEF Known, TypeOK
<1>2. r # None
  BY NoneAssumption
<1> DEFINE Alike(t) == /\ rec'.state = t /\ rec'.sup = rec.sup /\ rec'.emu = rec.emu /\ rec'.ws = rec.ws
<1>3. CASE ReleaseBegin(r)
  <2>1. Alike("resetting") /\ UNCHANGED <<disk, req, sup, emu>> /\ lock' = r /\ stage' = "discard"
    BY <1>1, <1>3 DEF ReleaseBegin, Moved, Records
  <2>2. rec.state = "resetting" \/ (rec.state = "failed" /\ ~(rec.emu /\ emu \in {"guest", "monitor", "zombie"}))
    BY <1>3 DEF ReleaseBegin, Releasable, EmulatorMatches
  <2> QED BY <1>2, <2>1, <2>2
          DEF Course, Requested, Launched, Releasing, Launching, Waking, At, Running, Held
<1>4. CASE ReleaseRemove(r)
  <2>1. lock = r /\ UNCHANGED <<rec, lock, req, sup, emu>> /\ disk' = "none" /\ stage' = "removed"
    BY <1>4 DEF ReleaseRemove
  <2> QED BY <1>2, <2>1
          DEF Course, Requested, Launched, Releasing, Launching, Waking, At, Running, Held
<1>5. CASE ReleaseDone(r) \/ ReleaseFail(r)
  <2>1. \/ Alike("released") /\ disk' = disk
        \/ Alike("failed") /\ disk' \in {disk, "stub"}
    BY <1>1, <1>5 DEF ReleaseDone, ReleaseFail, Moved, Records
  <2>2. lock = r /\ UNCHANGED <<req, emu>> /\ lock' = None /\ stage' = "none"
    BY <1>5 DEF ReleaseDone, ReleaseFail, ReleaseEnds
  <2>3. rec.state = "resetting"
    BY <1>2, <2>2 DEF Course, Releasing
  <2>4. sup' = sup \/ (sup'.pc = "dead" /\ sup.pc = "release")
    BY <1>5, <2>2, DieEffect DEF ReleaseDone, ReleaseFail, ReleaseEnds, Ended, Known, Readiness
  <2> QED BY <2>1, <2>2, <2>3, <2>4
          DEF Course, Requested, Launched, Releasing, Launching, Waking, At, Running, Held
<1> QED BY <1>3, <1>4, <1>5 DEF ReleaseNext

\* Operators, reconcile, clients and the emulator itself.
LEMMA OutsideCourse ==
  ASSUME Patient, Known, Course,
         \/ EmuStep \/ Reconcile \/ UNCHANGED vars
         \/ \E c \in Clients : ClientStep(c)
         \/ \E o \in Operators : OperatorStep(o) \/ OperatorKilled(o)
  PROVE  Course'
<1>1. rec \in Records /\ sup \in Supervisors
  BY DEF Known, TypeOK
<1>2. ASSUME UNCHANGED <<rec, sup, emu, req>>, disk' = disk \/ (disk = "none" /\ disk' = "stub"),
             UNCHANGED <<lock, stage>> \/ (lock' = None /\ stage' = "none")
      PROVE  Course'
  BY <1>2 DEF Course, Requested, Launched, Releasing, Launching, Waking, At, Running
<1>3. ASSUME NEW o \in Operators, OperatorStep(o) \/ OperatorKilled(o)
      PROVE  Course'
  <2>1. CASE (\E recovery \in BOOLEAN : StopRequest(o, recovery)) \/ StopVerify(o) \/ OperatorKilled(o)
    BY <1>2, <2>1 DEF StopRequest, StopVerify, OperatorKilled
  <2>2. CASE StopWrite(o)
    BY <1>2, <2>2 DEF StopWrite
  <2>3. CASE StopSignal(o)
    <3>1. UNCHANGED <<rec, disk, lock, stage, req, emu>>
      BY <2>3 DEF StopSignal
    <3>2. sup' = sup \/ (sup.pc # "none" /\ sup'.pc = "dead")
          \/ (sup'.pc = sup.pc /\ sup'.todo = sup.todo)
      BY <1>1, <2>3 DEF StopSignal, Alive, Signalled, Supervisors
    <3>3. CASE sup.pc # "none" /\ sup'.pc = "dead"
      BY <3>1, <3>3, EndKeepsCourse
    <3>4. CASE sup'.pc = sup.pc /\ sup'.todo = sup.todo
      BY <3>1, <3>4 DEF Course, Requested, Launched, Releasing, Launching, Waking, At, Running
    <3> QED BY <3>1, <3>2, <3>3, <3>4
  <2> QED BY <1>3, <2>1, <2>2, <2>3, ReleaseCourse DEF OperatorStep
<1>4. CASE Reconcile
  <2>1. /\ rec'.state = "failed" /\ rec'.sup = rec.sup /\ rec'.emu = rec.emu /\ rec'.ws = rec.ws
        /\ UNCHANGED <<disk, lock, stage, req, sup, emu>> /\ lock = None /\ req = "done"
    BY <1>1, <1>4 DEF Reconcile, Moved, Records, Patient
  <2>2. sup.pc \notin {"setup", "announce"} \cup LoopSteps
    BY <1>4 DEF Reconcile, SupervisorMatches, Alive, Course, Launched
  <2> QED BY <2>1, <2>2 DEF Course, Requested, Launched, Releasing, Launching, Waking, At, Running
<1>5. CASE EmuStep
  <2>1. UNCHANGED <<rec, disk, lock, stage, req, sup>>
    BY <1>5 DEF EmuStep, EmuFlood, EmuMarker, EmuHalt, EmuRead, EmuExit, EmuReaped
  <2>2. \/ emu' = emu
        \/ Running /\ emu' \in {"guest", "monitor", "zombie"}
        \/ emu = "zombie" /\ emu' = "gone" /\ ~Alive
    BY <1>5 DEF EmuStep, EmuFlood, EmuMarker, EmuHalt, EmuRead, EmuExit, EmuReaped, Running
  <2> QED BY <2>1, <2>2 DEF Course, Requested, Launched, Releasing, Launching, Waking, At, Running, Alive
<1>6. CASE UNCHANGED vars \/ \E c \in Clients : ClientStep(c)
  BY <1>2, <1>6 DEF vars, ClientStep, AttachCheck, AttachConnect, AttachType, AttachClose
<1> QED BY <1>3, <1>4, <1>5, <1>6

LEMMA CourseStep == Patient /\ Known /\ Course /\ [Next]_vars => Course'
<1>1. Self \in Releasers
  OBVIOUS
<1> QED BY <1>1, LoopCourse, TransitionCourse, StartCourse, StopCourse, RequestCourse, ReleaseCourse, OutsideCourse
        DEF Next, SupStep

LEMMA InitialCourse == Init => Known /\ Course
BY InitialTypes, InitialTodo, NoneAssumption
   DEF Init, Known, Course, Requested, Launched, Releasing, Launching, Waking, At, Running

------------------------------------------------------------------------------
(* Attestation. *)

\* The supervisor's exit is behind it: a stop request that comes now comes too late.
Past == ExitSteps \cup {"dead"}

Attestation ==
  (\/ hist.sent # {} \/ sup.phase # "none" \/ sup.pc = "begin" \/ rec.state = "stopping"
   \/ sup.stop /\ sup.pc \notin Past
   \/ \E o \in Operators : op[o] = "signal")
    => hist.attested

\* A step that neither sends, nor asks for a stop, nor takes one up.
Quiet ==
  /\ hist'.sent = hist.sent /\ hist'.attested = hist.attested
  /\ sup'.stop /\ sup'.pc \notin Past => sup.stop /\ sup.pc \notin Past
  /\ sup'.phase # "none" => sup.phase # "none"
  /\ sup'.pc = "begin" => sup.pc = "begin"
  /\ \A o \in Operators : op'[o] = "signal" => op[o] = "signal"

\* The record gets into STOPPING at one place only.
LEMMA StopIsTakenUp ==
  ASSUME Known, [Next]_vars, rec'.state = "stopping"
  PROVE  rec.state = "stopping" \/ sup.pc = "begin"
<1>1. CASE SupTransition
  <2>1. sup.todo \in TodoOf(sup.pc) /\ sup.todo # <<>>
    BY <1>1 DEF SupTransition, Known, TodoKnown
  <2>2. rec' = rec \/ Head(sup.todo) = "stopping"
    BY <1>1, TransitionEffect DEF Known
  <2>3. Head(sup.todo) = "stopping" => sup.pc = "begin"
    BY <2>1, TailOfTodo
  <2> QED BY <2>2, <2>3
<1>2. CASE ~SupTransition
  BY <1>2, RecordEffect DEF Known
<1> QED BY <1>1, <1>2

LEMMA QuietStep ==
  ASSUME Attestation, Quiet, rec'.state = "stopping" => rec.state = "stopping" \/ sup.pc = "begin"
  PROVE  Attestation'
BY DEF Attestation, Quiet

LEMMA DieIsQuiet ==
  ASSUME TypeOK, NEW raised \in BOOLEAN, Die(raised), op' = op
  PROVE  Quiet
<1>1. sup' = Dead /\ hist' = [hist EXCEPT !.raised = hist.raised \/ raised]
  BY DEF Die
<1>2. sup \in Supervisors /\ hist \in Histories
  BY DEF TypeOK
<1>3. /\ Dead.pc = "dead" /\ Dead.phase = sup.phase
      /\ hist'.sent = hist.sent /\ hist'.attested = hist.attested
  BY <1>1, <1>2 DEF Dead, Supervisors, Histories
<1> QED BY <1>1, <1>3 DEF Quiet, Past

LEMMA ReleaseIsQuiet ==
  ASSUME TypeOK, NEW r \in Releasers, ReleaseBegin(r) \/ ReleaseNext(r)
  PROVE  Quiet
<1>1. op \in [Operators -> OperatorSteps]
  BY DEF TypeOK
<1>2. ReleaseEnds(r) => Quiet
  <2>1. CASE r = Self /\ ReleaseEnds(r)
    BY <2>1, DieIsQuiet DEF ReleaseEnds
  <2>2. CASE r # Self /\ ReleaseEnds(r)
    BY <1>1, <2>2 DEF ReleaseEnds, Quiet
  <2> QED BY <2>1, <2>2
<1>3. ReleaseBegin(r) => Quiet
  BY <1>1 DEF ReleaseBegin, Quiet
<1>4. ReleaseRemove(r) => Quiet
  BY DEF ReleaseRemove, Quiet
<1> QED BY <1>2, <1>3, <1>4 DEF ReleaseNext, ReleaseDone, ReleaseFail

\* A request gives up on a supervisor that is under way only when the record has gone on,
\* to a stop that is attested or to a reset, which comes after the loop.
LEMMA RequestIsQuiet ==
  ASSUME Patient, Known, Course, RequestStep \/ RequestTimeout \/ RequestKilled
  PROVE  Quiet \/ (rec.state = "stopping" /\ hist' = hist)
<1>1. sup \in Supervisors
  BY DEF Known, TypeOK
<1>2. CASE RequestSpawn
  <2>1. sup.pc = "none"
    BY <1>2 DEF RequestSpawn, Known, Readiness, Launching
  <2> QED BY <1>1, <1>2, <2>1 DEF RequestSpawn, Quiet, Past, Supervisors
<1>3. CASE RequestPrepare \/ RequestSave \/ RequestPoll \/ RequestExcept \/ RequestKilled
  BY <1>3 DEF RequestPrepare, RequestSave, RequestPoll, RequestExcept, RequestKilled, Quiet
<1>4. CASE RequestTimeout
  <2>1. req = "poll" /\ rec.state \in {"stopping", "resetting", "released"} /\ hist' = hist /\ op' = op
    BY <1>4 DEF RequestTimeout, Patient
  <2>2. CASE rec.state \in {"resetting", "released"}
    <3>1. sup.pc \notin LoopSteps \cup Waking
      BY <2>1, <2>2 DEF Course, Requested, Launched, Held
    <3>2. sup' = sup \/ (Alive /\ sup' = Signalled)
      BY <1>4 DEF RequestTimeout
    <3>3. Alive => sup.pc \in ExitSteps
      <4>1. sup.pc \in SupervisorSteps
        BY <1>1 DEF Supervisors
      <4> QED BY <3>1, <4>1 DEF Alive, Waking
    <3>4. sup'.phase = sup.phase /\ sup'.pc = sup.pc
      BY <1>1, <3>1, <3>2, SignalledFields DEF Waking
    <3>5. sup'.stop /\ sup'.pc \notin Past => sup.stop
      BY <3>2, <3>3, <3>4 DEF Past
    <3> QED BY <2>1, <3>4, <3>5 DEF Quiet
  <2> QED BY <2>1, <2>2
<1> QED BY <1>2, <1>3, <1>4 DEF RequestStep

\* What the supervisor does away from its console.
LEMMA CourseIsQuiet ==
  ASSUME Known,
         \/ SupTransition \/ SupBoot \/ SupLaunch \/ SupIdentify \/ SupKilled \/ SupShutdownTimeout
         \/ SupClear \/ SupSelect \/ SupExpire \/ SupGoOn \/ SupPollExited \/ SupExit \/ SupReset
         \/ SupReleaseRefused
  PROVE  Quiet
<1>1. sup \in Supervisors /\ TypeOK
  BY DEF Known, TypeOK
<1>2. SupTransition => Quiet
  <2>1. CASE Accepts(Head(sup.todo))
    BY <1>1, <2>1 DEF SupTransition, Quiet, Supervisors
  <2>2. CASE ~Accepts(Head(sup.todo))
    BY <1>1, <2>2, DieIsQuiet DEF SupTransition
  <2> QED BY <2>1, <2>2
<1>3. SupKilled \/ SupExit \/ SupReleaseRefused => Quiet
  BY <1>1, DieIsQuiet DEF SupKilled, SupExit, SupReleaseRefused
<1>4. ASSUME NEW p, NEW q, NEW t, At(p), With(q, t), q # "begin", p \notin Past, UNCHANGED <<hist, op>>
      PROVE  Quiet
  BY <1>4 DEF At, With, Quiet
<1>5. SupBoot \/ SupIdentify \/ SupShutdownTimeout \/ SupSelect \/ SupExpire \/ SupGoOn \/ SupPollExited
        => UNCHANGED <<hist, op>>
  BY DEF SupBoot, SupIdentify, SupShutdownTimeout, SupSelect, SupExpire, SupGoOn, SupPollExited
<1>6. SupBoot \/ SupIdentify => Quiet
  BY <1>1, <1>4, <1>5, CourseEffects DEF Past
<1>7. SupShutdownTimeout \/ SupSelect \/ SupExpire => Quiet
  BY <1>1, <1>4, <1>5, CourseEffects, ConsoleEffects DEF Past
<1>8. SupGoOn \/ SupPollExited => Quiet
  BY <1>1, <1>4, <1>5, CourseEffects DEF Past
<1>9. SupLaunch => Quiet
  <2>1. CASE Die(TRUE) /\ SupLaunch
    BY <1>1, <2>1, DieIsQuiet DEF SupLaunch
  <2>2. CASE SupLaunch /\ UNCHANGED hist /\ sup' = [sup EXCEPT !.pc = "announce", !.todo = <<"starting">>]
    BY <1>1, <2>2 DEF SupLaunch, At, Past, Quiet, Supervisors
  <2> QED BY <2>1, <2>2 DEF SupLaunch
<1>10. SupClear => Quiet
  BY <1>1 DEF SupClear, Quiet, Supervisors
<1>11. SupReset => Quiet
  BY <1>1 DEF SupReset, Dead, Quiet, Past, Supervisors
<1> QED BY <1>2, <1>3, <1>6, <1>7, <1>8, <1>9, <1>10, <1>11

\* What it does with its clients, and at the readiness deadline.
LEMMA ClientsAreQuiet ==
  ASSUME Known, SupClient \/ SupBoundary \/ \E c \in Clients : SupAccept(c) \/ SupReject(c)
  PROVE  Quiet
<1>1. sup \in Supervisors /\ TypeOK
  BY DEF Known, TypeOK
<1>2. ASSUME NEW p \in {"events", "timers"}, sup.pc \in LoopSteps, sup'.pc = p, sup'.stop = sup.stop,
             sup'.phase = sup.phase, UNCHANGED <<hist, op>>
      PROVE  Quiet
  BY <1>2 DEF Quiet, Past
<1>3. CASE SupClient
  <2>1. CASE Die(TRUE)
    BY <1>1, <1>3, <2>1, DieIsQuiet DEF SupClient
  <2>2. CASE ClientTyped \/ ClientGone
    <3>1. /\ sup.pc = "events" /\ sup'.pc = "events" /\ sup'.stop = sup.stop /\ sup'.phase = sup.phase
      BY <1>1, <1>3, <2>2, ZenonT(40) DEF SupClient, ClientTyped, ClientGone, Handling, Handled, At, Supervisors
    <3>2. UNCHANGED <<hist, op>>
      BY <1>3, <2>2 DEF SupClient, ClientTyped, ClientGone
    <3> QED BY <1>2, <3>1, <3>2
  <2> QED BY <1>3, <2>1, <2>2 DEF SupClient, WriteFails
<1>4. CASE SupBoundary
  <2>1. /\ sup.pc = "boundary" /\ sup'.pc = "timers" /\ sup'.stop = sup.stop /\ sup'.phase = sup.phase
    BY <1>1, <1>4, ConsoleEffects DEF At, Heeds
  <2> QED BY <1>2, <1>4, <2>1 DEF SupBoundary
<1>5. ASSUME NEW c \in Clients, SupAccept(c) PROVE Quiet
  <2>1. /\ sup.pc = "events" /\ sup'.pc = "events" /\ sup'.stop = sup.stop /\ sup'.phase = sup.phase
    BY <1>1, <1>5, ConsoleEffects DEF At
  <2> QED BY <1>2, <1>5, <2>1 DEF SupAccept
<1>6. ASSUME NEW c \in Clients, SupReject(c) PROVE Quiet
  <2>1. CASE client[c] = "queued"
    BY <1>1, <1>6, <2>1 DEF SupReject, Handling, Handled, At, Past, Quiet, Supervisors
  <2>2. CASE client[c] # "queued"
    BY <1>1, <1>6, <2>2, DieIsQuiet DEF SupReject
  <2> QED BY <2>1, <2>2
<1> QED BY <1>3, <1>4, <1>5, <1>6

\* The three steps that take a stop up and send something.
LEMMA StopIsAttested ==
  ASSUME Known, Attestation, SupTop \/ SupBegin \/ SupConsole
  PROVE  Attestation'
<1>1. sup \in Supervisors /\ hist \in Histories /\ TypeOK
  BY DEF Known, TypeOK
<1>2. rec' = rec /\ op' = op
  BY DEF SupTop, SupBegin, SupConsole
<1>3. WriteFails => Attestation'
  BY <1>1, <1>2, DieIsQuiet, QuietStep DEF WriteFails
<1>4. SupTop => Attestation'
  <2> SUFFICES ASSUME SupTop PROVE Attestation'
    OBVIOUS
  <2>1. sup'.pc = "begin" => sup.stop
    BY <1>1 DEF SupTop, StopDue, Supervisors
  <2>2. sup'.stop = sup.stop /\ sup'.phase = sup.phase /\ hist' = hist /\ sup.pc = "top"
    BY <1>1 DEF SupTop, At, Supervisors
  <2> QED BY <1>2, <2>1, <2>2 DEF Attestation, Past
<1>5. SupBegin => Attestation'
  <2>1. SupBegin => hist.attested
    BY DEF SupBegin, At, Attestation
  <2>2. SupBegin => hist'.attested = hist.attested \/ WriteFails
    BY <1>1 DEF SupBegin, Send, Histories
  <2> QED BY <1>3, <2>1, <2>2 DEF Attestation
<1>6. SupConsole => Attestation'
  <2> SUFFICES ASSUME SupConsole, ConsoleRead PROVE Attestation'
    BY <1>3 DEF SupConsole
  <2>1. sup.pc = "events" /\ sup'.pc = sup.pc /\ sup'.stop = sup.stop
        /\ (sup'.phase = sup.phase \/ sup.phase = "monitor")
    BY <1>1, ConsoleReadEffect DEF SupConsole, Handling, At, Hears, Confirmed
  <2>2. hist'.attested = hist.attested /\ (hist'.sent = hist.sent \/ sup.phase = "monitor")
    BY <1>1 DEF ConsoleRead, Confirmed, Histories
  <2> QED BY <1>2, <2>1, <2>2 DEF Attestation, Past
<1> QED BY <1>4, <1>5, <1>6

LEMMA AttestationStep == Patient /\ Known /\ Course /\ Attestation /\ [Next]_vars => Attestation'
<1> SUFFICES ASSUME Patient, Known, Course, Attestation, [Next]_vars PROVE Attestation'
  OBVIOUS
<1>1. hist \in Histories /\ op \in [Operators -> OperatorSteps] /\ TypeOK
  BY DEF Known, TypeOK
<1>2. Quiet => Attestation'
  BY QuietStep, StopIsTakenUp
<1>3. RequestStep \/ RequestTimeout \/ RequestKilled => Attestation'
  <2>1. rec.state = "stopping" /\ hist' = hist => Attestation'
    BY DEF Attestation
  <2> QED BY <1>2, <2>1, RequestIsQuiet
<1>4. SupStep \/ SupKilled => Attestation'
  <2>1. Self \in Releasers
    OBVIOUS
  <2> QED BY <1>1, <1>2, <2>1, CourseIsQuiet, ClientsAreQuiet, StopIsAttested, ReleaseIsQuiet DEF SupStep
<1>5. ASSUME NEW o \in Operators, OperatorStep(o) \/ OperatorKilled(o)
      PROVE  Attestation'
  <2>1. CASE StopWrite(o)
    <3>1. hist'.attested
      BY <1>1, <2>1 DEF StopWrite, Histories
    <3> QED BY <3>1 DEF Attestation
  <2>2. CASE StopSignal(o)
    <3>1. hist.attested /\ hist' = hist
      BY <2>2 DEF StopSignal, Attestation
    <3> QED BY <3>1 DEF Attestation
  <2>3. (\E recovery \in BOOLEAN : StopRequest(o, recovery)) \/ StopVerify(o) \/ OperatorKilled(o) => Quiet
    BY <1>1 DEF StopRequest, StopVerify, OperatorKilled, Quiet
  <2> QED BY <1>1, <1>2, <1>5, <2>1, <2>2, <2>3, ReleaseIsQuiet DEF OperatorStep
<1>6. EmuStep \/ Reconcile \/ UNCHANGED vars \/ (\E c \in Clients : ClientStep(c)) => Quiet
  BY <1>1 DEF EmuStep, EmuFlood, EmuMarker, EmuHalt, EmuRead, EmuExit, EmuReaped, Reconcile, vars, ClientStep,
              AttachCheck, AttachConnect, AttachType, AttachClose, Quiet, Histories
<1> QED BY <1>2, <1>3, <1>4, <1>5, <1>6 DEF Next

\* Nothing is typed at the emulator that an operator has not attested, whenever the request
\* gives up: the only other sender of SIGTERM does so once the record has gone on, to a stop
\* that is attested or to a reset.
THEOREM InputIsAttested ==
  ASSUME Patient
  PROVE  Spec => []NoUnattestedInput
<1>1. Init => Attestation
  BY DEF Init, Attestation
<1>2. TypeOK /\ Readiness /\ TodoKnown <=> Known
  BY DEF Known
<1>3. Known /\ Course /\ [Next]_vars => Course'
  BY CourseStep
<1>4. Known /\ Course /\ Attestation /\ [Next]_vars => Attestation'
  BY AttestationStep
<1>5. Attestation => NoUnattestedInput
  BY DEF Attestation, NoUnattestedInput
<1> QED BY <1>1, <1>2, <1>3, <1>4, <1>5, InitialCourse, InitialTodo, TodoStep, ReadinessStep, TypeCorrect,
           PTL DEF Spec

------------------------------------------------------------------------------
(* The refinement. *)

Disks == rec.ws /\ disk = "disks"
Live == rec.emu /\ Running

\* A step the contract does not see.
LEMMA Stutter ==
  ASSUME rec'.state = rec.state, rec'.ws = rec.ws, rec'.emu = rec.emu,
         disk' = disk, emu' = emu
  PROVE  UNCHANGED Contract!vars
BY DEF Contract!vars, Running

\* A step that moves the record along an edge which claims neither an exit nor a removal.
LEMMA MoveStep ==
  ASSUME rec'.state \in States \ {"resetting", "released"}, CanMove(rec.state, rec'.state),
         rec'.state \in {"starting", "stopping"} => Disks,
         rec'.ws = rec.ws, rec'.emu = rec.emu, disk' = disk, emu' = emu
  PROVE  Contract!Next
<1>1. Contract!CanMove(rec.state, rec'.state) /\ rec'.state \in Contract!States \ {"resetting", "released"}
  BY DEF Contract!CanMove, CanMove, Contract!States, States
<1> QED BY <1>1 DEF Contract!Next, Contract!Move, Running, Disks

LEMMA ContractTransition ==
  ASSUME Known, Course, SupTransition
  PROVE  [Contract!Next]_(Contract!vars)
<1>1. sup.todo \in TodoOf(sup.pc) /\ sup.todo # <<>> /\ lock = None /\ UNCHANGED <<disk, emu>>
  BY DEF SupTransition, Known, TodoKnown
<1>2. CASE rec' = rec
  BY <1>1, <1>2, Stutter
<1>3. CASE /\ Accepts(Head(sup.todo)) /\ rec'.state = Head(sup.todo)
           /\ rec'.emu = rec.emu /\ rec'.ws = rec.ws
  <2>1. CASE rec'.state = rec.state
    BY <1>1, <1>3, <2>1, Stutter
  <2>2. CASE rec'.state # rec.state
    <3>1. CanMove(rec.state, rec'.state)
      BY <1>3, <2>2 DEF Accepts
    <3>2. CASE sup.pc = "announce"
      <4>1. rec'.state = "starting"
        BY <1>1, <1>3, <3>2, TailOfTodo
      <4>2. rec.state = "preparing" /\ Disks
        BY <3>1, <3>2, <4>1 DEF CanMove, Course, Requested, Disks
      <4> QED BY <1>1, <1>3, <3>1, <4>1, <4>2, MoveStep, KnownStates
    <3>3. CASE sup.pc \in LoopSteps
      <4>1. rec'.state \in {"stopping", "failed", "ready", "active"}
        <5>1. sup.pc \in {"begin", "clear", "poll", "events", "timers"}
          BY <1>1, <3>3, TailOfTodo
        <5>2. Head(sup.todo) \in {"stopping", "failed", "ready", "active"}
          BY <1>1, <5>1, TailOfTodo
        <5> QED BY <1>3, <5>2
      <4>2. Disks
        BY <3>3 DEF Course, Requested, Launched, Disks
      <4> QED BY <1>1, <1>3, <3>1, <4>1, <4>2, MoveStep, KnownStates
    <3>4. CASE sup.pc = "exit"
      <4>1. rec'.state = "failed"
        BY <1>1, <1>3, <3>4, TailOfTodo
      <4> QED BY <1>1, <1>3, <3>1, <4>1, MoveStep, KnownStates
    <3>5. CASE sup.pc = "reset"
      <4>1. rec'.state = "resetting" /\ rec.state \in {"stopping", "failed"}
        BY <1>1, <1>3, <3>1, <3>5, TailOfTodo, ZenonT(40) DEF CanMove
      <4>2. emu = "gone"
        BY <3>5 DEF Course, Launched
      <4> QED BY <1>1, <1>3, <4>1, <4>2 DEF Contract!Next, Contract!Reset, Running
    <3> QED BY <1>1, <3>2, <3>3, <3>4, <3>5, TailOfTodo
  <2> QED BY <2>1, <2>2
<1> QED BY <1>2, <1>3, TransitionEffect DEF Known

LEMMA ContractRequest ==
  ASSUME Patient, Known, Course, RequestStep \/ RequestTimeout \/ RequestKilled
  PROVE  [Contract!Next]_(Contract!vars)
<1>1. rec \in Records
  BY DEF Known, TypeOK
<1>2. CASE RequestPrepare
  <2>1. ~rec.ws /\ rec' = rec /\ emu' = emu
    BY <1>2 DEF RequestPrepare, Course, Requested
  <2> QED BY <2>1 DEF Contract!vars, Running
<1>3. CASE RequestSave
  <2>1. /\ rec'.state = rec.state /\ rec'.emu = rec.emu /\ rec'.ws = TRUE
        /\ UNCHANGED <<disk, emu>>
    BY <1>1, <1>3 DEF RequestSave, Records
  <2>2. rec.state = "preparing" /\ disk = "disks"
    BY <1>3 DEF RequestSave, Course, Requested, Launching
  <2> QED BY <2>1, <2>2 DEF Contract!Next, Contract!Prepare, Running
<1>4. CASE RequestExcept
  <2>1. CASE rec' = rec
    BY <1>4, <2>1, Stutter DEF RequestExcept
  <2>2. CASE rec' = Moved("failed", "request") /\ rec.state \notin {"failed", "released"}
    <3>1. /\ rec'.state = "failed" /\ rec'.emu = rec.emu /\ rec'.ws = rec.ws
          /\ UNCHANGED <<disk, emu>>
      BY <1>1, <1>4, <2>2 DEF RequestExcept, Moved, Records
    <3>2. CanMove(rec.state, "failed")
      BY <1>1, <2>2 DEF CanMove, Records, States
    <3> QED BY <3>1, <3>2, MoveStep, KnownStates
  <2> QED BY <1>4, <2>1, <2>2 DEF RequestExcept
<1>5. CASE RequestSpawn \/ RequestPoll \/ RequestKilled \/ RequestTimeout
  BY <1>5, Stutter DEF RequestSpawn, RequestPoll, RequestKilled, RequestTimeout
<1> QED BY <1>2, <1>3, <1>4, <1>5 DEF RequestStep

LEMMA ContractRelease ==
  ASSUME Known, Course, NEW r \in Releasers, ReleaseBegin(r) \/ ReleaseNext(r)
  PROVE  [Contract!Next]_(Contract!vars)
<1>1. rec \in Records /\ r # None
  BY NoneAssumption DEF Known, TypeOK
<1> DEFINE Alike(t) == /\ rec'.state = t /\ rec'.emu = rec.emu /\ rec'.ws = rec.ws
<1>2. CASE ReleaseBegin(r)
  <2>1. Alike("resetting") /\ UNCHANGED <<disk, emu>>
    BY <1>1, <1>2 DEF ReleaseBegin, Moved, Records
  <2>2. rec.state = "resetting" \/ (rec.state = "failed" /\ ~(rec.emu /\ emu \in {"guest", "monitor", "zombie"}))
    BY <1>2 DEF ReleaseBegin, Releasable, EmulatorMatches
  <2>3. CASE rec.state = "resetting"
    BY <2>1, <2>3, Stutter
  <2>4. CASE rec.state = "failed" /\ ~(rec.emu /\ emu \in {"guest", "monitor", "zombie"})
    BY <2>1, <2>4 DEF Contract!Next, Contract!Reset, Running
  <2> QED BY <2>2, <2>3, <2>4
<1>3. lock = r => rec.state = "resetting" /\ ~(rec.emu /\ Running)
  BY <1>1 DEF Course, Releasing
<1>4. CASE ReleaseRemove(r)
  <2>1. lock = r /\ UNCHANGED <<rec, emu>> /\ disk' = "none"
    BY <1>4 DEF ReleaseRemove
  <2> QED BY <1>3, <2>1 DEF Contract!Next, Contract!Discard, Running
<1>5. CASE ReleaseDone(r)
  <2>1. lock = r /\ Alike("released") /\ UNCHANGED <<disk, emu>>
    BY <1>1, <1>5 DEF ReleaseDone, Moved, Records
  <2>2. ~(rec.ws /\ disk = "disks")
    BY <1>5 DEF ReleaseDone, Removed, Course, Releasing
  <2> QED BY <1>3, <2>1, <2>2 DEF Contract!Next, Contract!Release, Running
<1>6. CASE ReleaseFail(r)
  <2>1. lock = r /\ Alike("failed") /\ disk' \in {disk, "stub"} /\ emu' = emu
    BY <1>1, <1>6 DEF ReleaseFail, Moved, Records
  <2>2. CASE disk' = disk
    <3>1. CanMove(rec.state, "failed")
      BY <1>3, <2>1 DEF CanMove
    <3> QED BY <2>1, <2>2, <3>1, MoveStep, KnownStates
  <2>3. CASE disk' = "stub"
    BY <1>3, <2>1, <2>3 DEF Contract!Next, Contract!DiscardFails, Running
  <2> QED BY <2>1, <2>2, <2>3
<1> QED BY <1>2, <1>4, <1>5, <1>6 DEF ReleaseNext

LEMMA ContractSupervisor ==
  ASSUME Known, Course, SupStep \/ SupKilled
  PROVE  [Contract!Next]_(Contract!vars)
<1>1. rec \in Records
  BY DEF Known, TypeOK
<1>2. CASE SupBoot
  <2>1. rec'.state = rec.state /\ rec'.emu = rec.emu /\ rec'.ws = rec.ws /\ UNCHANGED <<disk, emu>>
    BY <1>1, <1>2 DEF SupBoot, Records
  <2> QED BY <2>1, Stutter
<1>3. CASE SupLaunch
  <2>1. ~rec.emu /\ rec' = rec /\ disk' = disk
    BY <1>3 DEF SupLaunch, At, Course, Launched, Waking
  <2> QED BY <2>1 DEF Contract!vars, Running
<1>4. CASE SupIdentify
  <2>1. /\ rec'.state = rec.state /\ rec'.emu = TRUE /\ rec'.ws = rec.ws
        /\ UNCHANGED <<disk, emu>>
    BY <1>1, <1>4 DEF SupIdentify, Records
  <2>2. rec.state = "starting" /\ disk = "disks" /\ rec.ws /\ ~rec.emu
    BY <1>4 DEF SupIdentify, At, Course, Requested, Launched, Waking
  <2>3. CASE Running
    BY <2>1, <2>2, <2>3 DEF Contract!Next, Contract!Launch, Running
  <2>4. CASE ~Running
    BY <2>1, <2>2, <2>4 DEF Contract!vars, Running
  <2> QED BY <2>3, <2>4
<1>5. CASE SupPollExited
  BY <1>5 DEF SupPollExited, Contract!vars, Running
<1>6. CASE \/ SupKilled \/ SupTop \/ SupBegin \/ SupShutdownTimeout \/ SupClear \/ SupSelect \/ SupConsole
           \/ SupClient \/ SupBoundary \/ SupExpire \/ SupGoOn \/ SupExit \/ SupReset \/ SupReleaseRefused
           \/ \E c \in Clients : SupAccept(c) \/ SupReject(c)
  <2>1. UNCHANGED <<rec, disk, emu>>
    BY <1>6 DEF SupKilled, SupTop, SupBegin, SupShutdownTimeout, SupClear, SupSelect, SupConsole,
                SupClient, SupBoundary, SupExpire, SupGoOn, SupExit, SupReset, SupReleaseRefused,
                SupAccept, SupReject
  <2> QED BY <2>1, Stutter
<1>7. Self \in Releasers
  OBVIOUS
<1> QED BY <1>2, <1>3, <1>4, <1>5, <1>6, <1>7, ContractTransition, ContractRelease DEF SupStep

LEMMA ContractOutside ==
  ASSUME Patient, Known, Course,
         \/ EmuStep \/ Reconcile \/ UNCHANGED vars
         \/ \E c \in Clients : ClientStep(c)
         \/ \E o \in Operators : OperatorStep(o) \/ OperatorKilled(o)
  PROVE  [Contract!Next]_(Contract!vars)
<1>1. rec \in Records
  BY DEF Known, TypeOK
<1>2. CASE EmuStep
  <2>1. UNCHANGED <<rec, disk>>
    BY <1>2 DEF EmuStep, EmuFlood, EmuMarker, EmuHalt, EmuRead, EmuExit, EmuReaped
  <2>2. emu' = emu \/ Running \/ (emu = "zombie" /\ emu' = "gone")
    BY <1>2 DEF EmuStep, EmuFlood, EmuMarker, EmuHalt, EmuRead, EmuExit, EmuReaped, Running
  <2>3. CASE emu' \in {"guest", "monitor"} <=> Running
    BY <2>1, <2>3 DEF Contract!vars, Running
  <2>4. CASE emu' \notin {"guest", "monitor"} /\ Running
    BY <2>1, <2>4 DEF Contract!Next, Contract!Exit, Running
  <2> QED BY <2>2, <2>3, <2>4 DEF Running
<1>3. CASE Reconcile
  <2>1. /\ rec'.state = "failed" /\ rec'.emu = rec.emu /\ rec'.ws = rec.ws
        /\ UNCHANGED <<disk, emu>> /\ rec.state \notin {"released", "failed", "resetting"}
    BY <1>1, <1>3 DEF Reconcile, Moved, Records
  <2>2. CanMove(rec.state, "failed")
    BY <1>1, <2>1 DEF CanMove, Records, States
  <2> QED BY <2>1, <2>2, MoveStep, KnownStates
<1>4. ASSUME NEW o \in Operators, OperatorStep(o) \/ OperatorKilled(o)
      PROVE  [Contract!Next]_(Contract!vars)
  <2>1. CASE (\E recovery \in BOOLEAN : StopRequest(o, recovery)) \/ StopVerify(o) \/ StopSignal(o) \/ OperatorKilled(o)
    BY <2>1, Stutter DEF StopRequest, StopVerify, StopSignal, OperatorKilled
  <2>2. CASE StopWrite(o)
    BY <2>2 DEF StopWrite, Contract!vars, Running
  <2> QED BY <1>4, <2>1, <2>2, ContractRelease DEF OperatorStep
<1>5. CASE UNCHANGED vars \/ \E c \in Clients : ClientStep(c)
  BY <1>5, Stutter DEF vars, ClientStep, AttachCheck, AttachConnect, AttachType, AttachClose
<1> QED BY <1>2, <1>3, <1>4, <1>5

\* Every session keeps the broker's contract, interleaved with every client, stop, release,
\* kill and failure: disks and emulators go in the promised order.
THEOREM ContractImplemented ==
  ASSUME Patient
  PROVE  Spec => ContractKept
<1>1. Init => Contract!Init
  BY DEF Init, Contract!Init, Running
<1>2. Known /\ Course /\ [Next]_vars => [Contract!Next]_(Contract!vars)
  BY ContractRequest, ContractSupervisor, ContractOutside DEF Next
<1>3. TypeOK /\ Readiness /\ TodoKnown <=> Known
  BY DEF Known
<1>4. Known /\ Course /\ [Next]_vars => Course'
  BY CourseStep
<1> QED BY <1>1, <1>2, <1>3, <1>4, InitialCourse, InitialTodo, TodoStep, ReadinessStep, TypeCorrect, PTL
        DEF Spec, ContractKept, Contract!Spec

------------------------------------------------------------------------------
(* A stop that is being carried out. *)

\* The record says that the session is stopping, unless its own request has failed it.
Answered == rec.state = "stopping" \/ rec.why = "request"

Stopping ==
  /\ sup.phase # "none" \/ sup.pc = "begin" => sup.stop
  /\ sup.pc \in {"none"} \cup Waking => sup.phase = "none"
  /\ At("begin") => Answered
  /\ sup.pc = "poll" /\ sup.phase # "none" => sup.todo = <<>>
  /\ sup.phase # "none" /\ sup.pc \in LoopSteps \ {"clear"} => Answered
  /\ sup.phase = "exit" => "quit" \in hist.sent
  /\ sup.pc = "reset" /\ rec.state = "stopping" => "quit" \in hist.sent

\* Only the next stop forgets what the last one has sent.
LEMMA SentStays ==
  ASSUME TypeOK, [Next]_vars, ~SupBegin, "quit" \in hist.sent
  PROVE  "quit" \in hist'.sent
<1>1. hist \in Histories
  BY DEF TypeOK
<1>2. \A raised \in BOOLEAN : Die(raised) => hist'.sent = hist.sent
  BY <1>1 DEF Die, Histories
<1>3. RequestStep \/ RequestTimeout \/ RequestKilled \/ Reconcile \/ UNCHANGED vars
        \/ (\E c \in Clients : ClientStep(c)) => hist' = hist
  BY DEF RequestStep, RequestPrepare, RequestSave, RequestSpawn, RequestPoll, RequestExcept,
         RequestTimeout, RequestKilled, Reconcile, vars, ClientStep, AttachCheck, AttachConnect,
         AttachType, AttachClose
<1>4. EmuStep => hist'.sent = hist.sent
  BY <1>1 DEF EmuStep, EmuFlood, EmuMarker, EmuHalt, EmuRead, EmuExit, EmuReaped, Histories
<1>5. ASSUME NEW r \in Releasers, ReleaseBegin(r) \/ ReleaseNext(r) PROVE hist'.sent = hist.sent
  BY <1>2, <1>5 DEF ReleaseBegin, ReleaseNext, ReleaseRemove, ReleaseDone, ReleaseFail, ReleaseEnds
<1>6. ASSUME NEW o \in Operators, OperatorStep(o) \/ OperatorKilled(o) PROVE hist'.sent = hist.sent
  BY <1>1, <1>5, <1>6 DEF OperatorStep, OperatorKilled, StopRequest, StopVerify, StopWrite, StopSignal, Histories
<1>7. SupConsole => "quit" \in hist'.sent
  <2>1. WriteFails => "quit" \in hist'.sent
    BY <1>2 DEF WriteFails
  <2>2. ConsoleRead => "quit" \in hist'.sent
    BY <1>1 DEF ConsoleRead, Histories
  <2> QED BY <2>1, <2>2 DEF SupConsole
<1>8. \/ SupTransition \/ SupBoot \/ SupLaunch \/ SupIdentify \/ SupTop \/ SupShutdownTimeout \/ SupClear
      \/ SupSelect \/ SupClient \/ SupBoundary \/ SupExpire \/ SupGoOn \/ SupPollExited \/ SupExit \/ SupReset
      \/ SupReleaseRefused \/ SupKilled \/ (\E c \in Clients : SupAccept(c) \/ SupReject(c))
      => hist'.sent = hist.sent
  BY <1>2 DEF SupTransition, SupBoot, SupLaunch, SupIdentify, SupTop, SupShutdownTimeout, SupClear,
              SupSelect, SupClient, ClientTyped, ClientGone, WriteFails, SupBoundary, SupExpire, SupGoOn, SupPollExited, SupExit, SupReset,
              SupReleaseRefused, SupKilled, SupAccept, SupReject
<1>9. Self \in Releasers
  OBVIOUS
<1> QED BY <1>3, <1>4, <1>5, <1>6, <1>7, <1>8, <1>9 DEF Next, SupStep

\* Nobody but its own request changes the record of a session that a supervisor runs.
LEMMA LoopRecord ==
  ASSUME Patient, Known, Course, [Next]_vars, ~SupTransition, sup.pc \in LoopSteps
  PROVE  (rec'.state = rec.state /\ rec'.why = rec.why) \/ rec'.why = "request"
<1>1. rec \in Records
  BY DEF Known, TypeOK
<1>2. rec.sup /\ rec.emu /\ emu \in {"guest", "monitor", "zombie"} /\ rec.state \in Held /\ lock = None
  BY DEF Course, Launched, Releasing, Held
<1>3. RequestExcept => rec' = rec \/ rec'.why = "request"
  BY <1>1 DEF RequestExcept, Moved, Records
<1>4. ~RequestSave /\ ~SupBoot /\ ~SupIdentify
  BY DEF RequestSave, SupBoot, SupIdentify, At, Known, Readiness, Launching
<1>5. ~Reconcile
  BY <1>2 DEF Reconcile, SupervisorMatches, Alive
<1>6. ASSUME NEW r \in Releasers, ReleaseBegin(r) \/ ReleaseNext(r) PROVE FALSE
  <2>1. ~Releasable
    BY <1>2 DEF Releasable, EmulatorMatches, Held
  <2> QED BY <1>2, <1>6, <2>1, NoneAssumption DEF ReleaseBegin, ReleaseNext, ReleaseRemove, ReleaseDone, ReleaseFail
<1>7. UNCHANGED vars \/ EmuStep \/ (\E c \in Clients : ClientStep(c)) => rec' = rec
  BY DEF vars, EmuStep, EmuFlood, EmuMarker, EmuHalt, EmuRead, EmuExit, EmuReaped, ClientStep,
         AttachCheck, AttachConnect, AttachType, AttachClose
<1>8. RequestStep \/ RequestTimeout \/ RequestKilled => rec' = rec \/ RequestExcept
  BY <1>4 DEF RequestStep, RequestPrepare, RequestSpawn, RequestPoll, RequestTimeout, RequestKilled
<1>9. Self \in Releasers
  OBVIOUS
<1>10. SupStep \/ SupKilled => rec' = rec
  BY <1>4, <1>6, <1>9
     DEF SupStep, SupKilled, SupLaunch, SupTop, SupBegin, SupShutdownTimeout, SupClear, SupSelect,
         SupConsole, SupClient, SupAccept, SupReject, SupBoundary, SupExpire, SupGoOn,
         SupPollExited, SupExit, SupReset, SupReleaseRefused
<1>11. \A o \in Operators : OperatorStep(o) \/ OperatorKilled(o) => rec' = rec
  BY <1>6 DEF OperatorStep, OperatorKilled, StopRequest, StopVerify, StopWrite, StopSignal
<1> QED BY <1>3, <1>5, <1>7, <1>8, <1>10, <1>11 DEF Next

\* A new stop has to send its own quit.
LEMMA BeginStopping ==
  ASSUME Known, Stopping, SupBegin
  PROVE  Stopping'
<1>1. rec' = rec /\ At("begin")
  BY DEF SupBegin
<1>2. CASE Begun
  BY <1>1, <1>2 DEF Begun, Stopping, Answered, At, Waking
<1>3. CASE WriteFails /\ Ended("dead")
  <2>1. hist'.sent = hist.sent
    BY <1>3 DEF WriteFails, Die, Known, TypeOK, Histories
  <2> QED BY <1>1, <1>3, <2>1 DEF Ended, Stopping, At, Waking
<1> QED BY <1>2, <1>3, CourseEffects DEF Known

LEMMA StoppingStep ==
  ASSUME Patient, Known, Course, Stopping, [Next]_vars
  PROVE  Stopping'
<1> DEFINE Said == "quit" \in hist.sent => "quit" \in hist'.sent
<1> SUFFICES ASSUME ~SupBegin PROVE Stopping'
  BY BeginStopping
<1>0. Said
  BY SentStays DEF Known
<1>1. CASE SupTransition
  <2>1. CASE Ended("dead") /\ rec' = rec
    BY <1>0, <2>1 DEF Ended, Stopping, At, Waking
  <2>2. CASE /\ With(sup.pc, Tail(sup.todo))
             /\ Accepts(Head(sup.todo)) /\ rec'.state = Head(sup.todo)
             /\ rec'.why = rec.why \/ Head(sup.todo) = "failed"
    <3>1. sup.todo \in TodoOf(sup.pc) /\ sup.todo # <<>>
      BY <1>1 DEF SupTransition, Known, TodoKnown
    <3>2. CASE sup.pc = "begin"
      <4>1. rec'.state = "stopping"
        BY <2>2, <3>1, <3>2, TailOfTodo
      <4> QED BY <1>0, <2>2, <3>2, <4>1 DEF With, Stopping, Answered, At, Waking
    <3>3. CASE sup.pc \in {"events", "timers"}
      <4>1. rec'.state \in {"ready", "active"} /\ rec.state # "stopping"
        BY <2>2, <3>1, <3>3, TailOfTodo DEF Accepts, CanMove
      <4>2. rec'.why = rec.why
        BY <2>2, <4>1
      <4> QED BY <1>0, <2>2, <3>3, <4>1, <4>2 DEF With, Stopping, Answered, At, Waking
    <3>4. CASE sup.pc = "poll"
      BY <1>0, <2>2, <3>1, <3>4 DEF With, Stopping, At, Waking
    <3>5. CASE sup.pc = "reset"
      <4>1. rec'.state = "resetting"
        BY <2>2, <3>1, <3>5, TailOfTodo
      <4> QED BY <1>0, <2>2, <3>5, <4>1 DEF With, Stopping, At, Waking
    <3>6. CASE sup.pc \in {"announce", "clear", "exit"}
      BY <1>0, <2>2, <3>6 DEF With, Stopping, At, Waking
    <3> QED BY <3>1, <3>2, <3>3, <3>4, <3>5, <3>6, TailOfTodo
  <2> QED BY <1>1, <2>1, <2>2, TransitionEffect DEF Known
<1>2. CASE ~SupTransition
  <2>1. sup.pc \in LoopSteps => (rec'.state = rec.state /\ rec'.why = rec.why) \/ rec'.why = "request"
    BY <1>2, LoopRecord
  <2>2. rec'.state = "stopping" => rec.state = "stopping"
    BY <1>2, RecordEffect DEF Known
  <2>3. \A p, q : At(p) /\ p \in LoopSteps /\ With(q, <<>>) /\ q \in LoopSteps \ {"begin"} /\ p # "clear"
                    => Stopping'
    BY <1>0, <2>1 DEF At, With, Stopping, Answered, Waking
  <2>4. sup'.pc = "dead" /\ sup'.phase = sup.phase /\ (sup.stop => sup'.stop) => Stopping'
    BY <1>0 DEF Stopping, At, Waking
  <2>5. SupBoot \/ SupLaunch \/ SupIdentify => Stopping'
    <3>1. SupBoot \/ SupLaunch \/ SupIdentify =>
            /\ sup.pc \in Waking
            /\ \/ Ended("dead") \/ With("setup", <<>>) \/ With("announce", <<"starting">>) \/ With("top", <<>>)
      BY CourseEffects DEF Known, At, Waking
    <3> QED BY <1>0, <2>4, <3>1 DEF With, Ended, Stopping, At, Waking
  <2>6. SupKilled \/ SupExit \/ SupReleaseRefused => Stopping'
    BY <2>4, CourseEffects DEF Known, Ended
  <2>7. SupReset => Stopping'
    BY <1>0, CourseEffects DEF Known, Ended, Stopping, At, Waking
  <2>8. SupTop => Stopping'
    <3> SUFFICES ASSUME SupTop PROVE Stopping'
      OBVIOUS
    <3>1. At("top") /\ rec' = rec /\ rec.state \in Held
      BY DEF SupTop, At, Course, Launched
    <3>2. CASE With("begin", <<"stopping">>) /\ sup.stop
      BY <1>0, <3>1, <3>2 DEF At, With, Stopping, Answered, Waking
    <3>3. CASE /\ With("begin", <<>>) /\ sup.stop
               /\ rec.state \notin {"starting", "ready", "active", "failed"}
      <4>1. rec.state = "stopping"
        BY <3>1, <3>3 DEF Held
      <4> QED BY <1>0, <3>1, <3>3, <4>1 DEF At, With, Stopping, Answered, Waking
    <3>4. CASE With("deadline", <<>>) \/ With("select", <<>>)
      BY <2>3, <3>1, <3>4
    <3> QED BY <3>2, <3>3, <3>4, CourseEffects DEF Known
  <2>9. SupShutdownTimeout \/ SupClear \/ SupExpire => Stopping'
    <3>1. SupShutdownTimeout => Stopping'
      BY <1>0, CourseEffects DEF Known, With, Stopping, At, Waking
    <3>2. SupClear => Stopping'
      BY <1>0, CourseEffects DEF Known, Stopping, At, Waking
    <3>3. SupExpire => Stopping'
      BY <1>0, CourseEffects DEF Known, With, Stopping, At, Waking
    <3> QED BY <3>1, <3>2, <3>3
  <2>10. SupGoOn \/ SupSelect => Stopping'
    BY <2>3, CourseEffects, ConsoleEffects DEF Known
  <2>11. SupPollExited => Stopping'
    <3> SUFFICES ASSUME SupPollExited PROVE Stopping'
      OBVIOUS
    <3>1. At("poll") /\ rec' = rec
      BY DEF SupPollExited
    <3>2. CASE ResetDue /\ With("reset", <<"resetting">>)
      BY <1>0, <3>1, <3>2 DEF ResetDue, With, Stopping, At, Waking
    <3>3. CASE With("exit", <<"failed">>)
      BY <1>0, <3>1, <3>3 DEF With, Stopping, At, Waking
    <3> QED BY <3>2, <3>3, CourseEffects DEF Known
  <2>12. ASSUME NEW p \in {"events", "boundary"}, NEW q \in {"events", "timers"}, At(p), Heeds(q),
                sup'.phase = sup.phase \/ (sup.phase = "monitor" /\ "quit" \in hist'.sent)
         PROVE  Stopping'
    BY <1>0, <2>1, <2>12 DEF Heeds, At, Stopping, Answered, Waking
  <2>13. Ended("dead") => Stopping'
    BY <2>4 DEF Ended
  <2>14. SupConsole \/ SupClient \/ SupBoundary => Stopping'
    BY <2>3, <2>12, <2>13, ConsoleEffects DEF Known
  <2>15. ASSUME NEW c \in Clients, SupAccept(c) \/ SupReject(c) PROVE Stopping'
    <3>1. CASE SupReject(c)
      BY <2>3, <2>13, <3>1, ConsoleEffects DEF Known
    <3>2. CASE SupAccept(c)
      <4>1. /\ At("events") /\ sup'.pc = "events" /\ sup'.stop = sup.stop /\ sup'.phase = sup.phase
        BY <3>2, ConsoleEffects DEF Known
      <4> QED BY <1>0, <2>1, <4>1 DEF Stopping, Answered, At, Waking
    <3> QED BY <2>15, <3>1, <3>2
  <2>16. ASSUME \/ sup' = sup
                \/ /\ sup'.pc = IF sup.pc = "born" THEN "dead" ELSE sup.pc
                   /\ sup'.todo = sup.todo /\ sup'.phase = sup.phase /\ (sup.stop => sup'.stop)
                \/ sup.pc = "none" /\ With("born", <<>>)
                \/ Ended("dead")
         PROVE  Stopping'
    <3>1. CASE sup'.pc = sup.pc /\ sup'.todo = sup.todo /\ sup'.phase = sup.phase /\ (sup.stop => sup'.stop)
      BY <1>0, <2>1, <2>2, <3>1 DEF Stopping, Answered, At, Waking
    <3>2. CASE sup.pc = "none" /\ With("born", <<>>)
      BY <1>0, <3>2 DEF With, Stopping, At, Waking
    <3> QED BY <2>4, <2>13, <2>16, <3>1, <3>2
  <2> QED BY <1>2, <2>5, <2>6, <2>7, <2>8, <2>9, <2>10, <2>11, <2>14, <2>15, <2>16, OtherEffects
          DEF Next, SupStep, Known
<1> QED BY <1>1, <1>2

LEMMA InitialStopping == Init => Stopping
BY DEF Init, Stopping, At, Waking

\* While a stop is being carried out no timer, detach or late readiness moves the record
\* out of STOPPING; only the except clause of a request in flight may.
THEOREM StopIsOnRecord ==
  ASSUME Patient
  PROVE  Spec => []PhaseIsStopping
<1>1. TypeOK /\ Readiness /\ TodoKnown <=> Known
  BY DEF Known
<1>2. Known /\ Course /\ [Next]_vars => Course'
  BY CourseStep
<1>3. Known /\ Course /\ Stopping /\ [Next]_vars => Stopping'
  BY StoppingStep
<1>4. Stopping => PhaseIsStopping
  BY DEF Stopping, Answered, PhaseIsStopping
<1> QED BY <1>1, <1>2, <1>3, <1>4, InitialCourse, InitialTodo, InitialStopping, TodoStep, ReadinessStep,
           TypeCorrect, PTL DEF Spec

\* A stopping session is reset only after quit was sent at the monitor prompt and the
\* emulator was reaped: no exit that nobody asked for resets it.
THEOREM ResetsAreConfirmed ==
  ASSUME Patient
  PROVE  Spec => ResetIsConfirmed
<1>1. ASSUME Known, Course, Stopping, [Next]_vars, rec.state = "stopping", rec'.state = "resetting"
      PROVE  "quit" \in hist.sent /\ emu = "gone"
  <2>1. CASE SupTransition
    <3>1. sup.todo \in TodoOf(sup.pc) /\ sup.todo # <<>>
      BY <1>1, <2>1 DEF SupTransition, Known, TodoKnown
    <3>2. Head(sup.todo) = "resetting"
      BY <1>1, <2>1, TransitionEffect DEF Known
    <3>3. sup.pc = "reset"
      BY <3>1, <3>2, TailOfTodo
    <3> QED BY <1>1, <3>3 DEF Course, Launched, Stopping
  <2>2. CASE ~SupTransition
    <3>1. \A t \in States, why \in Causes : Moved(t, why).state = t
      BY <1>1 DEF Known, TypeOK, Moved, Records
    <3>2. ASSUME NEW r \in Releasers PROVE ~(ReleaseBegin(r) \/ ReleaseNext(r))
      <4>1. lock = None /\ ~Releasable
        BY <1>1 DEF Course, Releasing, Releasable
      <4> QED BY <4>1, <1>1, NoneAssumption
              DEF ReleaseBegin, ReleaseNext, ReleaseRemove, ReleaseDone, ReleaseFail
    <3>3. rec'.state \in {rec.state, "failed"}
      BY <1>1, <2>2, <3>1, <3>2, ReleaseOrNot DEF Known
    <3> QED BY <1>1, <3>3
  <2> QED BY <2>1, <2>2
<1>2. TypeOK /\ Readiness /\ TodoKnown <=> Known
  BY DEF Known
<1>3. Known /\ Course /\ [Next]_vars => Course'
  BY CourseStep
<1>4. Known /\ Course /\ Stopping /\ [Next]_vars => Stopping'
  BY StoppingStep
<1>5. Known /\ Course /\ Stopping /\ [Next]_vars
        => [rec.state = "stopping" /\ rec'.state = "resetting"
              => "quit" \in hist.sent /\ emu = "gone"]_vars
  BY <1>1
<1> QED BY <1>2, <1>3, <1>4, <1>5, InitialCourse, InitialTodo, InitialStopping, TodoStep, ReadinessStep,
           TypeCorrect, PTL DEF Spec, ResetIsConfirmed
==============================================================================
