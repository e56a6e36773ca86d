-------------------------- MODULE BrokerSessionProofs --------------------------
(***************************************************************************)
(* Proofs about one session, whatever its clients, operators, timers and   *)
(* faults do: types, the console and the readiness marker.                 *)
(***************************************************************************)
EXTENDS BrokerSession, SequenceTheorems, TLAPS

USE DEF Releasers, Causes, RequestSteps, SetupSteps, LoopSteps, ExitSteps, SupervisorSteps,
        OperatorSteps, ClientSteps

------------------------------------------------------------------------------
(* Types. *)

LEMMA Todos ==
  /\ <<>> \in Seq(States)
  /\ \A s \in States : <<s>> \in Seq(States)
  /\ \A s, t \in States : <<s, t>> \in Seq(States)
  /\ \A s, t \in Seq(States) : s \o t \in Seq(States)
  /\ \A s \in Seq(States) : s # <<>> => Head(s) \in States /\ Tail(s) \in Seq(States)
<1>1. \A s, t \in Seq(States) : s \o t \in Seq(States)
  BY ConcatProperties
<1>2. \A s \in Seq(States) : s # <<>> => Head(s) \in States /\ Tail(s) \in Seq(States)
  BY HeadTailProperties
<1> QED BY <1>1, <1>2

LEMMA KnownStates ==
  /\ "preparing" \in States /\ "starting" \in States /\ "ready" \in States /\ "active" \in States
  /\ "stopping" \in States /\ "resetting" \in States /\ "released" \in States /\ "failed" \in States
BY DEF States

LEMMA InitialTypes == Init => TypeOK
BY Todos, KnownStates DEF Init, TypeOK, Records, Supervisors, Consoles, NoConsole, Histories

LEMMA MovedType ==
  ASSUME rec \in Records, NEW t \in States, NEW why \in Causes
  PROVE  Moved(t, why) \in Records
BY DEF Moved, Records

LEMMA DeadTypes ==
  ASSUME TypeOK, NEW raised \in BOOLEAN
  PROVE  /\ Dead \in Supervisors
         /\ ClientsDropped \in [Clients -> ClientSteps]
         /\ NoConsole \in Consoles
         /\ [hist EXCEPT !.raised = @ \/ raised] \in Histories
         /\ Signalled \in Supervisors
<1>1. Dead \in Supervisors
  BY Todos DEF TypeOK, Dead, Supervisors
<1>2. ClientsDropped \in [Clients -> ClientSteps]
  BY DEF TypeOK, ClientsDropped
<1>3. NoConsole \in Consoles
  BY DEF Consoles, NoConsole
<1>4. [hist EXCEPT !.raised = @ \/ raised] \in Histories
  BY DEF TypeOK, Histories
<1>5. Signalled \in Supervisors
  BY DEF TypeOK, Signalled, Supervisors
<1> QED BY <1>1, <1>2, <1>3, <1>4, <1>5

LEMMA DieTypes ==
  ASSUME TypeOK, NEW raised \in BOOLEAN, Die(raised)
  PROVE  /\ sup' \in Supervisors /\ client' \in [Clients -> ClientSteps]
         /\ pty' \in Consoles /\ hist' \in Histories
BY DeadTypes DEF Die

LEMMA RequestTypes ==
  ASSUME TypeOK, RequestStep \/ RequestTimeout \/ RequestKilled
  PROVE  TypeOK'
<1>1. rec \in Records /\ sup \in Supervisors
  BY DEF TypeOK
<1>2. [rec EXCEPT !.ws = TRUE] \in Records
  BY <1>1 DEF Records
<1>3. [sup EXCEPT !.pc = "born"] \in Supervisors
  BY <1>1 DEF Supervisors
<1>4. Moved("failed", "request") \in Records
  BY <1>1, MovedType, KnownStates
<1>5. Signalled \in Supervisors
  BY DeadTypes
<1>6. CASE RequestPrepare
  BY <1>6 DEF TypeOK, RequestPrepare
<1>7. CASE RequestSave
  BY <1>2, <1>7 DEF TypeOK, RequestSave
<1>8. CASE RequestSpawn
  BY <1>3, <1>8 DEF TypeOK, RequestSpawn
<1>9. CASE RequestPoll
  BY <1>9 DEF TypeOK, RequestPoll
<1>10. CASE RequestExcept
  BY <1>4, <1>10 DEF TypeOK, RequestExcept
<1>11. CASE RequestTimeout
  BY <1>5, <1>11 DEF TypeOK, RequestTimeout
<1>12. CASE RequestKilled
  BY <1>12 DEF TypeOK, RequestKilled
<1> QED BY <1>6, <1>7, <1>8, <1>9, <1>10, <1>11, <1>12 DEF RequestStep

\* The steps of the supervisor that start, stop or end something.
LEMMA CourseTypes ==
  ASSUME TypeOK,
         \/ SupTransition \/ SupBoot \/ SupLaunch \/ SupIdentify \/ SupKilled
         \/ SupTop \/ SupBegin \/ SupShutdownTimeout \/ SupClear
         \/ SupGoOn \/ SupPollExited \/ SupExit \/ SupReset \/ SupReleaseRefused \/ SupExpire
  PROVE  TypeOK'
<1>1. rec \in Records /\ sup \in Supervisors /\ pty \in Consoles /\ hist \in Histories
  BY DEF TypeOK
<1>2. CASE SupTransition
  <2>1. CASE Accepts(Head(sup.todo))
    <3>1. /\ sup.todo \in Seq(States) /\ sup.todo # <<>> /\ sup.why \in Causes
          /\ rec' \in {rec, Moved(Head(sup.todo), sup.why)}
          /\ sup' = [sup EXCEPT !.todo = Tail(sup.todo)]
          /\ UNCHANGED <<client, pty, hist, disk, lock, stage, req, emu, op>>
      BY <1>1, <1>2, <2>1 DEF SupTransition, Supervisors
    <3>2. Head(sup.todo) \in States /\ Tail(sup.todo) \in Seq(States)
      BY <3>1, Todos
    <3>3. rec' \in Records
      BY <1>1, <3>1, <3>2, MovedType
    <3>4. sup' \in Supervisors
      BY <1>1, <3>1, <3>2 DEF Supervisors
    <3> QED BY <3>1, <3>3, <3>4 DEF TypeOK
  <2>2. CASE ~Accepts(Head(sup.todo))
    BY <1>2, <2>2, DieTypes DEF TypeOK, SupTransition
  <2> QED BY <2>1, <2>2
<1>3. CASE SupBoot
  <2>1. rec' \in Records
    BY <1>1, <1>3 DEF SupBoot, Records
  <2>2. sup' \in Supervisors
    BY <1>1, <1>3 DEF SupBoot, Supervisors
  <2> QED BY <1>3, <2>1, <2>2 DEF TypeOK, SupBoot
<1>4. CASE SupLaunch
  <2>1. [sup EXCEPT !.pc = "announce", !.todo = <<"starting">>] \in Supervisors
    BY <1>1, Todos, KnownStates DEF Supervisors
  <2> QED BY <1>4, <2>1, DieTypes, ZenonT(40) DEF TypeOK, SupLaunch
<1>5. CASE SupIdentify
  <2>1. rec' \in Records
    BY <1>1, <1>5 DEF SupIdentify, Records
  <2>2. sup' \in Supervisors
    BY <1>1, <1>5 DEF SupIdentify, Supervisors
  <2> QED BY <1>5, <2>1, <2>2 DEF TypeOK, SupIdentify
<1>6. CASE SupKilled
  BY <1>6, DieTypes DEF TypeOK, SupKilled
<1>7. CASE SupTop
  <2>1. sup' \in Supervisors
    BY <1>1, <1>7, Todos, KnownStates, ZenonT(40) DEF SupTop, Supervisors
  <2> QED BY <1>7, <2>1 DEF TypeOK, SupTop
<1>8. CASE SupBegin
  <2>1. CASE Die(TRUE)
    BY <1>8, <2>1, DieTypes, ZenonT(40) DEF TypeOK, SupBegin
  <2>2. CASE ~WriteFails
    <3> DEFINE live == MonitorProfile /\ sup.prompt
               phase == IF live THEN "exit" ELSE "monitor"
               keys == IF live THEN {"quit"} ELSE {"enter"}
    <3>1. /\ sup' = [sup EXCEPT !.pc = "deadline", !.timed = TRUE, !.phase = phase]
          /\ Send(keys)
          /\ UNCHANGED <<rec, disk, lock, stage, req, emu, client, op>>
      BY <1>8, <2>2 DEF SupBegin
    <3>2. phase \in {"none", "monitor", "exit"} /\ "deadline" \in SupervisorSteps
          /\ keys \in SUBSET {"enter", "quit"}
      BY DEF SupervisorSteps, LoopSteps
    <3> HIDE DEF live, phase, keys
    <3>3. sup' \in Supervisors
      BY <1>1, <3>1, <3>2 DEF Supervisors
    <3>4. pty' \in Consoles
      BY <1>1, <3>1, <3>2 DEF Send, Consoles
    <3>5. hist' \in Histories
      BY <1>1, <3>1, <3>2 DEF Send, Histories
    <3> QED BY <3>1, <3>3, <3>4, <3>5 DEF TypeOK
  <2> QED BY <2>1, <2>2 DEF WriteFails
<1>9. CASE SupShutdownTimeout
  <2>1. sup' \in Supervisors
    BY <1>1, <1>9, Todos, KnownStates DEF SupShutdownTimeout, TimedOut, Supervisors
  <2> QED BY <1>9, <2>1 DEF TypeOK, SupShutdownTimeout
<1>10. CASE SupClear
  <2>1. sup' \in Supervisors
    BY <1>1, <1>10 DEF SupClear, Supervisors
  <2> QED BY <1>10, <2>1 DEF TypeOK, SupClear
<1>11. CASE SupGoOn
  <2>1. sup' \in Supervisors
    BY <1>1, <1>11 DEF SupGoOn, Supervisors
  <2> QED BY <1>11, <2>1 DEF TypeOK, SupGoOn
<1>12. CASE SupPollExited
  <2>1. sup' \in Supervisors
    BY <1>1, <1>12, Todos, KnownStates, ZenonT(40) DEF SupPollExited, Supervisors
  <2> QED BY <1>12, <2>1 DEF TypeOK, SupPollExited
<1>13. CASE SupExit
  BY <1>13, DieTypes, ZenonT(40) DEF TypeOK, SupExit
<1>14. CASE SupReset
  <2>1. Dead \in Supervisors /\ ClientsDropped \in [Clients -> ClientSteps] /\ pty' \in Consoles
    BY <1>14, DeadTypes DEF SupReset
  <2>2. sup' \in Supervisors
    BY <1>14, <2>1 DEF SupReset, Supervisors
  <2> QED BY <1>14, <2>1, <2>2 DEF TypeOK, SupReset
<1>15. CASE SupReleaseRefused
  BY <1>15, DieTypes DEF TypeOK, SupReleaseRefused
<1>16. CASE SupExpire
  <2>1. sup' \in Supervisors
    BY <1>1, <1>16, Todos, KnownStates, ZenonT(40) DEF SupExpire, Expired, Supervisors
  <2> QED BY <1>16, <2>1 DEF TypeOK, SupExpire
<1> QED BY <1>2, <1>3, <1>4, <1>5, <1>6, <1>7, <1>8, <1>9, <1>10, <1>11, <1>12, <1>13, <1>14, <1>15, <1>16

LEMMA RelayTypes ==
  ASSUME TypeOK, NEW fails \in BOOLEAN
  PROVE  /\ Detached \in [Clients -> ClientSteps] /\ Relayed(fails) \in [Clients -> ClientSteps]
         /\ DetachTodo \in Seq(States)
<1>1. Detached \in [Clients -> ClientSteps]
  BY DEF TypeOK, Detached
<1>2. DetachTodo \in Seq(States)
  BY Todos, KnownStates DEF DetachTodo
<1> QED BY <1>1, <1>2 DEF Relayed, TypeOK

LEMMA HeardType ==
  ASSUME TypeOK, NEW s \in Supervisors, NEW marker \in BOOLEAN, NEW fails \in BOOLEAN
  PROVE  Heard(s, marker, fails) \in Supervisors
<1> DEFINE todo == (IF fails THEN DetachTodo ELSE <<>>)
                   \o (IF ~(marker /\ ~s.ready) THEN <<>>
                       ELSE IF sup.attached # None /\ ~fails THEN <<"ready", "active">> ELSE <<"ready">>)
<1>1. todo \in Seq(States)
  <2>1. (IF fails THEN DetachTodo ELSE <<>>) \in Seq(States)
    BY RelayTypes, Todos
  <2>2. (IF ~(marker /\ ~s.ready) THEN <<>>
         ELSE IF sup.attached # None /\ ~fails THEN <<"ready", "active">> ELSE <<"ready">>) \in Seq(States)
    BY Todos, KnownStates
  <2> QED BY <2>1, <2>2, Todos
<1> HIDE DEF todo
<1>2. Heard(s, marker, fails) = [s EXCEPT !.attached = IF fails THEN None ELSE @,
                                          !.ready = @ \/ marker, !.todo = todo]
  BY DEF Heard, todo
<1> QED BY <1>1, <1>2, ZenonT(40) DEF Supervisors

\* What a read of the console leaves.
LEMMA ReadTypes ==
  ASSUME pty \in Consoles, NEW read
  PROVE  /\ AfterRead(read) \in Consoles
         /\ AfterRead(read).out = pty.out \ read /\ AfterRead(read).flood = FALSE
         /\ AfterRead(read).keys = pty.keys
         /\ \A keys \in SUBSET {"enter", "quit", "typed"} :
              [AfterRead(read) EXCEPT !.keys = @ \cup keys] \in Consoles
BY DEF AfterRead, Consoles

\* The readiness deadline is over.
LEMMA OverType ==
  ASSUME NEW s \in Supervisors
  PROVE  [s EXCEPT !.pc = "timers", !.readiness = "expired"] \in Supervisors
<1> DEFINE t == [s EXCEPT !.pc = "timers"]
           u == [t EXCEPT !.readiness = "expired"]
<1>1. t \in Supervisors
  BY DEF Supervisors
<1>2. [s EXCEPT !.pc = "timers", !.readiness = "expired"] = u
  BY DEF Supervisors
<1> HIDE DEF t
<1>3. u \in Supervisors
  BY <1>1 DEF Supervisors
<1> QED BY <1>2, <1>3

LEMMA RelayMayFail == RelayFailures \subseteq BOOLEAN
BY DEF RelayFailures

LEMMA HandledType ==
  ASSUME sup \in Supervisors, NEW event
  PROVE  Handled(event) \in Supervisors
<1>1. sup.events \ {event} \in SUBSET {"listener", "console", "client"}
  BY DEF Supervisors
<1> QED BY <1>1 DEF Handled, Supervisors

\* The steps of the supervisor at the console and with its clients.
LEMMA ConsoleTypes ==
  ASSUME TypeOK,
         \/ SupSelect \/ SupConsole \/ SupClient \/ SupBoundary
         \/ \E c \in Clients : SupAccept(c) \/ SupReject(c)
  PROVE  TypeOK'
<1>1. rec \in Records /\ sup \in Supervisors /\ pty \in Consoles /\ hist \in Histories
      /\ client \in [Clients -> ClientSteps]
  BY DEF TypeOK
<1>2. CASE SupSelect
  <2> DEFINE ready == (IF Queued # {} THEN {"listener"} ELSE {})
                      \cup (IF HasOutput THEN {"console"} ELSE {})
                      \cup (IF sup.attached # None /\ client[sup.attached] \in {"typed", "closed"}
                              THEN {"client"} ELSE {})
             next == IF ready = {} THEN "boundary" ELSE "events"
  <2>1. ready \in SUBSET {"listener", "console", "client"} /\ next \in {"boundary", "events"}
    OBVIOUS
  <2>2. sup' = [sup EXCEPT !.events = ready, !.pc = next]
    BY <1>2 DEF SupSelect
  <2> HIDE DEF ready, next
  <2>3. sup' \in Supervisors
    BY <1>1, <2>1, <2>2 DEF Supervisors
  <2> QED BY <1>2, <2>3 DEF TypeOK, SupSelect
<1>3. CASE SupConsole
  <2>1. CASE Die(TRUE)
    BY <1>3, <2>1, DieTypes, ZenonT(40) DEF TypeOK, SupConsole
  <2>2. CASE ConsoleRead
    <3> DEFINE s == [Handled("console") EXCEPT !.phase = IF Confirmed THEN "exit" ELSE @,
                                               !.prompt = @ \/ Evidence]
               quit == IF Confirmed THEN {"quit"} ELSE {}
    <3>1. s \in Supervisors
      <4> DEFINE h == Handled("console")
                 phase == IF Confirmed THEN "exit" ELSE h.phase
                 prompt == h.prompt \/ Evidence
      <4>1. h \in Supervisors
        BY <1>1, HandledType
      <4>2. s = [h EXCEPT !.phase = phase, !.prompt = prompt]
        OBVIOUS
      <4> HIDE DEF h, s
      <4>3. phase \in {"none", "monitor", "exit"} /\ prompt \in BOOLEAN
        BY <4>1 DEF Supervisors
      <4> HIDE DEF phase, prompt
      <4> QED BY <4>1, <4>2, <4>3, ZenonT(40) DEF Supervisors
    <3> HIDE DEF s
    <3>2. PICK fails \in RelayFailures :
            sup' = Heard(s, "marker" \in FirstRead, fails) /\ client' = Relayed(fails)
      BY <2>2 DEF ConsoleRead, s
    <3>3. fails \in BOOLEAN /\ ("marker" \in FirstRead) \in BOOLEAN
      BY RelayMayFail
    <3>4. sup' \in Supervisors
      BY <3>1, <3>2, <3>3, HeardType
    <3>5. client' \in [Clients -> ClientSteps]
      BY <3>2, <3>3, RelayTypes
    <3>6. pty' = [AfterRead(FirstRead) EXCEPT !.keys = @ \cup quit]
          /\ hist' = [hist EXCEPT !.sent = @ \cup quit, !.first = @ \/ InTime(AfterRead(FirstRead))]
      BY <2>2 DEF ConsoleRead
    <3>7. quit \in SUBSET {"enter", "quit"} /\ quit \in SUBSET {"enter", "quit", "typed"}
      OBVIOUS
    <3> HIDE DEF quit
    <3>8. pty' \in Consoles
      BY <1>1, <3>6, <3>7, ReadTypes
    <3>9. hist' \in Histories
      <4>1. InTime(AfterRead(FirstRead)) \in BOOLEAN
        BY DEF InTime
      <4> QED BY <1>1, <3>6, <3>7, <4>1 DEF Histories
    <3> QED BY <1>3, <3>4, <3>5, <3>8, <3>9 DEF TypeOK, SupConsole
  <2> QED BY <1>3, <2>1, <2>2 DEF SupConsole, WriteFails
<1>4. CASE SupClient
  <2>1. CASE Die(TRUE)
    BY <1>4, <2>1, DieTypes, ZenonT(40) DEF TypeOK, SupClient
  <2>2. CASE ClientTyped
    <3>1. sup' \in Supervisors
      <4>1. sup' = [Handled("client") EXCEPT !.prompt = FALSE]
        BY <2>2 DEF ClientTyped
      <4> QED BY <1>1, <4>1, HandledType, ZenonT(40) DEF Supervisors
    <3>2. pty' \in Consoles
      BY <1>1, <2>2 DEF ClientTyped, Consoles
    <3>3. client' \in [Clients -> ClientSteps]
      BY <1>1, <2>2 DEF ClientTyped
    <3> QED BY <1>4, <2>2, <3>1, <3>2, <3>3 DEF TypeOK, SupClient, ClientTyped
  <2>3. CASE ClientGone
    <3>1. PICK before \in BOOLEAN :
            /\ pty' = [pty EXCEPT !.keys = IF before THEN @ \cup {"typed"} ELSE @]
            /\ sup' = [Handled("client") EXCEPT !.attached = None, !.todo = DetachTodo,
                                                !.prompt = @ /\ ~before]
      BY <2>3 DEF ClientGone
    <3>2. sup' \in Supervisors
      BY <1>1, <3>1, RelayTypes, ZenonT(40) DEF Handled, Supervisors
    <3>3. pty' \in Consoles
      BY <1>1, <3>1 DEF Consoles
    <3>4. client' \in [Clients -> ClientSteps]
      BY <2>3, RelayTypes DEF ClientGone
    <3> QED BY <1>4, <2>3, <3>2, <3>3, <3>4 DEF TypeOK, SupClient, ClientGone
  <2> QED BY <1>4, <2>1, <2>2, <2>3 DEF SupClient, WriteFails
<1>5. CASE SupBoundary
  <2>1. CASE UNCHANGED <<pty, client>>
    <3>1. sup' = [sup EXCEPT !.pc = "timers"] => sup' \in Supervisors
      BY <1>1 DEF Supervisors
    <3>2. sup' = [sup EXCEPT !.pc = "timers", !.readiness = "expired"] => sup' \in Supervisors
      BY <1>1, OverType
    <3>3. ASSUME NEW fails \in BOOLEAN,
                 sup' = [Heard(sup, "marker" \in BoundaryRead, fails)
                           EXCEPT !.pc = "timers", !.readiness = "expired"]
          PROVE  sup' \in Supervisors
      <4> DEFINE s == Heard(sup, "marker" \in BoundaryRead, fails)
      <4>1. s \in Supervisors
        <5>1. ("marker" \in BoundaryRead) \in BOOLEAN
          OBVIOUS
        <5> QED BY <1>1, <5>1, HeardType
      <4> HIDE DEF s
      <4>2. sup' = [s EXCEPT !.pc = "timers", !.readiness = "expired"]
        BY <3>3 DEF s
      <4> QED BY <4>1, <4>2, OverType
    <3>4. \/ sup' = [sup EXCEPT !.pc = "timers"]
          \/ sup' = [sup EXCEPT !.pc = "timers", !.readiness = "expired"]
          \/ \E fails \in BOOLEAN : sup' = [Heard(sup, "marker" \in BoundaryRead, fails)
                                            EXCEPT !.pc = "timers", !.readiness = "expired"]
      BY <1>5, RelayMayFail DEF SupBoundary
    <3>5. sup' \in Supervisors
      BY <3>1, <3>2, <3>3, <3>4
    <3>6. UNCHANGED <<rec, disk, lock, stage, req, emu, op, hist>>
      BY <1>5 DEF SupBoundary
    <3> QED BY <2>1, <3>5, <3>6 DEF TypeOK
  <2>2. ASSUME NEW fails \in RelayFailures,
               sup' = [Heard(sup, "marker" \in BoundaryRead, fails)
                         EXCEPT !.pc = "timers", !.readiness = "expired"],
               pty' = AfterRead(BoundaryRead), client' = Relayed(fails)
        PROVE  TypeOK'
    <3> DEFINE s == Heard(sup, "marker" \in BoundaryRead, fails)
    <3>1. fails \in BOOLEAN /\ ("marker" \in BoundaryRead) \in BOOLEAN
      BY RelayMayFail
    <3>2. s \in Supervisors
      BY <1>1, <3>1, HeardType
    <3> HIDE DEF s
    <3>3. sup' = [s EXCEPT !.pc = "timers", !.readiness = "expired"]
      BY <2>2 DEF s
    <3>4. sup' \in Supervisors
      BY <3>2, <3>3, OverType
    <3>5. pty' \in Consoles
      BY <1>1, <2>2, ReadTypes
    <3>6. client' \in [Clients -> ClientSteps]
      BY <2>2, <3>1, RelayTypes
    <3> QED BY <1>5, <3>4, <3>5, <3>6 DEF TypeOK, SupBoundary
  <2> QED BY <1>5, <2>1, <2>2 DEF SupBoundary
<1>6. ASSUME NEW c \in Clients, SupAccept(c) PROVE TypeOK'
  <2>1. sup' \in Supervisors
    BY <1>1, <1>6, Todos, KnownStates, ZenonT(40) DEF SupAccept, Handled, Supervisors
  <2>2. client' \in [Clients -> ClientSteps]
    BY <1>1, <1>6 DEF SupAccept
  <2> QED BY <1>6, <2>1, <2>2 DEF TypeOK, SupAccept
<1>7. ASSUME NEW c \in Clients, SupReject(c) PROVE TypeOK'
  <2>1. CASE client[c] = "queued"
    <3>1. sup' \in Supervisors
      BY <1>1, <1>7, <2>1 DEF SupReject, Handled, Supervisors
    <3> QED BY <1>7, <2>1, <3>1 DEF TypeOK, SupReject
  <2>2. CASE client[c] # "queued"
    BY <1>7, <2>2, DieTypes, ZenonT(40) DEF TypeOK, SupReject
  <2> QED BY <2>1, <2>2
<1> QED BY <1>2, <1>3, <1>4, <1>5, <1>6, <1>7

LEMMA ReleaseTypes ==
  ASSUME TypeOK, NEW r \in Releasers, ReleaseBegin(r) \/ ReleaseNext(r)
  PROVE  TypeOK'
<1>1. rec \in Records /\ Moved("resetting", "none") \in Records /\ Moved("released", "none") \in Records
      /\ Moved("failed", "golden") \in Records /\ Moved("failed", "removal") \in Records
  BY MovedType, KnownStates DEF TypeOK
<1>2. ReleaseEnds(r) =>
        /\ sup' \in Supervisors /\ client' \in [Clients -> ClientSteps] /\ pty' \in Consoles
        /\ hist' \in Histories /\ op' \in [Operators -> OperatorSteps]
        /\ lock' = None /\ stage' = "none"
  BY DieTypes DEF ReleaseEnds, TypeOK
<1>3. CASE ReleaseBegin(r)
  BY <1>1, <1>3 DEF TypeOK, ReleaseBegin
<1>4. CASE ReleaseRemove(r)
  BY <1>4 DEF TypeOK, ReleaseRemove
<1>5. CASE ReleaseDone(r)
  BY <1>1, <1>2, <1>5 DEF TypeOK, ReleaseDone
<1>6. CASE ReleaseFail(r)
  BY <1>1, <1>2, <1>6 DEF TypeOK, ReleaseFail
<1> QED BY <1>3, <1>4, <1>5, <1>6 DEF ReleaseNext

LEMMA OperatorTypes ==
  ASSUME TypeOK, NEW o \in Operators, OperatorStep(o) \/ OperatorKilled(o)
  PROVE  TypeOK'
<1>1. ASSUME NEW recovery \in BOOLEAN, StopRequest(o, recovery) PROVE TypeOK'
  BY <1>1 DEF TypeOK, StopRequest
<1>2. CASE StopVerify(o)
  BY <1>2 DEF TypeOK, StopVerify
<1>3. CASE StopWrite(o)
  <2>1. hist' \in Histories
    BY <1>3, ZenonT(40) DEF TypeOK, StopWrite, Histories
  <2> QED BY <1>3, <2>1 DEF TypeOK, StopWrite
<1>4. CASE StopSignal(o)
  <2>1. sup' \in Supervisors
    BY <1>4, DeadTypes DEF TypeOK, StopSignal
  <2>2. op' \in [Operators -> OperatorSteps]
    BY <1>4 DEF TypeOK, StopSignal
  <2> QED BY <1>4, <2>1, <2>2 DEF TypeOK, StopSignal
<1>5. CASE OperatorKilled(o)
  BY <1>5 DEF TypeOK, OperatorKilled
<1> QED BY <1>1, <1>2, <1>3, <1>4, <1>5, ReleaseTypes DEF OperatorStep

LEMMA OutsideTypes ==
  ASSUME TypeOK, EmuStep \/ Reconcile \/ \E c \in Clients : ClientStep(c)
  PROVE  TypeOK'
<1>1. CASE Reconcile
  BY <1>1, MovedType, KnownStates DEF TypeOK, Reconcile
<1>2. ASSUME NEW c \in Clients, ClientStep(c) PROVE TypeOK'
  BY <1>2 DEF TypeOK, ClientStep, AttachCheck, AttachConnect, AttachType, AttachClose
<1>3. CASE EmuMarker
  <2>1. pty' \in Consoles
    BY <1>3 DEF EmuMarker, Output, TypeOK, Consoles
  <2>2. hist' \in Histories
    <3>1. InTime(pty') \in BOOLEAN
      BY DEF InTime
    <3> QED BY <1>3, <3>1 DEF EmuMarker, TypeOK, Histories
  <2> QED BY <1>3, <2>1, <2>2 DEF TypeOK, EmuMarker
<1>4. CASE EmuHalt
  <2>1. pty' \in Consoles
    BY <1>4 DEF EmuHalt, Output, TypeOK, Consoles
  <2> QED BY <1>4, <2>1 DEF TypeOK, EmuHalt
<1>5. ASSUME NEW key \in pty.keys, EmuRead(key) PROVE TypeOK'
  <2>1. PICK next \in {"guest", "monitor", "zombie"} :
          /\ emu' = next
          /\ pty' = [pty EXCEPT !.keys = @ \ {key},
                                !.out = @ \cup (IF next = "monitor" THEN {"prompt"} ELSE {})]
    BY <1>5 DEF EmuRead
  <2>2. pty' \in Consoles
    BY <2>1 DEF TypeOK, Consoles
  <2> QED BY <1>5, <2>1, <2>2 DEF TypeOK, EmuRead
<1>6. CASE EmuExit \/ EmuReaped
  BY <1>6 DEF TypeOK, EmuExit, EmuReaped
<1>7. CASE EmuFlood
  <2>1. pty' \in Consoles
    BY <1>7 DEF EmuFlood, TypeOK, Consoles
  <2> QED BY <1>7, <2>1 DEF TypeOK, EmuFlood
<1> QED BY <1>1, <1>2, <1>3, <1>4, <1>5, <1>6, <1>7 DEF EmuStep

LEMMA SupTypes == TypeOK /\ (SupStep \/ SupKilled) => TypeOK'
<1>1. Self \in Releasers
  OBVIOUS
<1> QED BY <1>1, CourseTypes, ConsoleTypes, ReleaseTypes DEF SupStep

LEMMA TypeStep == TypeOK /\ [Next]_vars => TypeOK'
<1>1. TypeOK /\ UNCHANGED vars => TypeOK'
  BY DEF TypeOK, vars
<1> QED BY <1>1, RequestTypes, SupTypes, OutsideTypes, OperatorTypes DEF Next

\* Every variable keeps its type, whatever the processes and the environment do.
THEOREM TypeCorrect == Spec => []TypeOK
BY InitialTypes, TypeStep, PTL DEF Spec

------------------------------------------------------------------------------
(* The record only moves along its edges. *)

\* Only a transition of the supervisor or a release moves the record anywhere but to FAILED.
LEMMA ReleaseOrNot ==
  ASSUME TypeOK, [Next]_vars
  PROVE  \/ rec'.state \in {rec.state, "failed"} \/ SupTransition
         \/ \E r \in Releasers : ReleaseBegin(r) \/ ReleaseNext(r)
<1>1. \A t \in States, why \in Causes : Moved(t, why).state = t
  BY DEF Moved, TypeOK, Records
<1>2. RequestExcept \/ Reconcile => rec'.state = rec.state \/ rec'.state = "failed"
  BY <1>1, KnownStates DEF RequestExcept, Reconcile
<1>3. RequestSave \/ SupBoot \/ SupIdentify => rec'.state = rec.state
  BY DEF RequestSave, SupBoot, SupIdentify, TypeOK, Records
<1>4. UNCHANGED vars \/ EmuStep \/ (\E c \in Clients : ClientStep(c)) => rec' = rec
  BY DEF vars, EmuStep, EmuFlood, EmuMarker, EmuHalt, EmuRead, EmuExit, EmuReaped, ClientStep,
         AttachCheck, AttachConnect, AttachType, AttachClose
<1>5. RequestStep \/ RequestTimeout \/ RequestKilled => rec'.state = rec.state \/ RequestExcept
  BY <1>3 DEF RequestStep, RequestPrepare, RequestSpawn, RequestPoll, RequestTimeout, RequestKilled
<1>6. SupStep \/ SupKilled =>
        rec'.state = rec.state \/ SupTransition \/ ReleaseBegin(Self) \/ ReleaseNext(Self)
  BY <1>3 DEF SupStep, SupKilled, SupLaunch, SupTop, SupBegin, SupShutdownTimeout, SupClear, SupSelect,
              SupConsole, SupClient, SupAccept, SupReject, SupBoundary, SupExpire, SupGoOn,
              SupPollExited, SupExit, SupReset, SupReleaseRefused
<1>7. \A o \in Operators : OperatorStep(o) \/ OperatorKilled(o) =>
        rec'.state = rec.state \/ ReleaseBegin(o) \/ ReleaseNext(o)
  BY DEF OperatorStep, OperatorKilled, StopRequest, StopVerify, StopWrite, StopSignal
<1>8. Self \in Releasers
  OBVIOUS
<1> QED BY <1>2, <1>4, <1>5, <1>6, <1>7, <1>8 DEF Next

LEMMA RecordEffect ==
  ASSUME TypeOK, [Next]_vars
  PROVE  \/ rec'.state = rec.state \/ SupTransition
         \/ rec'.state \in {"failed", "resetting", "released"}
<1>1. \A t \in States, why \in Causes : Moved(t, why).state = t
  BY DEF Moved, TypeOK, Records
<1>2. ASSUME NEW r \in Releasers, ReleaseBegin(r) \/ ReleaseNext(r)
      PROVE  rec'.state = rec.state \/ rec'.state \in {"failed", "resetting", "released"}
  BY <1>1, <1>2, KnownStates DEF ReleaseNext, ReleaseBegin, ReleaseRemove, ReleaseDone, ReleaseFail
<1> QED BY <1>2, ReleaseOrNot

\* A session that has failed is never attachable again: another process's failure is not
\* overwritten by the supervisor that was starting meanwhile.
THEOREM FailuresStay == Spec => FailureIsNotOverwritten
<1>1. TypeOK /\ [Next]_vars =>
        [rec.state \in {"failed", "resetting", "released"}
           => rec'.state \notin {"starting", "ready", "active"}]_vars
  <2> SUFFICES ASSUME TypeOK, [Next]_vars, rec.state \in {"failed", "resetting", "released"}
               PROVE  rec'.state \notin {"starting", "ready", "active"}
    OBVIOUS
  <2>1. \A t \in States, why \in Causes : Moved(t, why).state = t
    BY DEF Moved, TypeOK, Records
  <2>2. CASE rec'.state = rec.state \/ rec'.state \in {"failed", "resetting", "released"}
    BY <2>2
  <2>3. CASE SupTransition
    <3>1. CASE Accepts(Head(sup.todo))
      <4>1. sup.todo \in Seq(States) /\ sup.todo # <<>> /\ sup.why \in Causes
        BY <2>3 DEF SupTransition, TypeOK, Supervisors
      <4>2. Head(sup.todo) \in States
        BY <4>1, Todos
      <4>3. rec' = IF rec.state = Head(sup.todo) THEN rec ELSE Moved(Head(sup.todo), sup.why)
        BY <2>3, <3>1 DEF SupTransition
      <4>4. rec'.state = Head(sup.todo)
        BY <2>1, <4>1, <4>2, <4>3
      <4> QED BY <3>1, <4>4 DEF Accepts, CanMove
    <3>2. CASE ~Accepts(Head(sup.todo))
      BY <2>3, <3>2 DEF SupTransition
    <3> QED BY <3>1, <3>2
  <2> QED BY <2>2, <2>3, RecordEffect
<1> QED BY <1>1, TypeCorrect, PTL DEF Spec, FailureIsNotOverwritten

------------------------------------------------------------------------------
(* One console. *)

LEMMA DropKeepsConsole ==
  ASSUME client' = ClientsDropped
  PROVE  OneConsole'
BY DEF ClientsDropped, OneConsole

\* A step that lets go of the attached client closes its connection.
LEMMA DetachKeepsConsole ==
  ASSUME TypeOK, OneConsole,
         \/ client' = Detached /\ sup'.attached = None
         \/ \E fails \in BOOLEAN :
              client' = Relayed(fails) /\ sup'.attached = IF fails THEN None ELSE sup.attached
         \/ client' = client /\ sup'.attached = sup.attached
  PROVE  OneConsole'
<1>1. client \in [Clients -> ClientSteps]
  BY DEF TypeOK
<1>2. CASE client' = Detached /\ sup'.attached = None
  BY <1>1, <1>2 DEF Detached, OneConsole
<1>3. CASE client' = client /\ sup'.attached = sup.attached
  BY <1>3 DEF OneConsole
<1> QED BY <1>2, <1>3 DEF Relayed

\* What output does to the supervisor that hears it.
Hears(s, marker, fails) ==
  /\ s.pc = sup.pc /\ s.stop = sup.stop /\ s.why = sup.why /\ s.readiness = sup.readiness
  /\ s.attached = IF fails THEN None ELSE sup.attached
  /\ s.ready = (sup.ready \/ marker)
  /\ s.todo = Heard(sup, marker, fails).todo

LEMMA HeardFields ==
  ASSUME TypeOK, NEW s \in Supervisors, NEW marker, NEW fails,
         s.pc = sup.pc, s.stop = sup.stop, s.why = sup.why, s.readiness = sup.readiness,
         s.attached = sup.attached, s.ready = sup.ready
  PROVE  /\ Hears(Heard(s, marker, fails), marker, fails)
         /\ Heard(s, marker, fails).phase = s.phase
<1>1. sup \in Supervisors
  BY DEF TypeOK
<1> DEFINE todo(t) == (IF fails THEN DetachTodo ELSE <<>>)
                      \o (IF ~(marker /\ ~t.ready) THEN <<>>
                          ELSE IF sup.attached # None /\ ~fails THEN <<"ready", "active">> ELSE <<"ready">>)
<1>2. \A t \in Supervisors : Heard(t, marker, fails).todo = todo(t)
  BY DEF Heard, Supervisors
<1>3. todo(s) = todo(sup)
  OBVIOUS
<1> HIDE DEF todo
<1>4. Heard(s, marker, fails).todo = Heard(sup, marker, fails).todo
  BY <1>1, <1>2, <1>3
<1>5. LET h == Heard(s, marker, fails)
      IN /\ h.pc = s.pc /\ h.stop = s.stop /\ h.why = s.why /\ h.readiness = s.readiness
         /\ h.attached = (IF fails THEN None ELSE s.attached) /\ h.ready = (s.ready \/ marker)
         /\ h.phase = s.phase
  BY DEF Heard, Supervisors
<1> QED BY <1>4, <1>5 DEF Hears

LEMMA ConsoleReadEffect ==
  ASSUME TypeOK, ConsoleRead
  PROVE  \E fails \in BOOLEAN :
           /\ client' = Relayed(fails)
           /\ Hears(sup', "marker" \in FirstRead, fails)
           /\ sup'.phase = IF Confirmed THEN "exit" ELSE sup.phase
           /\ fails \in RelayFailures
<1>1. sup \in Supervisors
  BY DEF TypeOK
<1> DEFINE s == [Handled("console") EXCEPT !.phase = IF Confirmed THEN "exit" ELSE @,
                                           !.prompt = @ \/ Evidence]
<1>2. PICK fails \in RelayFailures :
        sup' = Heard(s, "marker" \in FirstRead, fails) /\ client' = Relayed(fails)
  BY DEF ConsoleRead
<1>3. /\ s.pc = sup.pc /\ s.stop = sup.stop /\ s.why = sup.why /\ s.readiness = sup.readiness
      /\ s.attached = sup.attached /\ s.ready = sup.ready
      /\ s.phase = IF Confirmed THEN "exit" ELSE sup.phase
  BY <1>1 DEF Handled, Supervisors
<1>4. s \in Supervisors
  <2> DEFINE h == Handled("console")
             phase == IF Confirmed THEN "exit" ELSE h.phase
             prompt == h.prompt \/ Evidence
  <2>1. h \in Supervisors
    BY <1>1, HandledType
  <2>2. s = [h EXCEPT !.phase = phase, !.prompt = prompt]
    OBVIOUS
  <2> HIDE DEF h, s
  <2>3. phase \in {"none", "monitor", "exit"} /\ prompt \in BOOLEAN
    BY <2>1 DEF Supervisors
  <2> HIDE DEF phase, prompt
  <2> QED BY <2>1, <2>2, <2>3, ZenonT(40) DEF Supervisors
<1> HIDE DEF s
<1>5. fails \in BOOLEAN
  BY RelayMayFail
<1> QED BY <1>2, <1>3, <1>4, <1>5, HeardFields

\* What the read at the readiness deadline does.
BoundaryHears(fails) ==
  /\ client' = Relayed(fails) /\ pty' = AfterRead(BoundaryRead)
  /\ sup'.pc = "timers" /\ sup'.readiness = "expired"
  /\ sup'.stop = sup.stop /\ sup'.why = sup.why /\ sup'.phase = sup.phase
  /\ sup'.attached = IF fails THEN None ELSE sup.attached
  /\ sup'.ready = (sup.ready \/ "marker" \in BoundaryRead)
  /\ sup'.todo = Heard(sup, "marker" \in BoundaryRead, fails).todo

\* Nothing was read: the deadline is over, or was not looked at.
BoundaryHearsNothing ==
  /\ UNCHANGED <<pty, client>>
  /\ sup'.pc = "timers" /\ sup'.todo = <<>> /\ sup'.attached = sup.attached
  /\ sup'.stop = sup.stop /\ sup'.why = sup.why /\ sup'.phase = sup.phase /\ sup'.ready = sup.ready
  /\ \/ sup'.readiness = sup.readiness /\ (sup.ready \/ sup.readiness # "expired")
     \/ sup'.readiness = "expired" /\ ~HasOutput

LEMMA BoundaryEffect ==
  ASSUME TypeOK, SupBoundary
  PROVE  BoundaryHearsNothing \/ \E fails \in RelayFailures : BoundaryHears(fails)
<1>1. sup \in Supervisors /\ sup.todo = <<>>
  BY DEF TypeOK, SupBoundary, At
<1>2. CASE UNCHANGED <<pty, client>> /\ sup' = [sup EXCEPT !.pc = "timers"]
           /\ (sup.ready \/ sup.readiness # "expired")
  BY <1>1, <1>2 DEF BoundaryHearsNothing, Supervisors
<1>3. CASE UNCHANGED <<pty, client>> /\ sup' = [sup EXCEPT !.pc = "timers", !.readiness = "expired"]
           /\ ~HasOutput
  BY <1>1, <1>3 DEF BoundaryHearsNothing, Supervisors
<1>4. ASSUME NEW fails \in RelayFailures,
             sup' = [Heard(sup, "marker" \in BoundaryRead, fails)
                       EXCEPT !.pc = "timers", !.readiness = "expired"],
             pty' = AfterRead(BoundaryRead), client' = Relayed(fails)
      PROVE  BoundaryHears(fails)
  <2> DEFINE s == Heard(sup, "marker" \in BoundaryRead, fails)
  <2>1. fails \in BOOLEAN /\ ("marker" \in BoundaryRead) \in BOOLEAN
    BY RelayMayFail
  <2>2. s \in Supervisors
    BY <1>1, <2>1, HeardType
  <2>3. Hears(s, "marker" \in BoundaryRead, fails) /\ s.phase = sup.phase
    BY <1>1, HeardFields
  <2> HIDE DEF s
  <2>4. sup' = [s EXCEPT !.pc = "timers", !.readiness = "expired"]
    BY <1>4 DEF s
  <2>5. /\ sup'.pc = "timers" /\ sup'.readiness = "expired" /\ sup'.stop = s.stop /\ sup'.why = s.why
        /\ sup'.phase = s.phase /\ sup'.attached = s.attached /\ sup'.ready = s.ready
        /\ sup'.todo = s.todo
    BY <2>2, <2>4 DEF Supervisors
  <2> QED BY <1>4, <2>3, <2>5 DEF BoundaryHears, Hears
<1> QED BY <1>2, <1>3, <1>4 DEF SupBoundary

LEMMA ConsoleStep == TypeOK /\ OneConsole /\ [Next]_vars => OneConsole'
<1> SUFFICES ASSUME TypeOK, OneConsole, [Next]_vars PROVE OneConsole'
  OBVIOUS
<1>1. sup \in Supervisors /\ client \in [Clients -> ClientSteps]
  BY DEF TypeOK
<1>2. \A raised : Die(raised) => client' = ClientsDropped
  BY DEF Die
<1>3. Signalled.attached = sup.attached
  BY <1>1 DEF Signalled, Supervisors
<1>4. RequestStep \/ RequestTimeout \/ RequestKilled => client' = client /\ sup'.attached = sup.attached
  BY <1>1, <1>3 DEF RequestStep, RequestPrepare, RequestSave, RequestSpawn, RequestPoll, RequestExcept,
                    RequestTimeout, RequestKilled, Supervisors
<1>5. SupTransition \/ SupBoot \/ SupLaunch \/ SupIdentify \/ SupKilled =>
        \/ client' = client /\ sup'.attached = sup.attached
        \/ client' = ClientsDropped
  BY <1>1, <1>2 DEF SupTransition, SupBoot, SupLaunch, SupIdentify, SupKilled, Supervisors
<1>6. SupTop \/ SupShutdownTimeout \/ SupClear \/ SupSelect \/ SupExpire \/ SupGoOn \/ SupPollExited =>
        client' = client /\ sup'.attached = sup.attached
  BY <1>1 DEF SupTop, SupShutdownTimeout, TimedOut, SupClear, SupSelect, SupExpire, Expired, SupGoOn,
              SupPollExited, Supervisors
<1>7. SupExit \/ SupReset \/ SupReleaseRefused => client' = ClientsDropped
  BY <1>2 DEF SupExit, SupReset, SupReleaseRefused
<1>8. SupConsole \/ SupBoundary =>
        \/ client' = ClientsDropped
        \/ client' = client /\ sup'.attached = sup.attached
        \/ \E fails \in BOOLEAN :
             client' = Relayed(fails) /\ sup'.attached = IF fails THEN None ELSE sup.attached
  <2>1. SupConsole => client' = ClientsDropped \/ ConsoleRead
    BY <1>2 DEF SupConsole, WriteFails
  <2> QED BY <2>1, ConsoleReadEffect, BoundaryEffect, RelayMayFail
          DEF Hears, BoundaryHears, BoundaryHearsNothing
<1>9. SupClient => \/ client' = ClientsDropped
                   \/ client' = Detached /\ sup'.attached = None
                   \/ /\ sup'.attached = sup.attached /\ sup.attached # None
                      /\ client' = [client EXCEPT ![sup.attached] = "open"]
  BY <1>1, <1>2 DEF SupClient, ClientTyped, ClientGone, WriteFails, Handled, Supervisors
<1>10. SupBegin => client' = ClientsDropped \/ (client' = client /\ sup'.attached = sup.attached)
  BY <1>1, <1>2 DEF SupBegin, WriteFails, Supervisors
<1>11. ASSUME NEW c \in Clients, SupAccept(c) PROVE OneConsole'
  <2>1. sup.attached = None /\ sup'.attached = c /\ \A d \in Clients : d # c => client'[d] = client[d]
    BY <1>1, <1>11 DEF SupAccept, Free, Handled, Supervisors
  <2> QED BY <2>1, NoneAssumption DEF OneConsole
<1>12. ASSUME NEW c \in Clients, SupReject(c) PROVE OneConsole'
  <2>1. \/ client' = ClientsDropped
        \/ client' = [client EXCEPT ![c] = "idle"] /\ sup'.attached = sup.attached
    BY <1>1, <1>2, <1>12 DEF SupReject, Handled, Supervisors
  <2> QED BY <1>1, <2>1, DropKeepsConsole DEF OneConsole
<1>13. ASSUME NEW r \in Releasers, ReleaseBegin(r) \/ ReleaseNext(r)
       PROVE  client' = ClientsDropped \/ (client' = client /\ sup' = sup)
  BY <1>2, <1>13 DEF ReleaseBegin, ReleaseNext, ReleaseRemove, ReleaseDone, ReleaseFail, ReleaseEnds
<1>14. ASSUME NEW o \in Operators, OperatorStep(o) \/ OperatorKilled(o)
       PROVE  client' = ClientsDropped \/ (client' = client /\ sup'.attached = sup.attached)
  BY <1>3, <1>13, <1>14 DEF OperatorStep, OperatorKilled, StopRequest, StopVerify, StopWrite, StopSignal
<1>15. EmuStep \/ Reconcile \/ UNCHANGED vars => client' = client /\ sup' = sup
  BY DEF EmuStep, EmuFlood, EmuMarker, EmuHalt, EmuRead, EmuExit, EmuReaped, Reconcile, vars
<1>16. ASSUME NEW c \in Clients, ClientStep(c) PROVE OneConsole'
  BY <1>1, <1>16 DEF ClientStep, AttachCheck, AttachConnect, AttachType, AttachClose, OneConsole
<1>17. SupClient => OneConsole'
  BY <1>1, <1>9, DropKeepsConsole, DetachKeepsConsole DEF OneConsole
<1>18. (SupStep \/ SupKilled) => OneConsole'
  BY <1>5, <1>6, <1>7, <1>8, <1>10, <1>11, <1>12, <1>13, <1>17, DropKeepsConsole, DetachKeepsConsole DEF SupStep
<1> QED BY <1>4, <1>14, <1>15, <1>16, <1>18, DropKeepsConsole, DetachKeepsConsole DEF Next

\* Whatever clients come, type, hang up and are dropped, one at most has the console.
THEOREM ConsoleIsExclusive == Spec => []OneConsole
<1>1. Init => OneConsole
  BY DEF Init, OneConsole
<1> QED BY <1>1, ConsoleStep, TypeCorrect, PTL DEF Spec

------------------------------------------------------------------------------
(* Readiness. *)

LEMMA SignalledFields ==
  ASSUME sup \in Supervisors
  PROVE  /\ Signalled.phase = sup.phase /\ Signalled.todo = sup.todo /\ Signalled.why = sup.why
         /\ Signalled.ready = sup.ready /\ Signalled.readiness = sup.readiness
         /\ Signalled.pc = IF sup.pc = "born" THEN "dead" ELSE sup.pc
BY DEF Signalled, Supervisors

Launching == {"prepare", "save", "spawn"}
Over == {"dead", "release"}

\* No supervisor runs while its request is launching it, and a marker that came in time
\* is still in the console or has been heard: so readiness is found over only without one.
Readiness ==
  /\ sup.pc = "none" => sup.todo = <<>> /\ ~hist.first
  /\ lock = Self => sup.pc = "release"
  /\ req \in Launching => sup.pc = "none"
  /\ hist.first /\ sup.pc \notin Over => sup.ready \/ InReach(pty)
  /\ sup.pc = "timers" /\ sup.readiness = "expired" /\ ~sup.ready => ~hist.first
  /\ sup.why = "readiness" \/ rec.why = "readiness" => ~hist.first /\ sup.readiness = "expired"

\* A step that has nothing to do with the marker or its deadline.
Unrelated ==
  /\ hist'.first = hist.first
  /\ sup.readiness = "expired" => sup'.readiness = "expired"
  /\ sup'.why = "readiness" => sup.why = "readiness"
  /\ rec'.why = "readiness" => rec.why = "readiness" \/ sup.why = "readiness"
  /\ sup'.pc = "none" => sup.pc = "none" /\ sup'.todo = sup.todo
  /\ lock' = Self => sup'.pc = "release"
  /\ req' \in Launching => sup'.pc = "none"
  /\ sup'.pc \notin Over =>
       /\ sup.pc \notin Over
       /\ sup'.ready = sup.ready
       /\ InReach(pty) => InReach(pty')
  /\ sup'.pc = "timers" => sup.pc = "timers" /\ sup'.readiness = sup.readiness

LEMMA UnrelatedStep == Readiness /\ Unrelated => Readiness'
BY DEF Readiness, Unrelated, Launching, Over

LEMMA MovedWhy ==
  ASSUME TypeOK, NEW t, NEW why
  PROVE  Moved(t, why).why \in {rec.why, why}
BY DEF Moved, TypeOK, Records

LEMMA DieIsUnrelated ==
  ASSUME TypeOK, Readiness, NEW raised \in BOOLEAN, Die(raised), sup.pc # "none", req' = req,
         lock' # Self, rec'.why = "readiness" => rec.why = "readiness" \/ sup.why = "readiness"
  PROVE  Unrelated
<1>1. sup' = Dead /\ hist' = [hist EXCEPT !.raised = hist.raised \/ raised]
  BY DEF Die
<1>2. sup \in Supervisors /\ hist \in Histories
  BY DEF TypeOK
<1>3. /\ Dead.pc = "dead" /\ Dead.why = sup.why /\ Dead.readiness = sup.readiness
      /\ hist'.first = hist.first
  BY <1>1, <1>2 DEF Dead, Supervisors, Histories
<1> QED BY <1>1, <1>3 DEF Unrelated, Readiness, Launching, Over

LEMMA ReleaseIsUnrelated ==
  ASSUME TypeOK, Readiness, NEW r \in Releasers, ReleaseBegin(r) \/ ReleaseNext(r)
  PROVE  Unrelated
<1>1. rec'.why = "readiness" => rec.why = "readiness"
  BY MovedWhy DEF ReleaseBegin, ReleaseNext, ReleaseRemove, ReleaseDone, ReleaseFail
<1>2. CASE sup' = sup /\ hist' = hist /\ pty' = pty /\ req' = req /\ (lock' = Self => sup.pc = "release")
  BY <1>1, <1>2 DEF Readiness, Unrelated
<1>3. ReleaseEnds(r) => \/ Die(FALSE) /\ lock' = None /\ r = Self
                        \/ UNCHANGED <<sup, client, pty, hist>> /\ lock' = None
  BY DEF ReleaseEnds
<1>4. CASE ReleaseBegin(r)
  BY <1>2, <1>4 DEF ReleaseBegin, At
<1>5. CASE ReleaseRemove(r)
  BY <1>2, <1>5 DEF ReleaseRemove, Readiness
<1>6. CASE ReleaseDone(r) \/ ReleaseFail(r)
  <2>1. ReleaseEnds(r) /\ lock = r /\ req' = req
    BY <1>6 DEF ReleaseDone, ReleaseFail
  <2>2. CASE Die(FALSE) /\ r = Self
    <3>1. sup.pc # "none"
      BY <2>1, <2>2 DEF Readiness
    <3> QED BY <1>1, <1>3, <2>1, <2>2, <3>1, NoneAssumption, DieIsUnrelated DEF ReleaseEnds
  <2>3. CASE UNCHANGED <<sup, client, pty, hist>>
    BY <1>2, <2>1, <2>3, NoneAssumption DEF ReleaseEnds
  <2> QED BY <1>3, <2>1, <2>2, <2>3
<1> QED BY <1>4, <1>5, <1>6 DEF ReleaseNext

LEMMA RequestIsUnrelated ==
  ASSUME TypeOK, Readiness, RequestStep \/ RequestTimeout \/ RequestKilled
  PROVE  Unrelated
<1>1. sup \in Supervisors /\ rec \in Records
  BY DEF TypeOK
<1>2. CASE RequestSpawn
  <2>1. CASE sup' = [sup EXCEPT !.pc = "born"] /\ req' = "poll"
    <3>1. /\ sup'.pc = "born" /\ sup'.why = sup.why /\ sup'.readiness = sup.readiness
          /\ sup'.ready = sup.ready /\ sup.pc = "none"
      BY <1>1, <1>2, <2>1 DEF Supervisors, RequestSpawn, Readiness, Launching
    <3> QED BY <1>2, <2>1, <3>1 DEF RequestSpawn, Readiness, Unrelated, Launching, Over
  <2>2. CASE UNCHANGED sup /\ req' = "except"
    BY <1>2, <2>2 DEF RequestSpawn, Readiness, Unrelated, Launching
  <2> QED BY <1>2, <2>1, <2>2 DEF RequestSpawn
<1>3. CASE RequestSave
  <2>1. rec'.why = rec.why
    BY <1>1, <1>3 DEF RequestSave, Records
  <2> QED BY <1>3, <2>1 DEF RequestSave, Readiness, Unrelated, Launching
<1>4. CASE RequestPrepare \/ RequestPoll \/ RequestKilled
  BY <1>4 DEF RequestPrepare, RequestPoll, RequestKilled, Readiness, Unrelated, Launching
<1>5. CASE RequestExcept
  <2>1. rec'.why = "readiness" => rec.why = "readiness"
    BY <1>5, MovedWhy DEF RequestExcept
  <2> QED BY <1>5, <2>1 DEF RequestExcept, Readiness, Unrelated, Launching
<1>6. CASE RequestTimeout
  <2>1. sup' = sup \/ (Alive /\ sup' = Signalled)
    BY <1>6 DEF RequestTimeout
  <2> QED BY <1>1, <1>6, <2>1, SignalledFields
          DEF RequestTimeout, Alive, Readiness, Unrelated, Launching, Over
<1> QED BY <1>2, <1>3, <1>4, <1>5, <1>6 DEF RequestStep

\* The steps of the supervisor that start, stop or end something.
LEMMA CourseIsUnrelated ==
  ASSUME TypeOK, Readiness,
         \/ SupTransition \/ SupBoot \/ SupLaunch \/ SupIdentify \/ SupKilled
         \/ SupTop \/ SupBegin \/ SupShutdownTimeout \/ SupClear
         \/ SupGoOn \/ SupPollExited \/ SupExit \/ SupReset \/ SupReleaseRefused
  PROVE  Unrelated
<1>1. sup \in Supervisors /\ rec \in Records /\ hist \in Histories
  BY DEF TypeOK
<1> DEFINE Same == /\ sup'.why = sup.why /\ sup'.readiness = sup.readiness /\ sup'.ready = sup.ready
                   /\ sup.pc # "none" /\ sup'.pc # "none" /\ sup.pc \notin Over
                   /\ sup'.pc # "timers"
           Rest == /\ hist'.first = hist.first /\ req' = req /\ lock' = lock
                   /\ rec'.why = "readiness" => rec.why = "readiness" \/ sup.why = "readiness"
                   /\ InReach(pty) => InReach(pty')
<1>2. Same /\ Rest => Unrelated
  BY DEF Readiness, Unrelated, Launching, Over
<1>3. CASE SupTransition
  <2>1. sup.pc # "none"
    BY <1>3 DEF SupTransition, Readiness
  <2>2. CASE Accepts(Head(sup.todo))
    <3>1. rec'.why \in {rec.why, sup.why}
      BY <1>3, <2>2, MovedWhy DEF SupTransition
    <3>2. sup' = [sup EXCEPT !.todo = Tail(sup.todo)]
      BY <1>3, <2>2 DEF SupTransition
    <3>3. /\ sup'.pc = sup.pc /\ sup'.why = sup.why /\ sup'.readiness = sup.readiness
          /\ sup'.ready = sup.ready
      BY <1>1, <3>2 DEF Supervisors
    <3> QED BY <1>3, <2>1, <2>2, <3>1, <3>3 DEF SupTransition, Readiness, Unrelated, Launching
  <2>3. CASE ~Accepts(Head(sup.todo))
    BY <1>3, <2>1, <2>3, DieIsUnrelated, NoneAssumption DEF SupTransition
  <2> QED BY <2>2, <2>3
<1>4. CASE SupBoot
  <2>1. sup'.pc = "setup" /\ rec'.why = rec.why /\ Same
    BY <1>1, <1>4 DEF SupBoot, At, Supervisors, Records, Over
  <2> QED BY <1>2, <1>4, <2>1 DEF SupBoot
<1>5. CASE SupLaunch
  <2>1. CASE Die(TRUE)
    BY <1>5, <2>1, DieIsUnrelated DEF SupLaunch, At, Readiness
  <2>2. CASE sup' = [sup EXCEPT !.pc = "announce", !.todo = <<"starting">>] /\ UNCHANGED <<pty, hist>>
    <3>1. Same
      BY <1>1, <1>5, <2>2 DEF SupLaunch, At, Supervisors, Over
    <3> QED BY <1>2, <1>5, <2>2, <3>1 DEF SupLaunch
  <2> QED BY <1>5, <2>1, <2>2 DEF SupLaunch
<1>6. CASE SupIdentify
  <2>1. rec'.why = rec.why /\ Same
    BY <1>1, <1>6 DEF SupIdentify, At, Supervisors, Records, Over
  <2> QED BY <1>2, <1>6, <2>1 DEF SupIdentify
<1>7. CASE SupKilled
  <2>1. lock' # Self /\ sup.pc # "none"
    BY <1>7, NoneAssumption DEF SupKilled, Alive
  <2> QED BY <1>7, <2>1, DieIsUnrelated DEF SupKilled
<1>8. CASE SupTop
  <2>1. Same
    BY <1>1, <1>8 DEF SupTop, At, Supervisors, Over
  <2> QED BY <1>2, <1>8, <2>1 DEF SupTop
<1>9. CASE SupBegin
  <2>1. CASE WriteFails
    BY <1>9, <2>1, DieIsUnrelated, NoneAssumption DEF SupBegin, WriteFails, At, Readiness
  <2>2. CASE ~WriteFails
    <3>1. Same
      BY <1>1, <1>9, <2>2 DEF SupBegin, At, Supervisors, Over
    <3>2. hist'.first = hist.first /\ pty'.out = pty.out /\ pty'.flood = pty.flood
      BY <1>1, <1>9, <2>2 DEF SupBegin, Send, Histories, TypeOK, Consoles
    <3> QED BY <1>2, <1>9, <3>1, <3>2 DEF SupBegin, InReach
  <2> QED BY <2>1, <2>2
<1>10. CASE SupShutdownTimeout
  <2>1. /\ sup'.pc = "clear" /\ sup'.why = "shutdown" /\ sup'.readiness = sup.readiness
        /\ sup'.ready = sup.ready /\ sup.pc = "deadline"
    BY <1>1, <1>10 DEF SupShutdownTimeout, TimedOut, At, Supervisors
  <2> QED BY <1>10, <2>1 DEF SupShutdownTimeout, Readiness, Unrelated, Launching, Over
<1>11. CASE SupClear
  <2>1. Same
    BY <1>1, <1>11 DEF SupClear, At, Supervisors, Over
  <2> QED BY <1>2, <1>11, <2>1 DEF SupClear
<1>12. CASE SupGoOn
  <2>1. PICK next \in LoopSteps : next # "timers" /\ sup' = [sup EXCEPT !.pc = next]
    BY <1>12 DEF SupGoOn
  <2>2. sup.pc \in {"deadline", "events", "timers", "poll"}
    BY <1>12 DEF SupGoOn
  <2>3. Same
    BY <1>1, <2>1, <2>2 DEF Supervisors, Over
  <2> QED BY <1>2, <1>12, <2>3 DEF SupGoOn
<1>13. CASE SupPollExited
  <2>1. /\ sup'.pc \in {"reset", "exit"} /\ sup'.why = "exit" /\ sup'.readiness = sup.readiness
        /\ sup'.ready = sup.ready /\ sup.pc = "poll"
    BY <1>1, <1>13 DEF SupPollExited, At, Supervisors
  <2> QED BY <1>13, <2>1 DEF SupPollExited, Readiness, Unrelated, Launching, Over
<1>14. CASE SupExit \/ SupReleaseRefused
  BY <1>14, DieIsUnrelated, NoneAssumption DEF SupExit, SupReleaseRefused, At, Readiness
<1>15. CASE SupReset
  <2>1. /\ sup'.pc = "release" /\ sup'.why = sup.why /\ sup'.readiness = sup.readiness /\ sup.pc = "reset"
    BY <1>1, <1>15 DEF SupReset, Dead, At, Supervisors
  <2> QED BY <1>15, <2>1 DEF SupReset, Readiness, Unrelated, Launching, Over
<1> QED BY <1>3, <1>4, <1>5, <1>6, <1>7, <1>8, <1>9, <1>10, <1>11, <1>12, <1>13, <1>14, <1>15

\* The steps of the supervisor at the console, with its clients and its timers.
LEMMA ReadinessAtConsole ==
  ASSUME TypeOK, Readiness,
         \/ SupSelect \/ SupConsole \/ SupClient \/ SupBoundary \/ SupExpire
         \/ \E c \in Clients : SupAccept(c) \/ SupReject(c)
  PROVE  Readiness'
<1>1. sup \in Supervisors /\ rec \in Records /\ hist \in Histories
  BY DEF TypeOK
<1>2. CASE SupSelect
  <2>1. /\ sup'.why = sup.why /\ sup'.readiness = sup.readiness /\ sup'.ready = sup.ready
        /\ sup'.pc \in {"boundary", "events"} /\ sup.pc = "select"
    BY <1>1, <1>2 DEF SupSelect, At, Supervisors
  <2> QED BY <1>2, <2>1 DEF SupSelect, Readiness, Launching, Over
<1>3. CASE SupConsole
  <2>1. CASE WriteFails
    BY <1>3, <2>1, DieIsUnrelated, UnrelatedStep, NoneAssumption
       DEF SupConsole, WriteFails, Handling, At, Readiness
  <2>2. CASE ConsoleRead
    <3>1. /\ sup'.pc = "events" /\ sup.pc = "events" /\ sup'.why = sup.why
          /\ sup'.readiness = sup.readiness /\ sup'.ready = (sup.ready \/ "marker" \in FirstRead)
      BY <1>3, <2>2, ConsoleReadEffect DEF Hears, SupConsole, Handling, At
    <3>2. InReach(pty) => "marker" \in FirstRead
      BY DEF InReach, FirstRead
    <3>3. pty'.out = pty.out \ FirstRead /\ pty'.flood = FALSE
      BY <2>2 DEF ConsoleRead, AfterRead, TypeOK, Consoles
    <3>4. hist'.first => hist.first \/ (InReach(pty') /\ sup.readiness # "expired")
      <4>1. hist'.first = (hist.first \/ InTime(AfterRead(FirstRead)))
        BY <1>1, <2>2 DEF ConsoleRead, Histories
      <4>2. AfterRead(FirstRead).out = pty'.out /\ AfterRead(FirstRead).flood = pty'.flood
        BY <3>3 DEF AfterRead, TypeOK, Consoles
      <4> QED BY <4>1, <4>2 DEF InTime, InReach
    <3> QED BY <1>3, <3>1, <3>2, <3>4 DEF SupConsole, Readiness, Launching, Over
  <2> QED BY <1>3, <2>1, <2>2 DEF SupConsole
<1>4. CASE SupClient
  <2>1. CASE Die(TRUE)
    BY <1>4, <2>1, DieIsUnrelated, UnrelatedStep, NoneAssumption DEF SupClient, Handling, At, Readiness
  <2>2. CASE ClientTyped \/ ClientGone
    <3>1. /\ sup'.why = sup.why /\ sup'.readiness = sup.readiness /\ sup'.ready = sup.ready
          /\ sup'.pc = "events" /\ sup.pc = "events"
      BY <1>1, <1>4, <2>2, ZenonT(40)
         DEF SupClient, ClientTyped, ClientGone, Handling, Handled, At, Supervisors
    <3>2. pty'.out = pty.out /\ pty'.flood = pty.flood /\ hist' = hist
      BY <1>4, <2>2 DEF ClientTyped, ClientGone, TypeOK, Consoles
    <3> QED BY <1>4, <3>1, <3>2 DEF SupClient, Readiness, Launching, Over, InReach
  <2> QED BY <1>4, <2>1, <2>2 DEF SupClient, WriteFails
<1>5. CASE SupBoundary
  <2>1. sup.pc = "boundary"
    BY <1>5 DEF SupBoundary, At
  <2>2. CASE BoundaryHearsNothing
    <3>1. \/ ~InReach(pty) /\ sup'.readiness = "expired"
          \/ sup'.readiness = sup.readiness /\ (sup.ready \/ sup.readiness # "expired")
      BY <2>2 DEF BoundaryHearsNothing, HasOutput, InReach
    <3> QED BY <1>5, <2>1, <2>2, <3>1 DEF SupBoundary, BoundaryHearsNothing, Readiness, Launching, Over
  <2>3. ASSUME NEW fails, BoundaryHears(fails)
        PROVE  Readiness'
    <3>1. InReach(pty) => sup'.ready
      BY <2>3 DEF InReach, BoundaryHears, BoundaryRead, FirstRead
    <3>2. hist.first => sup.ready \/ InReach(pty)
      BY <2>1 DEF Readiness, Over
    <3>3. sup.ready => sup'.ready
      BY <2>3 DEF BoundaryHears
    <3> QED BY <1>5, <2>1, <2>3, <3>1, <3>2, <3>3 DEF SupBoundary, BoundaryHears, Readiness, Launching, Over
  <2> QED BY <1>5, <2>2, <2>3, BoundaryEffect
<1>6. CASE SupExpire
  <2> DEFINE why == IF ReadinessOver THEN "readiness" ELSE "deadline"
  <2>1. sup' = Expired(why) /\ sup.pc = "timers"
    BY <1>6 DEF SupExpire, At
  <2>2. Expired(why).why = why /\ Expired(why).readiness = sup.readiness /\ Expired(why).ready = sup.ready
        /\ Expired(why).pc = "poll"
    BY <1>1 DEF Expired, Supervisors
  <2>3. why = "readiness" => sup.readiness = "expired" /\ ~sup.ready
    BY DEF ReadinessOver
  <2> HIDE DEF why
  <2> QED BY <1>6, <2>1, <2>2, <2>3 DEF SupExpire, Readiness, Launching, Over
<1>7. ASSUME NEW c \in Clients, SupAccept(c) PROVE Readiness'
  <2>1. /\ sup'.why = sup.why /\ sup'.ready = sup.ready /\ sup'.pc = "events" /\ sup.pc = "events"
        /\ sup'.readiness = IF rec.state = "starting" /\ sup.readiness = "unset" THEN "armed"
                            ELSE sup.readiness
    BY <1>1, <1>7 DEF SupAccept, Handling, Handled, At, Supervisors
  <2> QED BY <1>7, <2>1 DEF SupAccept, Readiness, Launching, Over
<1>8. ASSUME NEW c \in Clients, SupReject(c) PROVE Readiness'
  <2>1. CASE client[c] = "queued"
    <3>1. /\ sup'.why = sup.why /\ sup'.readiness = sup.readiness /\ sup'.ready = sup.ready
          /\ sup'.pc = "events" /\ sup.pc = "events"
      BY <1>1, <1>8, <2>1 DEF SupReject, Handling, Handled, At, Supervisors
    <3> QED BY <1>8, <2>1, <3>1 DEF SupReject, Readiness, Launching, Over
  <2>2. CASE client[c] # "queued"
    BY <1>8, <2>2, DieIsUnrelated, UnrelatedStep DEF SupReject, Handling, At, Readiness
  <2> QED BY <2>1, <2>2
<1> QED BY <1>2, <1>3, <1>4, <1>5, <1>6, <1>7, <1>8

LEMMA ReadinessStep == TypeOK /\ Readiness /\ [Next]_vars => Readiness'
<1> SUFFICES ASSUME TypeOK, Readiness, [Next]_vars PROVE Readiness'
  OBVIOUS
<1>1. sup \in Supervisors /\ hist \in Histories /\ pty \in Consoles
  BY DEF TypeOK
<1>2. SupStep \/ SupKilled => Readiness'
  <2>1. Self \in Releasers
    OBVIOUS
  <2> QED BY <2>1, CourseIsUnrelated, ReadinessAtConsole, ReleaseIsUnrelated, UnrelatedStep DEF SupStep
<1>3. ASSUME NEW o \in Operators, OperatorStep(o) \/ OperatorKilled(o)
      PROVE  Unrelated
  <2>1. StopWrite(o) => hist'.first = hist.first
    BY <1>1 DEF StopWrite, Histories
  <2>2. (\E recovery \in BOOLEAN : StopRequest(o, recovery)) \/ StopVerify(o) \/ StopWrite(o) \/ OperatorKilled(o)
          => Unrelated
    BY <2>1, NoneAssumption DEF StopRequest, StopVerify, StopWrite, OperatorKilled, Unrelated, Readiness
  <2>3. CASE StopSignal(o)
    <3>1. sup' = sup \/ (Alive /\ sup' = Signalled)
      BY <2>3 DEF StopSignal
    <3> QED BY <1>1, <2>3, <3>1, SignalledFields
            DEF StopSignal, Alive, Readiness, Unrelated, Launching, Over
  <2> QED BY <1>3, <2>2, <2>3, ReleaseIsUnrelated DEF OperatorStep
<1>4. Reconcile => Unrelated
  <2>1. Reconcile => (rec'.why = "readiness" => rec.why = "readiness")
    BY MovedWhy DEF Reconcile
  <2> QED BY <2>1 DEF Reconcile, Unrelated, Readiness
<1>5. UNCHANGED vars \/ (\E c \in Clients : ClientStep(c)) => Unrelated
  BY DEF vars, ClientStep, AttachCheck, AttachConnect, AttachType, AttachClose, Unrelated, Readiness
<1>6. EmuFlood \/ EmuHalt \/ EmuExit \/ EmuReaped \/ (\E key \in pty.keys : EmuRead(key)) => Unrelated
  <2>1. EmuHalt => (InReach(pty) => InReach(pty'))
    BY <1>1 DEF EmuHalt, Output, Consoles, InReach
  <2>2. (\E key \in pty.keys : EmuRead(key)) => (InReach(pty) => InReach(pty'))
    BY <1>1 DEF EmuRead, Consoles, InReach
  <2>3. EmuFlood => ~InReach(pty)
    BY DEF EmuFlood, HasOutput, InReach
  <2> QED BY <2>1, <2>2, <2>3 DEF EmuHalt, EmuRead, EmuExit, EmuReaped, EmuFlood, Unrelated, Readiness
<1>7. EmuMarker => Readiness'
  <2> SUFFICES ASSUME EmuMarker PROVE Readiness'
    OBVIOUS
  <2>1. InReach(pty) => InReach(pty')
    BY <1>1 DEF EmuMarker, Output, Consoles, InReach
  <2>2. hist'.first => hist.first \/ (InReach(pty') /\ sup.readiness # "expired")
    BY <1>1 DEF EmuMarker, Histories, InTime
  <2> QED BY <2>1, <2>2 DEF EmuMarker, Alive, Readiness, Launching, Over
<1> QED BY <1>2, <1>3, <1>4, <1>5, <1>6, <1>7, RequestIsUnrelated, UnrelatedStep DEF Next, EmuStep

\* A marker that the next read returns before the readiness deadline counts is never lost
\* to it, whichever of the two places in the loop reads the console.
THEOREM MarkerWins == Spec => []MarkerWithinReachWins
<1>1. Init => Readiness
  BY NoneAssumption DEF Init, Readiness, Launching, Over
<1>2. Readiness => MarkerWithinReachWins
  BY DEF Readiness, MarkerWithinReachWins
<1> QED BY <1>1, <1>2, ReadinessStep, TypeCorrect, PTL DEF Spec
==============================================================================
