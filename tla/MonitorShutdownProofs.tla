------------------------ MODULE MonitorShutdownProofs ------------------------
(***************************************************************************)
(* MonitorShutdown, for every Timeout, Grace, Delay and buffer size and    *)
(* any number of stop commands.  The argument for the bound: what a phase  *)
(* has left and how old the stop is add up to no more than one Timeout     *)
(* before the prompt and two after it, and the clock does not pass a       *)
(* deadline that the loop has yet to look at.                              *)
(* The argument for the timely emulator: until its answer is there, what   *)
(* the stop has left and what the emulator has taken add up to a Timeout.  *)
(***************************************************************************)
EXTENDS MonitorShutdown, SequenceTheorems, TLAPS

\* A stop in progress has been asked for; the loop is not past a deadline that it has
\* not looked at, and a turn that is over has left some of it.
InTime ==
  sup.phase # "none" /\ sup.pc \in {"top", "select"} =>
    /\ sup.stop
    /\ sup.pc = "select" => sup.left > 0 \/ emu = "gone"
    /\ sup.pc = "top" /\ sup.turned => sup.left > 0

\* What a stop in progress has taken and has left.
Budget ==
  /\ hist.age <= 2 * Timeout
  /\ sup.pc \in {"top", "select"} /\ sup.phase = "monitor" => hist.age + sup.left <= Timeout
  /\ sup.pc \in {"top", "select"} /\ sup.phase = "exit" => hist.age + sup.left <= 2 * Timeout

BInv == TypeOK /\ InTime /\ Budget

USE TimingAssumption, BufferAssumption

------------------------------------------------------------------------------
(* Sequences. *)

LEMMA AppendLength ==
  ASSUME NEW S, NEW s \in Seq(S), NEW x \in S
  PROVE  Append(s, x) \in Seq(S) /\ Len(Append(s, x)) = Len(s) + 1
OBVIOUS

LEMMA RestLength ==
  ASSUME NEW S, NEW s \in Seq(S), NEW i \in 1..Len(s)
  PROVE  SubSeq(s, i + 1, Len(s)) \in Seq(S) /\ Len(SubSeq(s, i + 1, Len(s))) = Len(s) - i
BY SubSeqProperties

LEMMA PromptAppended ==
  ASSUME NEW s \in Seq({"text", "pro", "mpt"})
  PROVE  /\ s \o Prompt \in Seq({"text", "pro", "mpt"}) /\ Len(s \o Prompt) = Len(s) + 2
         /\ Prompt \in Seq({"text", "pro", "mpt"}) /\ Len(Prompt) = 2
BY DEF Prompt

LEMMA CountingDown ==
  ASSUME NEW n \in Nat
  PROVE  Down(n) \in Nat /\ Down(n) <= n /\ (n > 0 => Down(n) = n - 1)
BY DEF Down

LEMMA CountingUp ==
  ASSUME NEW bound \in Nat, NEW n \in 0..bound
  PROVE  Up(n, bound) \in 0..bound /\ Up(n, bound) <= n + 1
BY DEF Up

------------------------------------------------------------------------------
(* Types. *)

LEMMA InitTypes == Init => TypeOK
BY DEF Init, TypeOK, Supervisors, Drivers, Commands, Histories, Idle, Never, Telling

\* A failure is a state of the record and seen by every waiting command.
LEMMA FailTypes ==
  ASSUME TypeOK, Fail
  PROVE  state' = "failed" /\ op' \in [Operators -> Commands]
BY ZenonT(40) DEF TypeOK, Fail, Commands

LEMMA SupTypes ==
  ASSUME TypeOK, SupStep
  PROVE  TypeOK'
<1>1. CASE SupBegin
  <2>1. Begun.key \in Keys /\ Begun.phase \in {"monitor", "exit"} /\ Begun.drv \in Drivers
    BY DEF Begun, Keys, TypeOK, Drivers
  <2>2. keys' \in Seq(Keys) /\ Len(keys') <= MaxKeys
    <3>1. keys \in Seq(Keys) /\ Len(keys) < MaxKeys /\ keys' = Append(keys, Begun.key)
      BY <1>1 DEF SupBegin, Send, TypeOK
    <3> QED BY <2>1, <3>1, AppendLength
  <2>3. sup' \in Supervisors
    <3>1. PICK phase \in {"monitor", "exit"} :
            sup' = [sup EXCEPT !.pc = "select", !.phase = phase, !.left = Timeout, !.turned = TRUE]
      BY <1>1, <2>1 DEF SupBegin
    <3>2. sup \in Supervisors /\ Timeout \in 0..Timeout
      BY DEF TypeOK
    <3> QED BY <3>1, <3>2 DEF Supervisors
  <2>4. hist' \in Histories
    <3>1. PICK clean \in BOOLEAN : hist' = [hist EXCEPT !.age = 0, !.typed = FALSE, !.clean = clean]
      BY <1>1 DEF SupBegin
    <3>2. hist \in Histories /\ 0 \in 0..Never
      BY DEF TypeOK, Never
    <3> QED BY <3>1, <3>2 DEF Histories
  <2> QED BY <1>1, <2>1, <2>2, <2>3, <2>4 DEF SupBegin, TypeOK
<1>2. CASE SupTimeout
  <2>1. sup' \in Supervisors
    BY <1>2 DEF SupTimeout, TypeOK, Supervisors
  <2> QED BY <1>2, <2>1, FailTypes DEF SupTimeout, TypeOK
<1>3. CASE SupClear
  <2>1. sup' \in Supervisors
    BY <1>3 DEF SupClear, TypeOK, Supervisors
  <2>2. hist' \in Histories
    BY <1>3 DEF SupClear, TypeOK, Histories
  <2> QED BY <1>3, <2>1, <2>2 DEF SupClear, TypeOK
<1>4. CASE SupTop
  <2>1. sup' \in Supervisors
    BY <1>4 DEF SupTop, TypeOK, Supervisors
  <2> QED BY <1>4, <2>1 DEF SupTop, TypeOK
<1>5. CASE SupRead
  <2>1. PICK n \in 1..Len(out) :
          LET data == SubSeq(out, 1, n)
          IN /\ out' = SubSeq(out, n + 1, Len(out))
             /\ drv' = Observed(data)
             /\ IF Confirms(data)
                  THEN Len(keys) < MaxKeys /\ Send(IF hist.typed THEN "hasty" ELSE "quit")
                  ELSE UNCHANGED keys
             /\ hist' = [hist EXCEPT !.sure =
                  IF Witnessed(data) THEN emu = "monitor" /\ keys = <<>> ELSE @]
             /\ sup' = [sup EXCEPT !.phase = PhaseAfter(data),
                                   !.left = IF Rearms(data) THEN Timeout ELSE @]
    BY <1>5 DEF SupRead
  <2> DEFINE data == SubSeq(out, 1, n)
  <2>2. out' \in Seq({"text", "pro", "mpt"}) /\ Len(out') <= MaxOut
    BY <2>1, RestLength, SMTT(20) DEF TypeOK
  <2>3. drv' \in Drivers
    <3>1. Observed(data) = [evidence |-> drv.evidence \/ Witnessed(data),
             live |-> IF Watching THEN EndsInHalf(data) ELSE drv.live,
             shut |-> IF sup.phase = "monitor" THEN EndsInHalf(data) ELSE drv.shut]
      BY DEF Observed
    <3>2. EndsInHalf(data) \in BOOLEAN /\ drv \in Drivers
      BY DEF EndsInHalf, TypeOK
    <3> HIDE DEF data
    <3>3. (drv.evidence \/ Witnessed(data)) \in BOOLEAN
      OBVIOUS
    <3>4. Observed(data) \in Drivers
      BY <3>1, <3>2, <3>3 DEF Drivers
    <3> QED BY <2>1, <3>4 DEF data
  <2>4. keys' \in Seq(Keys) /\ Len(keys') <= MaxKeys
    <3>1. CASE keys' = keys
      BY <3>1 DEF TypeOK
    <3>2. CASE Len(keys) < MaxKeys /\ \E key \in Keys : keys' = Append(keys, key)
      BY <3>2, AppendLength DEF TypeOK
    <3> QED BY <2>1, <3>1, <3>2 DEF Send, Keys
  <2>5. hist' \in Histories
    <3>1. hist \in Histories /\ \E sure \in BOOLEAN : hist' = [hist EXCEPT !.sure = sure]
      BY <2>1 DEF TypeOK, Histories
    <3> QED BY <3>1 DEF Histories
  <2>6. sup' \in Supervisors
    <3>1. sup \in Supervisors /\ PhaseAfter(data) \in {"none", "monitor", "exit"}
      BY DEF PhaseAfter, TypeOK, Supervisors
    <3>2. sup.left \in 0..Timeout /\ Timeout \in 0..Timeout
      BY <3>1 DEF Supervisors
    <3>3. PICK phase \in {"none", "monitor", "exit"}, left \in 0..Timeout :
            sup' = [sup EXCEPT !.phase = phase, !.left = left]
      BY <2>1, <3>1, <3>2
    <3> QED BY <3>1, <3>3 DEF Supervisors
  <2> QED BY <1>5, <2>2, <2>3, <2>4, <2>5, <2>6 DEF SupRead, TypeOK
<1>6. CASE SupRelay
  <2>1. keys' \in Seq(Keys) /\ Len(keys') <= MaxKeys
    <3>1. /\ keys \in Seq(Keys) /\ Len(keys) < MaxKeys /\ "cont" \in Keys
          /\ keys' = Append(keys, "cont")
      BY <1>6 DEF SupRelay, Send, TypeOK, Keys
    <3> QED BY <3>1, AppendLength
  <2>2. hist' \in Histories /\ drv' \in Drivers
    BY <1>6 DEF SupRelay, Invalidated, TypeOK, Histories, Drivers
  <2> QED BY <1>6, <2>1, <2>2 DEF SupRelay, TypeOK
<1>7. CASE SupExpire
  <2>1. sup' \in Supervisors
    BY <1>7 DEF SupExpire, TypeOK, Supervisors
  <2> QED BY <1>7, <2>1, FailTypes DEF SupExpire, TypeOK
<1>8. CASE SupRunning
  <2>1. sup' \in Supervisors
    BY <1>8 DEF SupRunning, TypeOK, Supervisors
  <2> QED BY <1>8, <2>1 DEF SupRunning, TypeOK
<1>9. CASE SupExited
  <2>1. sup' \in Supervisors
    BY <1>9 DEF SupExited, TypeOK, Supervisors
  <2>2. hist' \in Histories
    <3>1. hist \in Histories /\ 0 \in 0..Never /\ hist' = [hist EXCEPT !.age = 0]
      BY <1>9 DEF SupExited, TypeOK, Never
    <3> QED BY <3>1 DEF Histories
  <2>3. state' \in {"failed", "resetting"} /\ op' \in [Operators -> Commands]
    BY <1>9, FailTypes DEF SupExited, TypeOK
  <2>4. /\ keys' \in Seq(Keys) /\ Len(keys') <= MaxKeys
        /\ out' \in Seq({"text", "pro", "mpt"}) /\ Len(out') <= MaxOut
    BY <1>9 DEF SupExited
  <2> QED BY <1>9, <2>1, <2>2, <2>3, <2>4 DEF SupExited, TypeOK
<1>10. CASE SupRelease
  <2>1. sup' \in Supervisors
    BY <1>10 DEF SupRelease, TypeOK, Supervisors
  <2> QED BY <1>10, <2>1, FailTypes DEF SupRelease, TypeOK
<1> QED BY <1>1, <1>2, <1>3, <1>4, <1>5, <1>6, <1>7, <1>8, <1>9, <1>10 DEF SupStep

\* One command moves.
LEMMA CommandTypes ==
  ASSUME TypeOK, NEW o \in Operators, NEW c \in Commands, op' = [op EXCEPT ![o] = c]
  PROVE  op' \in [Operators -> Commands]
BY DEF TypeOK

LEMMA AnswerTypes ==
  ASSUME TypeOK, NEW o \in Operators,
         NEW answer \in {"failed", "resetting", "released", "expired"}, Answered(o, answer)
  PROVE  op' \in [Operators -> Commands]
<1>1. op[o] \in Commands /\ 0 \in 0..(Timeout + Grace)
  BY DEF TypeOK
<1>2. [op[o] EXCEPT !.pc = "idle", !.left = 0, !.polled = FALSE, !.answer = answer] \in Commands
  BY <1>1 DEF Commands
<1> QED BY <1>2, CommandTypes DEF Answered

LEMMA StopTypes ==
  ASSUME TypeOK, NEW o \in Operators, StopStep(o)
  PROVE  TypeOK'
<1>1. CASE \E recovery \in BOOLEAN : StopCheck(o, recovery)
  <2>1. op' \in [Operators -> Commands]
    <3>1. PICK recovery \in BOOLEAN :
            op' = [op EXCEPT ![o] = [Idle EXCEPT !.pc = "signal", !.recovery = recovery]]
      BY <1>1 DEF StopCheck
    <3>2. 0 \in 0..(Timeout + Grace)
      OBVIOUS
    <3>3. Idle \in Commands
      BY <3>2 DEF Idle, Commands
    <3>4. [Idle EXCEPT !.pc = "signal", !.recovery = recovery] \in Commands
      BY <3>3 DEF Commands
    <3> QED BY <3>1, <3>4, CommandTypes
  <2> QED BY <1>1, <2>1 DEF StopCheck, TypeOK
<1>2. CASE StopSignal(o)
  <2>1. sup' \in Supervisors
    BY <1>2 DEF StopSignal, TypeOK, Supervisors
  <2>2. op' \in [Operators -> Commands]
    <3>1. CASE Alive
      <4>1. PICK started \in BOOLEAN :
              op' = [op EXCEPT ![o] = [@ EXCEPT !.pc = "wait", !.left = Timeout + Grace,
                                                !.started = started]]
        BY <1>2, <3>1 DEF StopSignal, Started
      <4>2. op[o] \in Commands /\ Timeout + Grace \in 0..(Timeout + Grace)
        BY DEF TypeOK
      <4>3. [op[o] EXCEPT !.pc = "wait", !.left = Timeout + Grace, !.started = started] \in Commands
        BY <4>2 DEF Commands
      <4> QED BY <4>1, <4>3, CommandTypes
    <3>2. CASE ~Alive
      <4>1. 0 \in 0..(Timeout + Grace)
        OBVIOUS
      <4>2. Idle \in Commands /\ op' = [op EXCEPT ![o] = Idle]
        BY <1>2, <3>2, <4>1 DEF StopSignal, Idle, Commands
      <4> QED BY <4>2, CommandTypes
    <3> QED BY <3>1, <3>2
  <2> QED BY <1>2, <2>1, <2>2 DEF StopSignal, TypeOK
<1>3. CASE StopPoll(o)
  <2>1. op' \in [Operators -> Commands]
    <3>1. op[o] \in Commands
      BY DEF TypeOK
    <3>2. ASSUME Answered(o, state), state \in {"resetting", "released", "failed"}
          PROVE  op' \in [Operators -> Commands]
      BY <3>2, AnswerTypes
    <3>3. ASSUME NEW started \in BOOLEAN,
                 op' = [op EXCEPT ![o] = [@ EXCEPT !.started = started, !.polled = TRUE]]
          PROVE  op' \in [Operators -> Commands]
      <4>1. [op[o] EXCEPT !.started = started, !.polled = TRUE] \in Commands
        BY <3>1 DEF Commands
      <4> QED BY <3>3, <4>1, CommandTypes
    <3>4. (op[o].started \/ state = "stopping") \in BOOLEAN
      OBVIOUS
    <3> QED BY <1>3, <3>2, <3>3, <3>4 DEF StopPoll
  <2> QED BY <1>3, <2>1 DEF StopPoll, TypeOK
<1>4. CASE StopExpire(o)
  <2>1. op' \in [Operators -> Commands]
    BY <1>4, AnswerTypes DEF StopExpire
  <2> QED BY <1>4, <2>1 DEF StopExpire, TypeOK
<1> QED BY <1>1, <1>2, <1>3, <1>4 DEF StopStep

LEMMA EmuTypes ==
  ASSUME TypeOK, EmuStep
  PROVE  TypeOK'
<1>1. CASE EmuText
  <2>1. out' \in Seq({"text", "pro", "mpt"}) /\ Len(out') <= MaxOut
    <3>1. /\ out \in Seq({"text", "pro", "mpt"}) /\ Len(out) < MaxOut
          /\ out' = Append(out, "text")
      BY <1>1 DEF EmuText, TypeOK
    <3> QED BY <3>1, AppendLength
  <2> QED BY <1>1, <2>1 DEF EmuText, TypeOK
<1>2. CASE EmuHalt
  <2>1. out' \in Seq({"text", "pro", "mpt"}) /\ Len(out') <= MaxOut
    BY <1>2, PromptAppended DEF EmuHalt, TypeOK
  <2>2. hist' \in Histories
    BY <1>2 DEF EmuHalt, TypeOK, Histories
  <2> QED BY <1>2, <2>1, <2>2 DEF EmuHalt, TypeOK
<1>3. CASE EmuInterrupt
  <2>1. out' \in Seq({"text", "pro", "mpt"}) /\ Len(out') <= MaxOut
    BY <1>3, PromptAppended DEF EmuInterrupt, TypeOK
  <2>2. keys' \in Seq(Keys) /\ Len(keys') <= MaxKeys
    BY <1>3, RestLength DEF EmuInterrupt, TypeOK
  <2> QED BY <1>3, <2>1, <2>2 DEF EmuInterrupt, TypeOK
<1>4. CASE EmuRead
  <2>1. emu' \in {"guest", "monitor", "line", "gone"}
    BY <1>4 DEF EmuRead, TypeOK
  <2>2. out' \in Seq({"text", "pro", "mpt"}) /\ Len(out') <= MaxOut
    BY <1>4, PromptAppended DEF EmuRead, TypeOK
  <2>3. keys' \in Seq(Keys) /\ Len(keys') <= MaxKeys
    <3>1. keys \in Seq(Keys) /\ keys # <<>> /\ Len(keys) <= MaxKeys
      BY <1>4 DEF EmuRead, TypeOK
    <3>2. CASE keys' = <<>>
      BY <3>2
    <3>3. CASE keys' = Tail(keys)
      BY <3>1, <3>3
    <3> QED BY <1>4, <3>2, <3>3 DEF EmuRead
  <2>4. hist' \in Histories
    <3>1. hist \in Histories /\ hist.astray \in SUBSET Telling
      BY DEF TypeOK, Histories
    <3>2. PICK astray \in SUBSET Telling : hist' = [hist EXCEPT !.astray = astray]
      BY <1>4, <3>1 DEF EmuRead
    <3> QED BY <3>1, <3>2 DEF Histories
  <2> QED BY <1>4, <2>1, <2>2, <2>3, <2>4 DEF EmuRead, TypeOK
<1>5. CASE EmuExit
  BY <1>5 DEF EmuExit, TypeOK
<1> QED BY <1>1, <1>2, <1>3, <1>4, <1>5 DEF EmuStep

LEMMA TickTypes ==
  ASSUME TypeOK, Tick
  PROVE  TypeOK'
<1>1. sup' \in Supervisors
  <2>1. sup \in Supervisors /\ sup.left \in 0..Timeout
    BY DEF TypeOK, Supervisors
  <2>2. Down(sup.left) \in 0..Timeout
    BY <2>1, CountingDown
  <2>3. PICK left \in 0..Timeout : sup' = [sup EXCEPT !.left = left, !.turned = FALSE]
    BY <2>2 DEF Tick
  <2> QED BY <2>1, <2>3 DEF Supervisors
<1>2. op' \in [Operators -> Commands]
  <2>1. ASSUME NEW o \in Operators
        PROVE  [op[o] EXCEPT !.left = Down(@), !.polled = FALSE] \in Commands
    <3>1. op[o] \in Commands /\ op[o].left \in 0..(Timeout + Grace)
      BY DEF TypeOK, Commands
    <3>2. Down(op[o].left) \in 0..(Timeout + Grace)
      BY <3>1, CountingDown
    <3> QED BY <3>1, <3>2 DEF Commands
  <2> QED BY <2>1 DEF Tick
<1>3. lag' \in 0..Delay
  <2>1. lag \in 0..Delay /\ 0 \in 0..Delay
    BY DEF TypeOK
  <2>2. Up(lag, Delay) \in 0..Delay
    BY <2>1, CountingUp
  <2> QED BY <2>1, <2>2 DEF Tick
<1>4. hist' \in Histories
  <2>1. hist \in Histories /\ hist.age \in 0..Never /\ Never \in Nat
    BY DEF TypeOK, Histories, Never
  <2>2. Up(hist.age, Never) \in 0..Never
    BY <2>1, CountingUp
  <2>3. 0 \in 0..Never
    BY <2>1
  <2>4. PICK age \in 0..Never : hist' = [hist EXCEPT !.age = age]
    BY <2>2, <2>3 DEF Tick
  <2> QED BY <2>1, <2>4 DEF Histories
<1> QED BY <1>1, <1>2, <1>3, <1>4 DEF Tick, TypeOK

LEMMA StutterTypes == TypeOK /\ UNCHANGED vars => TypeOK'
BY DEF TypeOK, vars

\* Every variable keeps its type.
THEOREM TypeCorrect == Spec => []TypeOK
<1>1. TypeOK /\ [Next]_vars => TypeOK'
  BY SupTypes, EmuTypes, TickTypes, StopTypes, StutterTypes DEF Next
<1> QED BY <1>1, InitTypes, PTL DEF Spec

------------------------------------------------------------------------------
(* The bound. *)

LEMMA InitBound == Init => InTime /\ Budget
BY DEF Init, InTime, Budget

\* The numbers that InTime and Budget compare.
LEMMA Numbers ==
  ASSUME TypeOK
  PROVE  Timeout \in Nat /\ Timeout > 0 /\ sup.left \in 0..Timeout /\ hist.age \in Nat
BY DEF TypeOK, Supervisors, Histories

LEMMA SupBound ==
  ASSUME BInv, SupStep
  PROVE  (InTime /\ Budget)'
<1> USE Numbers DEF BInv, InTime, Budget
<1>t. sup \in Supervisors /\ hist \in Histories
  BY DEF TypeOK
<1>1. CASE SupBegin
  <2>1. /\ sup'.pc = "select" /\ sup'.stop /\ sup'.left = Timeout /\ hist'.age = 0
        /\ sup'.phase \in {"monitor", "exit"}
    BY <1>1, <1>t DEF SupBegin, Begun, Supervisors, Histories
  <2> QED BY <2>1
<1>2. CASE SupTimeout
  BY <1>2, <1>t DEF SupTimeout, Supervisors
<1>3. CASE SupClear
  BY <1>3, <1>t DEF SupClear, Supervisors, Histories
<1>4. CASE SupTop
  <2>1. /\ sup.pc = "top" /\ sup'.pc = "select" /\ sup'.stop = sup.stop /\ sup'.left = sup.left
        /\ sup'.phase = sup.phase /\ hist' = hist /\ emu' = emu
        /\ sup.phase # "none" => sup.left > 0 \/ emu = "gone"
    BY <1>4, <1>t DEF SupTop, Supervisors
  <2> QED BY <2>1
<1>5. CASE SupRead
  <2>1. PICK n \in 1..Len(out) :
          LET data == SubSeq(out, 1, n)
          IN /\ hist' = [hist EXCEPT !.sure =
                  IF Witnessed(data) THEN emu = "monitor" /\ keys = <<>> ELSE @]
             /\ sup' = [sup EXCEPT !.phase = PhaseAfter(data),
                                   !.left = IF Rearms(data) THEN Timeout ELSE @]
    BY <1>5 DEF SupRead
  <2> DEFINE data == SubSeq(out, 1, n)
  <2>2. /\ sup.pc = "select" /\ sup'.pc = "select" /\ sup'.stop = sup.stop
        /\ emu' = emu /\ hist'.age = hist.age
    BY <1>5, <1>t, <2>1 DEF SupRead, Supervisors, Histories
  <2>3. CASE Confirms(data)
    <3>1. sup.phase = "monitor" /\ sup'.phase = "exit" /\ sup'.left = Timeout
      BY <1>t, <2>1, <2>3 DEF Confirms, PhaseAfter, Rearms, Supervisors
    <3> QED BY <2>2, <3>1
  <2>4. CASE ~Confirms(data)
    <3>1. sup'.phase = sup.phase /\ sup'.left = sup.left
      BY <1>t, <2>1, <2>4 DEF PhaseAfter, Rearms, Supervisors
    <3> QED BY <2>2, <3>1
  <2> QED BY <2>3, <2>4
<1>6. CASE SupRelay
  BY <1>6, <1>t DEF SupRelay, Histories
<1>7. CASE SupExpire
  BY <1>7, <1>t DEF SupExpire, Supervisors
<1>8. CASE SupRunning
  BY <1>8, <1>t DEF SupRunning, Supervisors
<1>9. CASE SupExited
  BY <1>9, <1>t DEF SupExited, Supervisors, Histories
<1>10. CASE SupRelease
  BY <1>10, <1>t DEF SupRelease, Supervisors
<1> QED BY <1>1, <1>2, <1>3, <1>4, <1>5, <1>6, <1>7, <1>8, <1>9, <1>10 DEF SupStep

LEMMA OtherBound ==
  ASSUME BInv, EmuStep \/ (\E o \in Operators : StopStep(o)) \/ UNCHANGED vars
  PROVE  (InTime /\ Budget)'
<1>1. /\ sup'.pc = sup.pc /\ sup'.phase = sup.phase /\ sup'.left = sup.left
      /\ sup'.turned = sup.turned /\ (sup.stop => sup'.stop)
      /\ hist'.age = hist.age /\ (emu = "gone" => emu' = "gone")
  <2>t. sup \in Supervisors /\ hist \in Histories
    BY DEF BInv, TypeOK
  <2>1. CASE EmuStep
    <3>1. UNCHANGED sup
      BY <2>1 DEF EmuStep, EmuText, EmuHalt, EmuInterrupt, EmuRead, EmuExit
    <3>2. hist'.age = hist.age
      BY <2>1, <2>t DEF EmuStep, EmuText, EmuHalt, EmuInterrupt, EmuRead, EmuExit, Histories
    <3>3. emu = "gone" => emu' = "gone"
      BY <2>1 DEF EmuStep, EmuText, EmuHalt, EmuInterrupt, EmuRead, EmuExit
    <3> QED BY <3>1, <3>2, <3>3
  <2>2. ASSUME NEW o \in Operators, StopStep(o)
        PROVE  <1>1!:
    BY <2>2, <2>t DEF StopStep, StopCheck, StopSignal, StopPoll, StopExpire, Supervisors
  <2>3. CASE UNCHANGED vars
    BY <2>3 DEF vars
  <2> QED BY <2>1, <2>2, <2>3
<1> QED BY <1>1, Numbers DEF BInv, InTime, Budget

\* The clock passes no deadline: what a tick adds to the age it takes from what is left.
LEMMA TickBound ==
  ASSUME BInv, Tick
  PROVE  (InTime /\ Budget)'
<1>t. sup \in Supervisors /\ hist \in Histories
  BY DEF BInv, TypeOK
<1>1. /\ sup'.pc = sup.pc /\ sup'.phase = sup.phase /\ sup'.stop = sup.stop
      /\ sup'.left = Down(sup.left) /\ ~sup'.turned
      /\ hist'.age = IF sup.pc = "top" /\ sup.phase # "none" THEN Up(hist.age, Never) ELSE 0
      /\ sup.pc = "top" => sup.turned
      /\ sup.pc \in {"top", "release", "dead"} /\ emu' = emu
  BY <1>t DEF Tick, Supervisors, Histories
<1>2. CASE sup.pc = "top" /\ sup.phase # "none"
  <2>1. sup.left > 0 /\ sup'.left = sup.left - 1
    BY <1>1, <1>2, Numbers, CountingDown DEF BInv, InTime
  <2>2. hist'.age <= hist.age + 1 /\ hist'.age \in Nat
    <3>1. hist.age \in 0..Never /\ Never \in Nat
      BY <1>t DEF Histories, Never
    <3>2. Up(hist.age, Never) \in 0..Never /\ Up(hist.age, Never) <= hist.age + 1
      BY <3>1, CountingUp
    <3> QED BY <1>1, <1>2, <3>1, <3>2
  <2>3. sup.phase \in {"monitor", "exit"}
    BY <1>2, <1>t DEF Supervisors
  <2> QED BY <1>1, <1>2, <2>1, <2>2, <2>3, Numbers DEF BInv, InTime, Budget
<1>3. CASE ~(sup.pc = "top" /\ sup.phase # "none")
  <2>1. hist'.age = 0
    BY <1>1, <1>3
  <2> QED BY <1>1, <1>3, <2>1, Numbers DEF InTime, Budget
<1> QED BY <1>2, <1>3

LEMMA BoundStep ==
  ASSUME BInv, [Next]_vars
  PROVE  BInv'
<1>1. TypeOK'
  BY SupTypes, EmuTypes, TickTypes, StopTypes, StutterTypes DEF Next, BInv
<1>2. (InTime /\ Budget)'
  BY SupBound, OtherBound, TickBound DEF Next
<1> QED BY <1>1, <1>2 DEF BInv

\* A stop that has been taken up is decided within twice the timeout, whatever the
\* emulator prints, the clients type and other stop commands signal.
THEOREM StopsAreBounded == Spec => []StopIsBounded
<1>1. Init => BInv
  BY InitTypes, InitBound DEF BInv
<1>2. BInv /\ [Next]_vars => BInv'
  BY BoundStep
<1>3. BInv => StopIsBounded
  BY DEF BInv, Budget, StopIsBounded
<1> QED BY <1>1, <1>2, <1>3, PTL DEF Spec

------------------------------------------------------------------------------
(* The answer of recover-stop. *)

\* A recover-stop that has not seen a new failure has neither answered FAILED nor taken
\* the FAILED it found for the start of its own stop.
FirstFailure ==
  \A o \in Operators : op[o].recovery /\ ~op[o].again =>
    /\ op[o].answer # "failed"
    /\ op[o].pc = "wait" /\ op[o].started => state # "failed"

LEMMA FailKeepsAnswers ==
  ASSUME TypeOK, FirstFailure, Fail
  PROVE  FirstFailure'
<1> SUFFICES ASSUME NEW o \in Operators, op'[o].recovery, ~op'[o].again
             PROVE  /\ op'[o].answer # "failed"
                    /\ op'[o].pc = "wait" /\ op'[o].started => state' # "failed"
  BY DEF FirstFailure
<1>1. op[o] \in Commands /\ op'[o] = [op[o] EXCEPT !.again = @ \/ op[o].pc = "wait"]
  BY DEF Fail, TypeOK
<1>2. /\ op'[o].recovery = op[o].recovery /\ op'[o].answer = op[o].answer
      /\ op'[o].pc = op[o].pc /\ op'[o].again = (op[o].again \/ op[o].pc = "wait")
  BY <1>1 DEF Commands
<1>3. ~op[o].again /\ op[o].pc # "wait"
  BY <1>2
<1> QED BY <1>2, <1>3 DEF FirstFailure

LEMMA SupKeepsAnswers ==
  ASSUME TypeOK, FirstFailure, SupStep \/ EmuStep \/ UNCHANGED vars
  PROVE  FirstFailure'
<1>1. CASE Fail
  BY <1>1, FailKeepsAnswers
<1>2. CASE UNCHANGED op /\ (state' = "failed" => state = "failed")
  BY <1>2 DEF FirstFailure
<1>3. Fail \/ (UNCHANGED op /\ (state' = "failed" => state = "failed"))
  <2>1. CASE SupBegin
    BY <2>1 DEF SupBegin
  <2>2. CASE SupTimeout \/ SupExpire
    BY <2>2 DEF SupTimeout, SupExpire
  <2>6. CASE SupExited
    <3>1. Fail \/ (state' = "resetting" /\ UNCHANGED op)
      BY <2>6 DEF SupExited
    <3> QED BY <3>1
  <2>7. CASE SupRelease
    <3>1. Fail \/ (state' = "released" /\ UNCHANGED op)
      BY <2>7 DEF SupRelease
    <3> QED BY <3>1
  <2>3. CASE SupClear \/ SupTop \/ SupRead \/ SupRelay \/ SupRunning
    BY <2>3 DEF SupClear, SupTop, SupRead, SupRelay, SupRunning
  <2>4. CASE EmuStep
    BY <2>4 DEF EmuStep, EmuText, EmuHalt, EmuInterrupt, EmuRead, EmuExit
  <2>5. CASE UNCHANGED vars
    BY <2>5 DEF vars
  <2> QED BY <2>1, <2>2, <2>3, <2>4, <2>5, <2>6, <2>7 DEF SupStep
<1> QED BY <1>1, <1>2, <1>3

LEMMA StopKeepsAnswers ==
  ASSUME TypeOK, FirstFailure, NEW o \in Operators, StopStep(o)
  PROVE  FirstFailure'
<1>o. UNCHANGED state /\ \A x \in Operators \ {o} : op'[x] = op[x]
  BY DEF StopStep, StopCheck, StopSignal, StopPoll, StopExpire, Answered, TypeOK
<1>1. SUFFICES ASSUME op'[o].recovery, ~op'[o].again
               PROVE  /\ op'[o].answer # "failed"
                      /\ op'[o].pc = "wait" /\ op'[o].started => state # "failed"
  BY <1>o DEF FirstFailure
<1>t. op[o] \in Commands
  BY DEF TypeOK
<1>2. CASE \E recovery \in BOOLEAN : StopCheck(o, recovery)
  <2>1. PICK recovery \in BOOLEAN :
          op'[o] = [Idle EXCEPT !.pc = "signal", !.recovery = recovery]
    BY <1>2 DEF StopCheck, TypeOK
  <2> QED BY <2>1 DEF Idle
<1>3. CASE StopSignal(o)
  <2>1. CASE Alive
    <3>1. op'[o] = [op[o] EXCEPT !.pc = "wait", !.left = Timeout + Grace, !.started = Started(o)]
      BY <1>3, <2>1 DEF StopSignal, TypeOK
    <3> QED BY <1>1, <1>t, <3>1 DEF Commands, Started, FirstFailure
  <2>2. CASE ~Alive
    <3>1. op'[o] = Idle
      BY <1>3, <2>2 DEF StopSignal, TypeOK
    <3> QED BY <1>1, <3>1 DEF Idle
  <2> QED BY <2>1, <2>2
<1>4. CASE StopPoll(o)
  <2> DEFINE started == op[o].started \/ state = "stopping"
  <2>1. op[o].pc = "wait"
    BY <1>4 DEF StopPoll
  <2>2. CASE started /\ state \in {"resetting", "released", "failed"}
    <3>1. op'[o] = [op[o] EXCEPT !.pc = "idle", !.left = 0, !.polled = FALSE, !.answer = state]
      BY <1>4, <2>2 DEF StopPoll, Answered, TypeOK
    <3>2. /\ op[o].recovery /\ ~op[o].again /\ op'[o].pc = "idle" /\ op'[o].answer = state
      BY <1>1, <1>t, <3>1 DEF Commands
    <3> QED BY <2>1, <2>2, <3>2 DEF FirstFailure
  <2>3. CASE ~(started /\ state \in {"resetting", "released", "failed"})
    <3>1. op'[o] = [op[o] EXCEPT !.started = started, !.polled = TRUE]
      BY <1>4, <2>3 DEF StopPoll, TypeOK
    <3>2. /\ op[o].recovery /\ ~op[o].again /\ op'[o].answer = op[o].answer
          /\ op'[o].started = started
      BY <1>1, <1>t, <3>1 DEF Commands
    <3> QED BY <2>3, <3>2 DEF FirstFailure
  <2> QED BY <2>2, <2>3
<1>5. CASE StopExpire(o)
  <2>1. op'[o] = [op[o] EXCEPT !.pc = "idle", !.left = 0, !.polled = FALSE, !.answer = "expired"]
    BY <1>5 DEF StopExpire, Answered, TypeOK
  <2> QED BY <1>t, <2>1 DEF Commands
<1> QED BY <1>2, <1>3, <1>4, <1>5 DEF StopStep

\* Tick only counts down.
LEMMA TickKeepsAnswers ==
  ASSUME TypeOK, FirstFailure, Tick
  PROVE  FirstFailure'
<1> SUFFICES ASSUME NEW o \in Operators, op'[o].recovery, ~op'[o].again
             PROVE  /\ op'[o].answer # "failed"
                    /\ op'[o].pc = "wait" /\ op'[o].started => state' # "failed"
  BY DEF FirstFailure
<1>1. op[o] \in Commands /\ op'[o] = [op[o] EXCEPT !.left = Down(@), !.polled = FALSE]
  BY DEF Tick, TypeOK
<1>2. /\ op'[o].recovery = op[o].recovery /\ op'[o].answer = op[o].answer
      /\ op'[o].pc = op[o].pc /\ op'[o].again = op[o].again /\ op'[o].started = op[o].started
  BY <1>1 DEF Commands
<1> QED BY <1>2 DEF FirstFailure, Tick

\* recover-stop, which begins in FAILED, never reports that old failure as its outcome.
THEOREM RecoveriesAnswerAnew == Spec => []RecoveryAnswerIsNew
<1>1. Init => FirstFailure
  BY DEF Init, Idle, FirstFailure
<1>2. TypeOK /\ FirstFailure /\ [Next]_vars => FirstFailure'
  BY SupKeepsAnswers, StopKeepsAnswers, TickKeepsAnswers DEF Next
<1>3. FirstFailure => RecoveryAnswerIsNew
  BY DEF FirstFailure, RecoveryAnswerIsNew
<1> QED BY <1>1, <1>2, <1>3, TypeCorrect, PTL DEF Spec

------------------------------------------------------------------------------
(* Where input arrives.  Positions in keys are those of unread input, and the    *)
(* first position after it is that of the next key to be sent.                   *)

\* What stands at position j will find the emulator at its monitor, or gone, since
\* nothing before it resumes the guest ...
AtMonitor(j) == emu # "guest" /\ \A k \in 1..(j - 1) : keys[k] # "cont"

\* ... or it stands after a Ctrl-E that will bring the guest there.
Reaches(j) ==
  \/ AtMonitor(j)
  \/ \E i \in 1..(j - 1) : keys[i] = "enter" /\ \A k \in i..(j - 1) : keys[k] # "cont"

\* The same of what is sent next.
NextAtMonitor == AtMonitor(Len(keys) + 1)
NextReaches == Reaches(Len(keys) + 1)

QuitsReach ==
  /\ \A j \in 1..Len(keys) : keys[j] = "quit" => Reaches(j)
  /\ sup.phase = "monitor" /\ ~hist.typed => NextReaches
  /\ "quit" \notin hist.astray

\* Evidence that was true when it was observed, as long as it stands.
EvidenceHolds ==
  /\ \A j \in 1..Len(keys) : keys[j] = "evident" => AtMonitor(j)
  /\ Live /\ hist.sure => NextAtMonitor
  /\ "evident" \notin hist.astray

\* A key that is sent moves nothing before it.
LEMMA Sent ==
  ASSUME TypeOK, NEW key \in Keys, Send(key), UNCHANGED emu
  PROVE  /\ Len(keys') = Len(keys) + 1
         /\ \A j \in 1..Len(keys) : keys'[j] = keys[j]
         /\ keys'[Len(keys) + 1] = key
         /\ \A j \in 1..(Len(keys) + 1) : /\ AtMonitor(j) => AtMonitor(j)'
                                          /\ Reaches(j) => Reaches(j)'
         /\ NextAtMonitor /\ key # "cont" => NextAtMonitor'
         /\ key = "enter" => NextReaches'
<1>1. /\ Len(keys') = Len(keys) + 1
      /\ \A j \in 1..Len(keys) : keys'[j] = keys[j]
      /\ keys'[Len(keys) + 1] = key
  BY DEF TypeOK, Send
<1>2. Len(keys) \in Nat
  BY DEF TypeOK
<1>3. ASSUME NEW j \in 1..(Len(keys) + 1), AtMonitor(j)
      PROVE  AtMonitor(j)'
  BY <1>1, <1>2, <1>3 DEF AtMonitor
<1>4. ASSUME NEW j \in 1..(Len(keys) + 1), Reaches(j), ~AtMonitor(j)
      PROVE  Reaches(j)'
  <2>1. PICK i \in 1..(j - 1) : keys[i] = "enter" /\ \A k \in i..(j - 1) : keys[k] # "cont"
    BY <1>4 DEF Reaches
  <2>2. keys'[i] = "enter" /\ \A k \in i..(j - 1) : keys'[k] # "cont"
    BY <1>1, <1>2, <2>1
  <2> QED BY <2>2 DEF Reaches
<1>5. ASSUME NextAtMonitor, key # "cont"
      PROVE  NextAtMonitor'
  BY <1>1, <1>2, <1>5 DEF NextAtMonitor, AtMonitor
<1>6. ASSUME key = "enter"
      PROVE  NextReaches'
  <2> DEFINE i == Len(keys) + 1
  <2>1. i \in 1..(Len(keys') + 1 - 1) /\ keys'[i] = "enter"
    BY <1>1, <1>2, <1>6
  <2>2. \A k \in i..(Len(keys') + 1 - 1) : keys'[k] # "cont"
    BY <1>1, <1>2, <1>6
  <2> QED BY <2>1, <2>2 DEF NextReaches, Reaches
<1> QED BY <1>1, <1>3, <1>4, <1>5, <1>6 DEF Reaches

\* Input that is read, swallowed or flushed moves the rest forward, and never to a guest
\* that was not to get it.
LEMMA Taken ==
  ASSUME TypeOK, EmuRead \/ EmuInterrupt
  PROVE  \/ keys' = <<>> /\ emu' = "gone"
         \/ \E d \in 1..Len(keys) :
              /\ Len(keys') = Len(keys) - d
              /\ \A j \in 1..Len(keys') : keys'[j] = keys[j + d]
              /\ \A j \in 1..(Len(keys') + 1) : /\ AtMonitor(j + d) => AtMonitor(j)'
                                                /\ Reaches(j + d) => Reaches(j)'
              /\ NextAtMonitor => NextAtMonitor'
              /\ NextReaches => NextReaches'
<1>l. keys \in Seq(Keys) /\ Len(keys) \in Nat
  BY DEF TypeOK
<1>n. ASSUME NEW d \in 1..Len(keys), Len(keys') = Len(keys) - d,
             \A j \in 1..(Len(keys') + 1) : /\ AtMonitor(j + d) => AtMonitor(j)'
                                            /\ Reaches(j + d) => Reaches(j)'
      PROVE  (NextAtMonitor => NextAtMonitor') /\ (NextReaches => NextReaches')
  <2>0. Len(keys') \in Nat
    BY <1>l, <1>n
  <2>1. PICK m \in Nat : m = Len(keys') + 1
    BY <2>0
  <2>2. m + d = Len(keys) + 1
    BY <1>l, <1>n, <2>1
  <2>m. m \in 1..(Len(keys') + 1)
    BY <2>0, <2>1
  <2>3. (NextAtMonitor => AtMonitor(m)') /\ (NextReaches => Reaches(m)')
    <3>1. (NextAtMonitor => AtMonitor(m + d)) /\ (NextReaches => Reaches(m + d))
      BY <2>2 DEF NextAtMonitor, NextReaches
    <3>2. (AtMonitor(m + d) => AtMonitor(m)') /\ (Reaches(m + d) => Reaches(m)')
      BY <1>n, <2>m
    <3> QED BY <3>1, <3>2
  <2>4. (AtMonitor(m)' => NextAtMonitor') /\ (Reaches(m)' => NextReaches')
    BY <2>1 DEF NextAtMonitor, NextReaches, AtMonitor, Reaches
  <2> QED BY <2>3, <2>4
<1>1. CASE EmuRead /\ emu' # "gone"
  <2>1. keys # <<>> /\ keys' = Tail(keys)
    BY <1>1 DEF EmuRead
  <2>2. 1 \in 1..Len(keys) /\ Len(keys') = Len(keys) - 1 /\ Head(keys) = keys[1]
    BY <1>l, <2>1
  <2>3. \A j \in 1..Len(keys') : keys'[j] = keys[j + 1]
    BY <1>l, <2>1, <2>2
  <2>4. /\ emu = "guest" => emu' = "guest" /\ keys[1] # "enter"
        /\ emu # "guest" /\ keys[1] # "cont" => emu' # "guest"
    BY <1>1, <2>2 DEF EmuRead
  <2>5. ASSUME NEW j \in 1..(Len(keys') + 1), AtMonitor(j + 1)
        PROVE  AtMonitor(j)'
    <3>1. emu # "guest" /\ \A k \in 1..j : keys[k] # "cont"
      BY <2>5, <1>l, <2>2 DEF AtMonitor
    <3>2. emu' # "guest"
      BY <2>4, <3>1, <1>l, <2>2
    <3>3. \A k \in 1..(j - 1) : keys'[k] # "cont"
      BY <2>3, <3>1, <1>l, <2>2
    <3> QED BY <3>2, <3>3 DEF AtMonitor
  <2>6. ASSUME NEW j \in 1..(Len(keys') + 1), Reaches(j + 1), ~AtMonitor(j + 1)
        PROVE  Reaches(j)'
    <3>1. PICK i \in 1..j : keys[i] = "enter" /\ \A k \in i..j : keys[k] # "cont"
      BY <2>6, <1>l, <2>2 DEF Reaches
    <3>2. CASE i = 1
      <4>1. emu' # "guest"
        BY <2>4, <3>1, <3>2
      <4>2. \A k \in 1..(j - 1) : keys'[k] # "cont"
        BY <2>3, <3>1, <3>2, <1>l, <2>2
      <4> QED BY <4>1, <4>2 DEF Reaches, AtMonitor
    <3>3. CASE i > 1
      <4>1. i - 1 \in 1..(j - 1) /\ keys'[i - 1] = "enter"
        BY <2>3, <3>1, <3>3, <1>l, <2>2
      <4>2. \A k \in (i - 1)..(j - 1) : keys'[k] # "cont"
        BY <2>3, <3>1, <3>3, <1>l, <2>2
      <4> QED BY <4>1, <4>2 DEF Reaches
    <3> QED BY <3>1, <3>2, <3>3
  <2>7. \A j \in 1..(Len(keys') + 1) : /\ AtMonitor(j + 1) => AtMonitor(j)'
                                       /\ Reaches(j + 1) => Reaches(j)'
    BY <2>5, <2>6 DEF Reaches
  <2> QED BY <1>n, <2>2, <2>3, <2>7
<1>2. CASE EmuRead /\ emu' = "gone"
  BY <1>2 DEF EmuRead
<1>3. CASE EmuInterrupt
  <2>1. PICK d \in 1..Len(keys) : keys[d] = "enter" /\ keys' = SubSeq(keys, d + 1, Len(keys))
    BY <1>3 DEF EmuInterrupt
  <2>2. emu' = "monitor" /\ Len(keys') = Len(keys) - d
    BY <1>3, <1>l, <2>1, RestLength DEF EmuInterrupt
  <2>3. \A j \in 1..Len(keys') : keys'[j] = keys[j + d]
    BY <1>l, <2>1, <2>2, SubSeqProperties
  <2>4. ASSUME NEW j \in 1..(Len(keys') + 1), \A k \in d..(j + d - 1) : keys[k] # "cont"
        PROVE  AtMonitor(j)'
    <3>1. \A k \in 1..(j - 1) : keys'[k] # "cont"
      BY <2>3, <2>4, <1>l, <2>2
    <3> QED BY <2>2, <3>1 DEF AtMonitor
  <2>5. ASSUME NEW j \in 1..(Len(keys') + 1), AtMonitor(j + d)
        PROVE  AtMonitor(j)'
    <3>1. \A k \in 1..(j + d - 1) : keys[k] # "cont"
      BY <2>5 DEF AtMonitor
    <3> QED BY <2>4, <3>1
  <2>6. ASSUME NEW j \in 1..(Len(keys') + 1), Reaches(j + d), ~AtMonitor(j + d)
        PROVE  Reaches(j)'
    <3>1. PICK i \in 1..(j + d - 1) :
            keys[i] = "enter" /\ \A k \in i..(j + d - 1) : keys[k] # "cont"
      BY <2>6 DEF Reaches
    <3>2. CASE i <= d
      BY <2>4, <3>1, <3>2 DEF Reaches
    <3>3. CASE i > d
      <4>1. i - d \in 1..(j - 1) /\ keys'[i - d] = "enter"
        BY <2>3, <3>1, <3>3, <1>l, <2>2
      <4>2. \A k \in (i - d)..(j - 1) : keys'[k] # "cont"
        BY <2>3, <3>1, <3>3, <1>l, <2>2
      <4> QED BY <4>1, <4>2 DEF Reaches
    <3> QED BY <3>1, <3>2, <3>3
  <2>7. \A j \in 1..(Len(keys') + 1) : /\ AtMonitor(j + d) => AtMonitor(j)'
                                       /\ Reaches(j + d) => Reaches(j)'
    BY <2>5, <2>6 DEF Reaches
  <2> QED BY <1>n, <2>2, <2>3, <2>7
<1> QED BY <1>1, <1>2, <1>3

\* Steps that move no key, do not resume the guest and promise nothing new.
LEMMA KeysStand ==
  ASSUME TypeOK, QuitsReach, EvidenceHolds,
         UNCHANGED keys, emu # "guest" => emu' # "guest",
         sup'.phase = "monitor" => sup.phase = "monitor",
         hist'.typed = hist.typed, hist'.sure = hist.sure, hist'.astray = hist.astray,
         Live' => Live
  PROVE  QuitsReach' /\ EvidenceHolds'
<1>1. \A j : /\ AtMonitor(j) => AtMonitor(j)'
             /\ Reaches(j) => Reaches(j)'
  BY DEF AtMonitor, Reaches
<1>2. (NextAtMonitor => NextAtMonitor') /\ (NextReaches => NextReaches')
  BY DEF NextAtMonitor, NextReaches, AtMonitor, Reaches
<1> QED BY <1>1, <1>2 DEF QuitsReach, EvidenceHolds

LEMMA SupSends ==
  ASSUME TypeOK, QuitsReach, EvidenceHolds, SupBegin \/ SupRelay
  PROVE  QuitsReach' /\ EvidenceHolds'
<1>t. sup \in Supervisors /\ hist \in Histories /\ drv \in Drivers /\ Len(keys) \in Nat
  BY DEF TypeOK
<1>1. CASE SupBegin
  <2>1. /\ Begun.key \in Keys /\ Send(Begun.key) /\ UNCHANGED emu
        /\ sup'.phase = Begun.phase /\ ~hist'.typed /\ hist'.sure = hist.sure
        /\ hist'.astray = hist.astray /\ profile' = profile /\ drv' = Begun.drv
    BY <1>1, <1>t DEF SupBegin, Begun, Keys, Supervisors, Histories
  <2>2. Live' => Live
    BY <2>1, <1>t DEF Begun, Live, Drivers
  <2>3. /\ Len(keys') = Len(keys) + 1
        /\ \A j \in 1..Len(keys) : keys'[j] = keys[j]
        /\ keys'[Len(keys) + 1] = Begun.key
        /\ \A j \in 1..(Len(keys) + 1) : /\ AtMonitor(j) => AtMonitor(j)'
                                         /\ Reaches(j) => Reaches(j)'
        /\ NextAtMonitor /\ Begun.key # "cont" => NextAtMonitor'
        /\ Begun.key = "enter" => NextReaches'
    BY <2>1, Sent
  <2>4. CASE Live
    <3>1. Begun.phase = "exit" /\ Begun.key # "quit"
          /\ (Begun.key = "evident" => hist.sure) /\ Begun.key # "cont"
      BY <2>4 DEF Begun
    <3>2. QuitsReach'
      BY <1>t, <2>1, <2>3, <3>1 DEF QuitsReach
    <3>3. \A j \in 1..Len(keys') : keys'[j] = "evident" => AtMonitor(j)'
      <4> SUFFICES ASSUME NEW j \in 1..Len(keys'), keys'[j] = "evident" PROVE AtMonitor(j)'
        OBVIOUS
      <4>1. CASE j \in 1..Len(keys)
        <5>1. AtMonitor(j) /\ j \in 1..(Len(keys) + 1)
          BY <1>t, <2>3, <4>1 DEF EvidenceHolds
        <5> QED BY <2>3, <5>1
      <4>2. CASE j = Len(keys) + 1
        <5>1. NextAtMonitor /\ j \in 1..(Len(keys) + 1)
          BY <1>t, <2>3, <2>4, <3>1, <4>2 DEF EvidenceHolds
        <5>2. AtMonitor(j)
          BY <4>2, <5>1 DEF NextAtMonitor
        <5> QED BY <2>3, <5>1, <5>2
      <4> QED BY <1>t, <2>3, <4>1, <4>2
    <3>4. hist'.sure => NextAtMonitor'
      BY <2>1, <2>3, <2>4, <3>1 DEF EvidenceHolds
    <3> QED BY <2>1, <3>2, <3>3, <3>4 DEF EvidenceHolds
  <2>5. CASE ~Live
    <3>1. Begun.phase = "monitor" /\ Begun.key = "enter"
      BY <2>5 DEF Begun
    <3>2. NextReaches'
      BY <2>3, <3>1
    <3>3. \A j \in 1..Len(keys') : keys'[j] = "quit" => Reaches(j)'
      BY <1>t, <2>3, <3>1 DEF QuitsReach
    <3>4. QuitsReach'
      BY <2>1, <3>2, <3>3 DEF QuitsReach
    <3>5. EvidenceHolds'
      BY <1>t, <2>1, <2>2, <2>3, <2>5, <3>1 DEF EvidenceHolds
    <3> QED BY <3>4, <3>5
  <2> QED BY <2>4, <2>5
<1>2. CASE SupRelay
  <2>1. /\ "cont" \in Keys /\ Send("cont") /\ UNCHANGED emu /\ hist'.typed
        /\ hist'.astray = hist.astray
    BY <1>2, <1>t DEF SupRelay, Keys, Histories
  <2>2. ~Live'
    BY <1>2, <1>t DEF SupRelay, Invalidated, Live, Drivers
  <2>3. /\ Len(keys') = Len(keys) + 1
        /\ \A j \in 1..Len(keys) : keys'[j] = keys[j]
        /\ keys'[Len(keys) + 1] = "cont"
        /\ \A j \in 1..(Len(keys) + 1) : /\ AtMonitor(j) => AtMonitor(j)'
                                         /\ Reaches(j) => Reaches(j)'
    BY <2>1, Sent
  <2> QED BY <1>t, <2>1, <2>2, <2>3 DEF QuitsReach, EvidenceHolds
<1> QED BY <1>1, <1>2

\* A prompt is read: quit follows it, or it becomes evidence.
LEMMA SupReads ==
  ASSUME TypeOK, QuitsReach, EvidenceHolds, SupRead
  PROVE  QuitsReach' /\ EvidenceHolds'
<1>t. sup \in Supervisors /\ hist \in Histories /\ drv \in Drivers /\ Len(keys) \in Nat
  BY DEF TypeOK
<1>1. PICK n \in 1..Len(out) :
        LET data == SubSeq(out, 1, n)
        IN /\ drv' = Observed(data)
           /\ IF Confirms(data)
                THEN Len(keys) < MaxKeys /\ Send(IF hist.typed THEN "hasty" ELSE "quit")
                ELSE UNCHANGED keys
           /\ hist' = [hist EXCEPT !.sure =
                IF Witnessed(data) THEN emu = "monitor" /\ keys = <<>> ELSE @]
           /\ sup' = [sup EXCEPT !.phase = PhaseAfter(data),
                                 !.left = IF Rearms(data) THEN Timeout ELSE @]
  BY DEF SupRead
<1> DEFINE data == SubSeq(out, 1, n)
<1>2. UNCHANGED <<emu, profile>>
  BY DEF SupRead
<1>3. /\ hist'.typed = hist.typed /\ hist'.astray = hist.astray
      /\ hist'.sure = IF Witnessed(data) THEN emu = "monitor" /\ keys = <<>> ELSE hist.sure
      /\ sup'.phase = PhaseAfter(data) /\ drv'.evidence = (drv.evidence \/ Witnessed(data))
  BY <1>1, <1>t DEF Histories, Supervisors, Observed
<1>4. CASE Confirms(data)
  <2> DEFINE key == IF hist.typed THEN "hasty" ELSE "quit"
  <2>1. sup.phase = "monitor" /\ ~Witnessed(data) /\ PhaseAfter(data) = "exit"
    BY <1>4 DEF Confirms, Witnessed, Watching, PhaseAfter
  <2>2. key \in Keys /\ Send(key)
    BY <1>1, <1>4 DEF Keys
  <2>3. /\ Len(keys') = Len(keys) + 1
        /\ \A j \in 1..Len(keys) : keys'[j] = keys[j]
        /\ keys'[Len(keys) + 1] = key
        /\ \A j \in 1..(Len(keys) + 1) : /\ AtMonitor(j) => AtMonitor(j)'
                                         /\ Reaches(j) => Reaches(j)'
        /\ NextAtMonitor => NextAtMonitor'
    BY <1>2, <2>2, Sent
  <2>4. QuitsReach'
    <3> SUFFICES ASSUME NEW j \in 1..Len(keys'), keys'[j] = "quit" PROVE Reaches(j)'
      BY <1>3, <2>1 DEF QuitsReach
    <3>1. CASE j \in 1..Len(keys)
      <4>1. Reaches(j) /\ j \in 1..(Len(keys) + 1)
        BY <1>t, <2>3, <3>1 DEF QuitsReach
      <4> QED BY <2>3, <4>1
    <3>2. CASE j = Len(keys) + 1
      <4>1. NextReaches /\ j \in 1..(Len(keys) + 1)
        BY <1>t, <2>1, <2>3, <3>2 DEF QuitsReach
      <4>2. Reaches(j)
        BY <3>2, <4>1 DEF NextReaches
      <4> QED BY <2>3, <4>1, <4>2
    <3> QED BY <1>t, <2>3, <3>1, <3>2
  <2>5. Live' => Live
    BY <1>2, <1>3, <2>1 DEF Live
  <2>6. Live' /\ hist'.sure => NextAtMonitor'
    BY <1>3, <2>1, <2>3, <2>5 DEF EvidenceHolds
  <2>7. \A j \in 1..Len(keys') : keys'[j] = "evident" => AtMonitor(j)'
    BY <1>t, <2>3 DEF EvidenceHolds
  <2> QED BY <1>3, <2>4, <2>6, <2>7 DEF EvidenceHolds
<1>5. CASE ~Confirms(data)
  <2>1. UNCHANGED keys /\ PhaseAfter(data) = sup.phase
    BY <1>1, <1>5 DEF PhaseAfter
  <2>2. CASE ~Witnessed(data)
    <3>1. hist'.sure = hist.sure /\ (Live' => Live)
      BY <1>2, <1>3, <2>2 DEF Live
    <3> QED BY <1>2, <1>3, <2>1, <3>1, KeysStand
  <2>3. CASE Witnessed(data)
    <3>1. \A j : /\ AtMonitor(j) => AtMonitor(j)'
                 /\ Reaches(j) => Reaches(j)'
      BY <1>2, <2>1 DEF AtMonitor, Reaches
    <3>2. NextReaches => NextReaches'
      BY <1>2, <2>1 DEF NextReaches, Reaches, AtMonitor
    <3>3. hist'.sure => NextAtMonitor'
      <4> SUFFICES ASSUME emu = "monitor", keys = <<>> PROVE NextAtMonitor'
        BY <1>3, <2>3
      <4>1. emu' = "monitor" /\ Len(keys') = 0
        BY <1>2, <2>1
      <4> QED BY <4>1 DEF NextAtMonitor, AtMonitor
    <3> QED BY <1>3, <2>1, <3>1, <3>2, <3>3 DEF QuitsReach, EvidenceHolds
  <2> QED BY <2>2, <2>3
<1> QED BY <1>4, <1>5

\* The emulator takes input; the guest may get a key, but not one that tells it to quit.
LEMMA EmuTakes ==
  ASSUME TypeOK, QuitsReach, EvidenceHolds, EmuRead \/ EmuInterrupt
  PROVE  QuitsReach' /\ EvidenceHolds'
<1>t. hist \in Histories /\ keys \in Seq(Keys) /\ Len(keys) \in Nat
  BY DEF TypeOK
<1>1. UNCHANGED <<sup, drv, profile>> /\ hist'.typed = hist.typed /\ hist'.sure = hist.sure
  BY <1>t DEF EmuRead, EmuInterrupt, Histories
<1>2. "quit" \notin hist'.astray /\ "evident" \notin hist'.astray
  <2>1. CASE EmuInterrupt
    BY <2>1 DEF EmuInterrupt, QuitsReach, EvidenceHolds
  <2>2. CASE EmuRead
    <3>1. 1 \in 1..Len(keys) /\ Head(keys) = keys[1]
      BY <1>t, <2>2 DEF EmuRead
    <3>2. emu = "guest" => Head(keys) \notin Telling
      BY <3>1 DEF QuitsReach, EvidenceHolds, Reaches, AtMonitor, Telling
    <3>3. hist'.astray = hist.astray
      BY <1>t, <2>2, <3>2 DEF EmuRead, Histories
    <3> QED BY <3>3 DEF QuitsReach, EvidenceHolds
  <2> QED BY <2>1, <2>2
<1>3. CASE keys' = <<>> /\ emu' = "gone"
  <2>1. Len(keys') = 0 /\ NextAtMonitor' /\ NextReaches'
    BY <1>3 DEF NextAtMonitor, NextReaches, Reaches, AtMonitor
  <2> QED BY <1>2, <2>1 DEF QuitsReach, EvidenceHolds
<1>4. CASE \E d \in 1..Len(keys) :
             /\ Len(keys') = Len(keys) - d
             /\ \A j \in 1..Len(keys') : keys'[j] = keys[j + d]
             /\ \A j \in 1..(Len(keys') + 1) : /\ AtMonitor(j + d) => AtMonitor(j)'
                                               /\ Reaches(j + d) => Reaches(j)'
             /\ NextAtMonitor => NextAtMonitor'
             /\ NextReaches => NextReaches'
  <2>1. PICK d \in 1..Len(keys) :
             /\ Len(keys') = Len(keys) - d
             /\ \A j \in 1..Len(keys') : keys'[j] = keys[j + d]
             /\ \A j \in 1..(Len(keys') + 1) : /\ AtMonitor(j + d) => AtMonitor(j)'
                                               /\ Reaches(j + d) => Reaches(j)'
             /\ NextAtMonitor => NextAtMonitor'
             /\ NextReaches => NextReaches'
    BY <1>4
  <2>2. Len(keys') \in Nat /\ \A j \in 1..Len(keys') : j + d \in 1..Len(keys)
    BY <1>t, <2>1
  <2>3. \A j \in 1..Len(keys') : /\ keys'[j] = "quit" => Reaches(j)'
                                 /\ keys'[j] = "evident" => AtMonitor(j)'
    <3> SUFFICES ASSUME NEW j \in 1..Len(keys')
                 PROVE  /\ keys'[j] = "quit" => Reaches(j)'
                        /\ keys'[j] = "evident" => AtMonitor(j)'
      OBVIOUS
    <3>1. j + d \in 1..Len(keys) /\ keys'[j] = keys[j + d] /\ j \in 1..(Len(keys') + 1)
      BY <2>1, <2>2
    <3>2. /\ keys[j + d] = "quit" => Reaches(j + d)
          /\ keys[j + d] = "evident" => AtMonitor(j + d)
      BY <3>1 DEF QuitsReach, EvidenceHolds
    <3>3. (AtMonitor(j + d) => AtMonitor(j)') /\ (Reaches(j + d) => Reaches(j)')
      BY <2>1, <3>1
    <3> QED BY <3>1, <3>2, <3>3
  <2>4. QuitsReach'
    BY <1>1, <1>2, <2>1, <2>3 DEF QuitsReach
  <2>5. EvidenceHolds'
    BY <1>1, <1>2, <2>1, <2>3 DEF EvidenceHolds, Live
  <2> QED BY <2>4, <2>5
<1> QED BY <1>3, <1>4, Taken

\* The emulator has gone, and its input with it.
LEMMA GoneHolds ==
  ASSUME TypeOK, QuitsReach, EvidenceHolds, keys' = <<>>, emu' = "gone", hist'.astray = hist.astray
  PROVE  QuitsReach' /\ EvidenceHolds'
<1>1. Len(keys') = 0 /\ NextAtMonitor' /\ NextReaches'
  BY DEF NextAtMonitor, NextReaches, Reaches, AtMonitor
<1> QED BY <1>1 DEF QuitsReach, EvidenceHolds

LEMMA InputStep ==
  ASSUME TypeOK, QuitsReach, EvidenceHolds, [Next]_vars
  PROVE  QuitsReach' /\ EvidenceHolds'
<1>t. sup \in Supervisors /\ hist \in Histories
  BY DEF TypeOK
<1>1. CASE SupBegin \/ SupRelay
  BY <1>1, SupSends
<1>2. CASE SupRead
  BY <1>2, SupReads
<1>3. CASE EmuRead \/ EmuInterrupt
  BY <1>3, EmuTakes
<1>4. CASE SupExited
  <2>1. keys' = <<>> /\ emu' = "gone" /\ hist'.astray = hist.astray
    BY <1>4, <1>t DEF SupExited, Histories
  <2> QED BY <2>1, GoneHolds
<1>5. CASE EmuExit
  <2>1. keys' = <<>> /\ emu' = "gone" /\ hist'.astray = hist.astray
    BY <1>5 DEF EmuExit
  <2> QED BY <2>1, GoneHolds
<1>6. CASE SupTimeout \/ SupClear \/ SupTop \/ SupExpire \/ SupRunning \/ SupRelease
  <2>1. UNCHANGED <<keys, emu, profile, drv>>
    BY <1>6 DEF SupTimeout, SupClear, SupTop, SupExpire, SupRunning, SupRelease
  <2>2. sup'.phase = "monitor" => sup.phase = "monitor"
    BY <1>6, <1>t DEF SupTimeout, SupClear, SupTop, SupExpire, SupRunning, SupRelease, Supervisors
  <2>3. hist'.typed = hist.typed /\ hist'.sure = hist.sure /\ hist'.astray = hist.astray
    BY <1>6, <1>t DEF SupTimeout, SupClear, SupTop, SupExpire, SupRunning, SupRelease, Histories
  <2> QED BY <2>1, <2>2, <2>3, KeysStand DEF Live
<1>7. CASE EmuText \/ EmuHalt \/ UNCHANGED vars
  <2>1. UNCHANGED <<keys, sup, drv, profile>> /\ (emu # "guest" => emu' # "guest")
    BY <1>7 DEF EmuText, EmuHalt, vars
  <2>2. hist'.typed = hist.typed /\ hist'.sure = hist.sure /\ hist'.astray = hist.astray
    BY <1>7, <1>t DEF EmuText, EmuHalt, vars, Histories
  <2> QED BY <2>1, <2>2, KeysStand DEF Live
<1>8. CASE Tick
  <2>1. UNCHANGED <<keys, emu, drv, profile>> /\ sup'.phase = sup.phase
        /\ hist'.typed = hist.typed /\ hist'.sure = hist.sure /\ hist'.astray = hist.astray
    BY <1>8, <1>t DEF Tick, Supervisors, Histories
  <2> QED BY <2>1, KeysStand DEF Live
<1>9. ASSUME NEW o \in Operators, StopStep(o)
      PROVE  QuitsReach' /\ EvidenceHolds'
  <2>1. UNCHANGED <<keys, emu, drv, profile, hist>> /\ sup'.phase = sup.phase
    BY <1>9, <1>t DEF StopStep, StopCheck, StopSignal, StopPoll, StopExpire, Supervisors
  <2> QED BY <2>1, KeysStand DEF Live
<1> QED BY <1>1, <1>2, <1>3, <1>4, <1>5, <1>6, <1>7, <1>8, <1>9 DEF Next, SupStep, EmuStep

LEMMA InputInvariant == Spec => [](QuitsReach /\ EvidenceHolds)
<1>1. Init => QuitsReach /\ EvidenceHolds
  BY DEF Init, QuitsReach, EvidenceHolds, Live
<1>2. TypeOK /\ (QuitsReach /\ EvidenceHolds) /\ [Next]_vars => (QuitsReach /\ EvidenceHolds)'
  BY InputStep
<1> QED BY <1>1, <1>2, TypeCorrect, PTL DEF Spec

\* quit is typed at the monitor, never into a running guest, when it answers a prompt
\* after Ctrl-E and no client has typed in between.
THEOREM QuitsReachMonitor == Spec => []QuitReachesMonitor
<1>1. QuitsReach /\ EvidenceHolds => QuitReachesMonitor
  BY DEF QuitsReach, QuitReachesMonitor
<1> QED BY <1>1, InputInvariant, PTL

\* The same of a quit sent without Ctrl-E, on evidence that was true when observed.
THEOREM EvidenceIsSound == Spec => []EvidenceStaysTrue
<1>1. QuitsReach /\ EvidenceHolds => EvidenceStaysTrue
  BY DEF EvidenceHolds, EvidenceStaysTrue
<1> QED BY <1>1, InputInvariant, PTL

------------------------------------------------------------------------------
(* A timely emulator. *)

\* The delay counts unread input only.
LagInv == keys = <<>> /\ emu # "gone" => lag = 0

\* Ctrl-E is on its way into a guest that prints nothing but text ...
Interrupting ==
  /\ sup.phase = "monitor" /\ emu = "guest" /\ keys = <<"enter">>
  /\ ~drv.shut /\ \A i \in 1..Len(out) : out[i] = "text"
  /\ sup.left + lag = Timeout

\* ... the prompt that answers it is on its way, the first half of it perhaps read ...
Prompted ==
  /\ sup.phase = "monitor" /\ emu = "monitor" /\ keys = <<>>
  /\ sup.left > 0
  /\ IF drv.shut
       THEN Len(out) = 1 /\ out[1] = "mpt"
       ELSE /\ Len(out) >= 2
            /\ out[Len(out) - 1] = "pro" /\ out[Len(out)] = "mpt"
            /\ \A i \in 1..(Len(out) - 2) : out[i] = "text"

\* ... and quit is on its way into the monitor.
Quitting ==
  /\ sup.phase = "exit" /\ emu = "monitor"
  /\ Len(keys) = 1 /\ keys[1] \notin {"enter", "cont"}
  /\ sup.left + lag = Timeout

\* Where a stop stands that nothing has disturbed.
OnTrack ==
  timely /\ hist.clean /\ sup.pc \in {"top", "select"} /\ sup.phase # "none" =>
    emu = "gone" \/ Interrupting \/ Prompted \/ Quitting

Undisturbed == BInv /\ LagInv /\ OnTrack /\ TimelyStopSucceeds

\* What a timely emulator's delay leaves of the timeout.
LEMMA Lags ==
  ASSUME TypeOK
  PROVE  /\ lag \in Nat /\ lag <= Delay /\ Delay < Timeout /\ lag < Timeout
         /\ Len(out) \in Nat /\ Len(keys) \in Nat
BY DEF TypeOK

LEMMA LagKept ==
  ASSUME TypeOK, LagInv, [Next]_vars
  PROVE  LagInv'
<1>1. CASE SupBegin \/ SupRelay
  <2>1. PICK key : keys' = Append(keys, key)
    BY <1>1 DEF SupBegin, SupRelay, Send
  <2>2. keys' # <<>>
    BY <2>1 DEF TypeOK
  <2> QED BY <2>2 DEF LagInv
<1>2. CASE SupRead
  <2>1. UNCHANGED <<emu, lag>> /\ (keys' = keys \/ \E key : keys' = Append(keys, key))
    BY <1>2 DEF SupRead, Send
  <2>2. keys' = <<>> => keys = <<>>
    BY <2>1 DEF TypeOK
  <2> QED BY <2>1, <2>2 DEF LagInv
<1>3. CASE SupTimeout \/ SupClear \/ SupTop \/ SupExpire \/ SupRunning \/ SupRelease \/ UNCHANGED vars
  BY <1>3 DEF LagInv, SupTimeout, SupClear, SupTop, SupExpire, SupRunning, SupRelease, vars
<1>4. CASE SupExited
  BY <1>4 DEF LagInv, SupExited
<1>5. CASE EmuStep
  BY <1>5 DEF LagInv, EmuStep, EmuText, EmuHalt, EmuInterrupt, EmuRead, EmuExit
<1>6. CASE Tick
  BY <1>6 DEF LagInv, Tick
<1>7. ASSUME NEW o \in Operators, StopStep(o)
      PROVE  LagInv'
  BY <1>7 DEF LagInv, StopStep, StopCheck, StopSignal, StopPoll, StopExpire
<1> QED BY <1>1, <1>2, <1>3, <1>4, <1>5, <1>6, <1>7 DEF Next, SupStep

\* Steps that leave the stop, the PTY and the emulator as they are.
LEMMA TrackStands ==
  ASSUME OnTrack, UNCHANGED <<timely, drv, emu, lag, keys, out>>,
         hist'.clean => hist.clean,
         sup'.pc \in {"top", "select"} /\ sup'.phase # "none" =>
           sup.pc \in {"top", "select"} /\ sup'.phase = sup.phase /\ sup'.left = sup.left
  PROVE  OnTrack'
BY DEF OnTrack, Interrupting, Prompted, Quitting

\* Steps after which nothing is claimed.
LEMMA TrackLeft ==
  ASSUME ~hist'.clean \/ sup'.pc \notin {"top", "select"} \/ sup'.phase = "none" \/ emu' = "gone"
  PROVE  OnTrack'
BY DEF OnTrack

\* A stop that begins undisturbed sends Ctrl-E to a guest or quit to the monitor.
LEMMA BeginsOnTrack ==
  ASSUME TypeOK, LagInv, SupBegin
  PROVE  OnTrack'
<1>t. sup \in Supervisors /\ hist \in Histories /\ drv \in Drivers
  BY DEF TypeOK
<1>1. /\ sup'.phase = Begun.phase /\ sup'.left = Timeout /\ drv' = Begun.drv
      /\ keys' = Append(keys, Begun.key) /\ UNCHANGED <<emu, lag, out>>
      /\ hist'.clean = (keys = <<>> /\ out = <<>> /\ emu = IF Live THEN "monitor" ELSE "guest")
  BY <1>t DEF SupBegin, Send, Begun, Supervisors, Histories
<1> SUFFICES ASSUME keys = <<>>, out = <<>>, emu = IF Live THEN "monitor" ELSE "guest"
             PROVE  Interrupting' \/ Quitting'
  BY <1>1 DEF OnTrack
<1>2. lag' = 0 /\ sup'.left + lag' = Timeout /\ keys' = <<Begun.key>> /\ out' = <<>>
  BY <1>1 DEF LagInv
<1>3. CASE Live
  <2>1. Begun.phase = "exit" /\ Begun.key \in {"evident", "presumed"}
    BY <1>3 DEF Begun
  <2> QED BY <1>1, <1>2, <1>3, <2>1 DEF Quitting
<1>4. CASE ~Live
  <2>1. Begun.phase = "monitor" /\ Begun.key = "enter" /\ ~Begun.drv.shut
    BY <1>t, <1>4 DEF Begun, Drivers
  <2>2. \A i \in 1..Len(out') : out'[i] = "text"
    BY <1>2
  <2> QED BY <1>1, <1>2, <1>4, <2>1, <2>2 DEF Interrupting
<1> QED BY <1>3, <1>4

\* A read takes the first n of what is unread.
LEMMA Splits ==
  ASSUME NEW S, NEW s \in Seq(S), NEW n \in 1..Len(s)
  PROVE  /\ Len(SubSeq(s, 1, n)) = n
         /\ \A i \in 1..n : SubSeq(s, 1, n)[i] = s[i]
         /\ Head(SubSeq(s, 1, n)) = s[1]
         /\ Len(SubSeq(s, n + 1, Len(s))) = Len(s) - n
         /\ \A i \in 1..(Len(s) - n) : SubSeq(s, n + 1, Len(s))[i] = s[i + n]
<1>1. n \in Nat /\ Len(s) \in Nat /\ n <= Len(s)
  OBVIOUS
<1>2. Len(SubSeq(s, 1, n)) = n /\ \A i \in 1..n : SubSeq(s, 1, n)[i] = s[i]
  BY <1>1, SubSeqProperties
<1>3. SubSeq(s, 1, n) \in Seq(S)
  BY <1>1, SubSeqProperties
<1>4. Head(SubSeq(s, 1, n)) = SubSeq(s, 1, n)[1] /\ 1 \in 1..n
  BY <1>1, <1>2, <1>3
<1>5. /\ Len(SubSeq(s, n + 1, Len(s))) = Len(s) - n
      /\ \A i \in 1..(Len(s) - n) : SubSeq(s, n + 1, Len(s))[i] = s[i + n]
  BY <1>1, SubSeqProperties
<1> QED BY <1>2, <1>4, <1>5

LEMMA ReadsSome ==
  ASSUME SupRead
  PROVE  \E n \in 1..Len(out) :
        LET data == SubSeq(out, 1, n)
        IN /\ out' = SubSeq(out, n + 1, Len(out))
           /\ drv' = Observed(data)
           /\ IF Confirms(data)
                THEN Len(keys) < MaxKeys /\ Send(IF hist.typed THEN "hasty" ELSE "quit")
                ELSE UNCHANGED keys
           /\ hist' = [hist EXCEPT !.sure =
                IF Witnessed(data) THEN emu = "monitor" /\ keys = <<>> ELSE @]
           /\ sup' = [sup EXCEPT !.phase = PhaseAfter(data),
                                 !.left = IF Rearms(data) THEN Timeout ELSE @]
BY DEF SupRead

LEMMA ReadOnTrack ==
  ASSUME TypeOK, LagInv, OnTrack, SupRead
  PROVE  OnTrack'
<1>t. sup \in Supervisors /\ hist \in Histories /\ drv \in Drivers
  BY DEF TypeOK
<1>1. PICK n \in 1..Len(out) :
        LET data == SubSeq(out, 1, n)
        IN /\ out' = SubSeq(out, n + 1, Len(out))
           /\ drv' = Observed(data)
           /\ IF Confirms(data)
                THEN Len(keys) < MaxKeys /\ Send(IF hist.typed THEN "hasty" ELSE "quit")
                ELSE UNCHANGED keys
           /\ hist' = [hist EXCEPT !.sure =
                IF Witnessed(data) THEN emu = "monitor" /\ keys = <<>> ELSE @]
           /\ sup' = [sup EXCEPT !.phase = PhaseAfter(data),
                                 !.left = IF Rearms(data) THEN Timeout ELSE @]
  BY DEF SupRead
<1> DEFINE data == SubSeq(out, 1, n)
<1>2. /\ UNCHANGED <<timely, emu, lag>> /\ hist'.clean = hist.clean /\ sup'.pc = sup.pc
      /\ sup'.phase = PhaseAfter(data) /\ sup'.left = IF Rearms(data) THEN Timeout ELSE sup.left
      /\ sup.phase = "monitor" => drv'.shut = EndsInHalf(data)
  BY <1>1, <1>t DEF SupRead, Histories, Supervisors, Observed
<1>3. /\ n \in Nat /\ n >= 1 /\ n <= Len(out) /\ Len(out) \in Nat /\ Len(data) = n
      /\ \A i \in 1..n : data[i] = out[i]
      /\ Head(data) = out[1]
      /\ Len(out') = Len(out) - n
      /\ \A i \in 1..(Len(out) - n) : out'[i] = out[i + n]
  <2>1. out \in Seq({"text", "pro", "mpt"}) /\ out' = SubSeq(out, n + 1, Len(out))
    BY <1>1 DEF TypeOK
  <2>2. /\ Len(SubSeq(out, 1, n)) = n
        /\ \A i \in 1..n : SubSeq(out, 1, n)[i] = out[i]
        /\ Head(SubSeq(out, 1, n)) = out[1]
        /\ Len(SubSeq(out, n + 1, Len(out))) = Len(out) - n
        /\ \A i \in 1..(Len(out) - n) : SubSeq(out, n + 1, Len(out))[i] = out[i + n]
    BY <2>1, Splits, Zenon
  <2>3. n \in Nat /\ n >= 1 /\ n <= Len(out) /\ Len(out) \in Nat
    BY <2>1
  <2> QED BY <2>1, <2>2, <2>3, Zenon
<1>4. HasPrompt(drv.shut, data) <=> \/ drv.shut /\ out[1] = "mpt"
                                    \/ \E i \in 1..(n - 1) : out[i] = "pro" /\ out[i + 1] = "mpt"
  BY <1>3 DEF HasPrompt
<1>5. EndsInHalf(data) = (out[n] = "pro")
  BY <1>3 DEF EndsInHalf
<1> HIDE DEF data
<1> SUFFICES ASSUME emu # "gone", Interrupting \/ Prompted \/ Quitting
             PROVE  Interrupting' \/ Prompted' \/ Quitting'
  <2>1. PhaseAfter(data) # "none" => sup.phase # "none"
    BY DEF PhaseAfter, Confirms
  <2> QED BY <1>2, <2>1 DEF OnTrack
<1>6. ASSUME ~Confirms(data)
      PROVE  sup'.phase = sup.phase /\ sup'.left = sup.left /\ keys' = keys
  BY <1>1, <1>2, <1>6 DEF PhaseAfter, Rearms, data
<1>7. CASE Quitting
  <2>1. ~Confirms(data)
    BY <1>7 DEF Quitting, Confirms
  <2> QED BY <1>2, <1>6, <1>7, <2>1 DEF Quitting
<1>8. CASE Interrupting
  <2>1. \A i \in 1..n : out[i] = "text"
    BY <1>3, <1>8 DEF Interrupting
  <2>2. ~HasPrompt(drv.shut, data)
    <3>1. ~drv.shut
      BY <1>8 DEF Interrupting
    <3>2. \A i \in 1..(n - 1) : out[i] = "text"
      BY <1>3, <2>1
    <3> QED BY <1>4, <3>1, <3>2
  <2>3. ~Confirms(data)
    BY <2>2 DEF Confirms
  <2>4. ~drv'.shut
    <3>1. out[n] = "text"
      BY <1>3, <2>1
    <3> QED BY <1>2, <1>5, <1>8, <3>1 DEF Interrupting
  <2>5. \A i \in 1..Len(out') : out'[i] = "text"
    BY <1>3, <1>8 DEF Interrupting
  <2> QED BY <1>2, <1>6, <1>8, <2>3, <2>4, <2>5 DEF Interrupting
<1>9. CASE Prompted
  <2>1. sup.phase = "monitor" /\ emu = "monitor" /\ keys = <<>>
    BY <1>9 DEF Prompted
  <2>2. CASE HasPrompt(drv.shut, data)
    <3>1. Confirms(data)
      BY <2>1, <2>2 DEF Confirms
    <3>2. /\ keys' = Append(keys, IF hist.typed THEN "hasty" ELSE "quit")
          /\ sup'.phase = "exit" /\ sup'.left = Timeout
      BY <1>1, <1>2, <3>1 DEF Send, PhaseAfter, Rearms, data
    <3>3. Len(keys') = 1 /\ keys'[1] \in {"hasty", "quit"}
      BY <2>1, <3>2
    <3>4. lag' = 0 /\ sup'.left + lag' = Timeout
      BY <1>2, <2>1, <3>2 DEF LagInv
    <3> QED BY <1>2, <2>1, <3>2, <3>3, <3>4 DEF Quitting
  <2>3. CASE ~HasPrompt(drv.shut, data)
    <3>1. ~Confirms(data)
      BY <2>3 DEF Confirms
    <3>2. /\ ~drv.shut /\ Len(out) >= 2
          /\ out[Len(out) - 1] = "pro" /\ out[Len(out)] = "mpt"
          /\ \A i \in 1..(Len(out) - 2) : out[i] = "text"
      BY <1>4, <1>9, <2>3 DEF Prompted
    <3>3. n <= Len(out) - 1
      <4> SUFFICES ASSUME n = Len(out) PROVE FALSE
        BY <1>3
      <4>1. n - 1 \in 1..(n - 1) /\ n - 1 + 1 = n
        BY <1>3, <3>2
      <4> QED BY <1>4, <2>3, <3>2, <4>1
    <3>4. CASE n = Len(out) - 1
      <4>1. drv'.shut
        BY <1>2, <1>5, <2>1, <3>2, <3>4
      <4>2. Len(out') = 1 /\ out'[1] = "mpt"
        <5>1. Len(out) - n = 1 /\ 1 + n = Len(out) /\ 1 \in 1..(Len(out) - n)
          BY <1>3, <3>4
        <5> QED BY <1>3, <3>2, <5>1
      <4> QED BY <1>2, <1>6, <1>9, <3>1, <4>1, <4>2 DEF Prompted
    <3>5. CASE n <= Len(out) - 2
      <4>1. ~drv'.shut
        <5>1. out[n] = "text"
          BY <1>3, <3>2, <3>5
        <5> QED BY <1>2, <1>5, <2>1, <5>1
      <4>2. /\ Len(out') >= 2
            /\ out'[Len(out') - 1] = "pro" /\ out'[Len(out')] = "mpt"
            /\ \A i \in 1..(Len(out') - 2) : out'[i] = "text"
        <5>1. /\ Len(out') \in 1..(Len(out) - n) /\ Len(out') - 1 \in 1..(Len(out) - n)
              /\ Len(out') + n = Len(out) /\ Len(out') - 1 + n = Len(out) - 1
          BY <1>3, <3>5
        <5>2. out'[Len(out') - 1] = "pro" /\ out'[Len(out')] = "mpt"
          BY <1>3, <3>2, <5>1
        <5>3. ASSUME NEW i \in 1..(Len(out') - 2) PROVE out'[i] = "text"
          <6>1. i \in 1..(Len(out) - n) /\ i + n \in 1..(Len(out) - 2)
            BY <1>3
          <6> QED BY <1>3, <3>2, <6>1
        <5> QED BY <1>3, <3>5, <5>2, <5>3
      <4> QED BY <1>2, <1>6, <1>9, <3>1, <4>1, <4>2 DEF Prompted
    <3> QED BY <1>3, <3>3, <3>4, <3>5
  <2> QED BY <2>2, <2>3
<1> QED BY <1>7, <1>8, <1>9

LEMMA SupOnTrack ==
  ASSUME Undisturbed, SupStep
  PROVE  OnTrack' /\ TimelyStopSucceeds'
<1> USE DEF Undisturbed, BInv
<1>t. sup \in Supervisors /\ hist \in Histories
  BY DEF TypeOK
<1>1. CASE SupBegin
  <2>1. sup'.pc = "select"
    BY <1>1, <1>t DEF SupBegin, Begun, Supervisors
  <2> QED BY <1>1, <2>1, BeginsOnTrack DEF TimelyStopSucceeds
<1>2. CASE SupTimeout
  <2>1. /\ sup'.pc = "clear" /\ UNCHANGED <<timely, hist>>
        /\ sup.pc = "top" /\ sup.phase # "none" /\ sup.left = 0 /\ emu # "gone"
    BY <1>2, <1>t DEF SupTimeout, Supervisors
  <2>2. ~(timely /\ hist.clean)
    BY <2>1, Lags DEF OnTrack, Interrupting, Prompted, Quitting
  <2> QED BY <2>1, <2>2, TrackLeft DEF TimelyStopSucceeds
<1>3. CASE SupClear
  <2>1. ~hist'.clean
    BY <1>3, <1>t DEF SupClear, Histories
  <2> QED BY <2>1, TrackLeft DEF TimelyStopSucceeds
<1>4. CASE SupTop \/ SupRunning
  <2>1. /\ sup.pc \in {"top", "select"} /\ sup'.pc \in {"top", "select"}
        /\ sup'.phase = sup.phase /\ sup'.left = sup.left
        /\ UNCHANGED <<timely, drv, emu, lag, keys, out, hist>>
    BY <1>4, <1>t DEF SupTop, SupRunning, Supervisors
  <2> QED BY <2>1, TrackStands DEF TimelyStopSucceeds
<1>5. CASE SupRead
  <2>1. sup'.pc = sup.pc /\ sup.pc = "select"
    BY <1>5, <1>t DEF SupRead, Supervisors
  <2> QED BY <1>5, <2>1, ReadOnTrack DEF TimelyStopSucceeds
<1>6. CASE SupRelay
  <2>1. ~hist'.clean
    BY <1>6, <1>t DEF SupRelay, Histories
  <2> QED BY <2>1, TrackLeft DEF TimelyStopSucceeds
<1>7. CASE SupExpire
  <2>1. sup.pc = "select" /\ ~sup.stop /\ sup'.pc = "top" /\ sup'.phase = sup.phase
    BY <1>7, <1>t DEF SupExpire, Supervisors
  <2>2. sup'.phase = "none"
    BY <2>1 DEF InTime
  <2> QED BY <2>1, <2>2, TrackLeft DEF TimelyStopSucceeds
<1>8. CASE SupExited \/ SupRelease
  <2>1. sup'.pc \in {"release", "dead"}
    BY <1>8, <1>t DEF SupExited, SupRelease, Supervisors
  <2> QED BY <2>1, TrackLeft DEF TimelyStopSucceeds
<1> QED BY <1>1, <1>2, <1>3, <1>4, <1>5, <1>6, <1>7, <1>8 DEF SupStep

LEMMA EmuOnTrack ==
  ASSUME TypeOK, OnTrack, EmuStep
  PROVE  OnTrack'
<1>t. hist \in Histories /\ out \in Seq({"text", "pro", "mpt"}) /\ Len(out) \in Nat
  BY DEF TypeOK
<1>1. CASE EmuText
  <2>1. /\ emu = "guest" /\ out' = Append(out, "text")
        /\ UNCHANGED <<timely, sup, drv, emu, lag, keys, hist>>
    BY <1>1 DEF EmuText
  <2>2. ASSUME \A i \in 1..Len(out) : out[i] = "text"
        PROVE  \A i \in 1..Len(out') : out'[i] = "text"
    BY <1>t, <2>1, <2>2
  <2>3. Interrupting => Interrupting'
    BY <2>1, <2>2 DEF Interrupting
  <2>4. ~Prompted /\ ~Quitting
    BY <2>1 DEF Prompted, Quitting
  <2> QED BY <2>1, <2>3, <2>4 DEF OnTrack
<1>2. CASE EmuHalt
  <2>1. ~hist'.clean
    BY <1>2, <1>t DEF EmuHalt, Histories
  <2> QED BY <2>1, TrackLeft
<1>3. CASE EmuInterrupt
  <2>1. /\ emu = "guest" /\ emu' = "monitor" /\ lag' = 0
        /\ UNCHANGED <<timely, sup, drv, hist>>
        /\ out' \in {out \o Prompt, Prompt}
    BY <1>3 DEF EmuInterrupt
  <2>2. PICK i \in 1..Len(keys) : keys[i] = "enter" /\ keys' = SubSeq(keys, i + 1, Len(keys))
    BY <1>3 DEF EmuInterrupt
  <2>3. ~Prompted /\ ~Quitting
    BY <2>1 DEF Prompted, Quitting
  <2>4. ASSUME Interrupting PROVE Prompted'
    <3>1. /\ sup.phase = "monitor" /\ keys = <<"enter">> /\ ~drv.shut
          /\ sup.left + lag = Timeout /\ \A j \in 1..Len(out) : out[j] = "text"
      BY <2>4 DEF Interrupting
    <3>2. keys' = <<>>
      <4>1. i = 1 /\ keys \in Seq(Keys)
        BY <2>2, <3>1 DEF Keys
      <4>2. keys' \in Seq(Keys) /\ Len(keys') = 0
        BY <2>2, <3>1, <4>1, RestLength
      <4> QED BY <4>2
    <3>3. sup'.left > 0
      BY <2>1, <3>1, Lags, Numbers
    <3>4. /\ Len(out') >= 2
          /\ out'[Len(out') - 1] = "pro" /\ out'[Len(out')] = "mpt"
          /\ \A j \in 1..(Len(out') - 2) : out'[j] = "text"
      <4>1. CASE out' = Prompt
        <5>1. Len(out') = 2 /\ out'[1] = "pro" /\ out'[2] = "mpt"
          BY <4>1 DEF Prompt
        <5> QED BY <5>1
      <4>2. CASE out' = out \o Prompt
        <5>1. /\ Len(out') = Len(out) + 2
              /\ out'[Len(out) + 1] = "pro" /\ out'[Len(out) + 2] = "mpt"
              /\ \A j \in 1..Len(out) : out'[j] = out[j]
          BY <1>t, <4>2 DEF Prompt
        <5>2. Len(out') - 2 = Len(out) /\ Len(out') - 1 = Len(out) + 1
          BY <1>t, <5>1
        <5> QED BY <1>t, <3>1, <5>1, <5>2
      <4> QED BY <2>1, <4>1, <4>2
    <3> QED BY <2>1, <3>1, <3>2, <3>3, <3>4 DEF Prompted
  <2> QED BY <2>1, <2>3, <2>4 DEF OnTrack
<1>4. CASE EmuRead
  <2>1. /\ UNCHANGED <<timely, sup, drv>> /\ hist'.clean = hist.clean
        /\ keys # <<>> /\ emu # "gone" /\ (emu = "guest" => Head(keys) # "enter")
        /\ emu = "monitor" /\ Head(keys) \notin {"enter", "cont"} => emu' = "gone"
    BY <1>4, <1>t DEF EmuRead, Histories
  <2>2. ~Interrupting /\ ~Prompted
    BY <2>1 DEF Interrupting, Prompted
  <2>3. ASSUME Quitting PROVE emu' = "gone"
    <3>1. Len(keys) = 1 /\ keys \in Seq(Keys) /\ Head(keys) = keys[1]
      BY <2>1, <2>3 DEF Quitting, TypeOK
    <3> QED BY <2>1, <2>3, <3>1 DEF Quitting
  <2> QED BY <2>1, <2>2, <2>3 DEF OnTrack
<1>5. CASE EmuExit
  BY <1>5, TrackLeft DEF EmuExit
<1> QED BY <1>1, <1>2, <1>3, <1>4, <1>5 DEF EmuStep

\* The clock does not move while a prompt is unread, and what it takes of the timeout
\* it adds to the delay.
LEMMA TickOnTrack ==
  ASSUME TypeOK, OnTrack, Tick
  PROVE  OnTrack'
<1>t. sup \in Supervisors /\ hist \in Histories
  BY DEF TypeOK
<1>1. /\ sup'.pc = sup.pc /\ sup'.phase = sup.phase /\ sup'.left = Down(sup.left)
      /\ hist'.clean = hist.clean /\ UNCHANGED <<timely, drv, emu, keys, out>>
      /\ sup.pc \notin {"select", "clear"} /\ (sup.pc = "top" => out = <<>>)
      /\ timely /\ emu # "gone" /\ keys # <<>> => lag < Delay
      /\ lag' = IF keys = <<>> THEN 0 ELSE Up(lag, Delay)
  BY <1>t DEF Tick, Supervisors, Histories
<1> SUFFICES ASSUME timely, emu # "gone", out = <<>>, Interrupting \/ Prompted \/ Quitting
             PROVE  Interrupting' \/ Quitting'
  BY <1>1 DEF OnTrack
<1>2. ~Prompted
  <2>1. Len(out) = 0
    OBVIOUS
  <2> QED BY <2>1 DEF Prompted
<1>3. keys # <<>> /\ sup.left + lag = Timeout
  <2>1. Len(keys) = 1
    BY <1>2 DEF Interrupting, Quitting
  <2> QED BY <1>2, <2>1 DEF Interrupting, Quitting
<1>4. lag < Delay /\ lag' = Up(lag, Delay)
  BY <1>1, <1>3
<1>5. lag' = lag + 1 /\ sup'.left = sup.left - 1
  BY <1>1, <1>3, <1>4, Lags, Numbers DEF Up, Down
<1>6. sup'.left + lag' = Timeout
  BY <1>3, <1>5, Lags, Numbers
<1> QED BY <1>1, <1>2, <1>6 DEF Interrupting, Quitting

LEMMA StopOnTrack ==
  ASSUME TypeOK, OnTrack, NEW o \in Operators, StopStep(o)
  PROVE  OnTrack' /\ sup'.pc = sup.pc
<1>1. /\ UNCHANGED <<timely, drv, emu, lag, keys, out, hist>>
      /\ sup'.pc = sup.pc /\ sup'.phase = sup.phase /\ sup'.left = sup.left
  BY DEF TypeOK, StopStep, StopCheck, StopSignal, StopPoll, StopExpire, Supervisors
<1> QED BY <1>1, TrackStands

LEMMA UndisturbedStep ==
  ASSUME Undisturbed, [Next]_vars
  PROVE  Undisturbed'
<1> USE DEF Undisturbed
<1>1. BInv'
  BY BoundStep
<1>2. LagInv'
  BY LagKept DEF BInv
<1>3. OnTrack' /\ TimelyStopSucceeds'
  <2>1. CASE SupStep
    BY <2>1, SupOnTrack
  <2>2. CASE EmuStep
    <3>1. UNCHANGED <<sup, timely>> /\ (hist'.clean => hist.clean)
      <4>1. hist \in Histories
        BY DEF BInv, TypeOK
      <4> QED BY <2>2, <4>1 DEF EmuStep, EmuText, EmuHalt, EmuInterrupt, EmuRead, EmuExit, Histories
    <3> QED BY <2>2, <3>1, EmuOnTrack DEF BInv, TimelyStopSucceeds
  <2>3. CASE Tick
    <3>1. sup'.pc = sup.pc /\ sup.pc # "clear"
      BY <2>3 DEF BInv, TypeOK, Tick, Supervisors
    <3> QED BY <2>3, <3>1, TickOnTrack DEF BInv, TimelyStopSucceeds
  <2>4. ASSUME NEW o \in Operators, StopStep(o)
        PROVE  OnTrack' /\ TimelyStopSucceeds'
    <3>1. UNCHANGED <<timely, hist>>
      BY <2>4 DEF StopStep, StopCheck, StopSignal, StopPoll, StopExpire
    <3> QED BY <2>4, <3>1, StopOnTrack DEF BInv, TimelyStopSucceeds
  <2>5. CASE UNCHANGED vars
    <3>1. UNCHANGED <<timely, drv, emu, lag, keys, out, hist, sup>>
      BY <2>5 DEF vars
    <3> QED BY <3>1, TrackStands DEF TimelyStopSucceeds
  <2> QED BY <2>1, <2>2, <2>3, <2>4, <2>5 DEF Next
<1> QED BY <1>1, <1>2, <1>3

\* A stop that finds the guest running and the PTY quiet is not given up on an emulator
\* that answers within Delay, however much the guest prints, however the prompt is split
\* over the reads, and however many commands signal meanwhile: the deadline is extended
\* before the second of the two answers is waited for.
THEOREM TimelyStopsSucceed == Spec => []TimelyStopSucceeds
<1>1. Init => Undisturbed
  <2>1. Init => LagInv /\ OnTrack /\ TimelyStopSucceeds
    BY DEF Init, LagInv, OnTrack, TimelyStopSucceeds
  <2> QED BY <2>1, InitTypes, InitBound DEF Undisturbed, BInv
<1>2. Undisturbed /\ [Next]_vars => Undisturbed'
  BY UndisturbedStep
<1>3. Undisturbed => TimelyStopSucceeds
  BY DEF Undisturbed
<1> QED BY <1>1, <1>2, <1>3, PTL DEF Spec
==============================================================================
