--------------------------- MODULE SystemRunProofs ---------------------------
(***************************************************************************)
(* SystemRun, for any number of starts, stops and readies and any bound on *)
(* what the emulators print.  The argument for the runtime file: every     *)
(* copy of it that a command holds was true when it was read and stays     *)
(* true, since processes only ever get older; what a command changes in    *)
(* its copy it has seen for itself.                                        *)
(***************************************************************************)
EXTENDS SystemRun, SequenceTheorems, TLAPS

------------------------------------------------------------------------------
(* The log. *)

\* Text that is written at an offset no further than the end is put there, and the
\* rest stays.
LEMMA WrittenEntries ==
  ASSUME NEW text \in Seq(Entries), NEW offset \in Nat, NEW entries \in Seq(Entries)
  PROVE  Written(text, offset, entries) \in Seq(Entries)
<1> DEFINE n == IF Len(text) > offset + Len(entries) THEN Len(text) ELSE offset + Len(entries)
<1>1. Len(text) \in Nat /\ Len(entries) \in Nat /\ n \in Nat
  OBVIOUS
<1>2. [by |-> None, chunk |-> "text"] \in Entries
  BY DEF Entries, Chunks
<1>3. ASSUME NEW i \in 1..n
      PROVE  (IF i > offset /\ i <= offset + Len(entries) THEN entries[i - offset]
              ELSE IF i <= Len(text) THEN text[i] ELSE [by |-> None, chunk |-> "text"]) \in Entries
  <2>1. CASE i > offset /\ i <= offset + Len(entries)
    <3>1. i - offset \in 1..Len(entries)
      BY <1>1, <1>3, <2>1
    <3> QED BY <2>1, <3>1
  <2>2. CASE ~(i > offset /\ i <= offset + Len(entries)) /\ i <= Len(text)
    <3>1. i \in 1..Len(text)
      BY <1>1, <1>3, <2>2
    <3> QED BY <2>2, <3>1
  <2> QED BY <1>2, <2>1, <2>2
<1>4. Written(text, offset, entries) \in [1..n -> Entries]
  BY <1>3 DEF Written
<1>5. n \in Nat
  BY <1>1
<1> HIDE DEF n
<1>6. [1..n -> Entries] \subseteq Seq(Entries)
  BY <1>5, SeqDef
<1> QED BY <1>4, <1>6

LEMMA UnreadChunks ==
  ASSUME TypeOK, NEW s \in Starts, console[s].read <= Len(console[s].said)
  PROVE  /\ Unread(s) \in Seq(Chunks)
         /\ Len(Unread(s)) = Len(console[s].said) - console[s].read
         /\ \A i \in 1..Len(Unread(s)) : Unread(s)[i] = console[s].said[console[s].read + i]
<1> DEFINE said == console[s].said
           read == console[s].read
<1>1. said \in Seq(Chunks) /\ read \in Nat /\ Len(said) \in Nat
  BY DEF TypeOK, Consoles
<1>2. \A i \in (read + 1)..Len(said) : said[i] \in Chunks
  BY <1>1
<1>3. /\ SubSeq(said, read + 1, Len(said)) \in Seq(Chunks)
      /\ Len(SubSeq(said, read + 1, Len(said))) = Len(said) - read
      /\ \A i \in 1..(Len(said) - read) : SubSeq(said, read + 1, Len(said))[i] = said[read + i]
  <2> DEFINE m == read + 1
             t == SubSeq(said, m, Len(said))
  <2>1. m \in Int /\ Len(said) \in Int
    BY <1>1
  <2>2. /\ t \in Seq(Chunks)
        /\ Len(t) = IF m <= Len(said) THEN Len(said) - m + 1 ELSE 0
        /\ \A i \in 1..(Len(said) - m + 1) : t[i] = said[m + i - 1]
    <3>1. \A i \in m..Len(said) : said[i] \in Chunks
      BY <1>2
    <3>2. said \in Seq(Chunks)
      BY <1>1
    <3> DEFINE l == Len(said)
    <3>3. m \in Int /\ l \in Int /\ (\A i \in m..l : said[i] \in Chunks) /\ t = SubSeq(said, m, l)
      BY <2>1, <3>1
    <3> HIDE DEF m, said, t, l
    <3>4. /\ t \in Seq(Chunks)
          /\ Len(t) = IF m <= l THEN l - m + 1 ELSE 0
          /\ \A i \in 1..(l - m + 1) : t[i] = said[m + i - 1]
      BY <3>2, <3>3, SubSeqProperties
    <3> QED BY <3>4 DEF l
  <2>3. Len(t) = Len(said) - read
    <3>1. read <= Len(said) /\ read \in Nat /\ Len(said) \in Nat /\ m = read + 1
      BY <1>1
    <3>2. Len(t) = IF m <= Len(said) THEN Len(said) - m + 1 ELSE 0
      BY <2>2
    <3> HIDE DEF m, t, said, read
    <3> QED BY <3>1, <3>2
  <2>4. \A i \in 1..(Len(said) - read) : Len(said) - m + 1 = Len(said) - read /\ m + i - 1 = read + i
    BY <1>1
  <2> QED BY <2>2, <2>3, <2>4
<1> QED BY <1>3 DEF Unread

------------------------------------------------------------------------------
(* Types. *)

\* No more is read than has been printed.
ReadIsPrinted == \A s \in Starts : console[s].read <= Len(console[s].said)

LEMMA FileChanges ==
  ASSUME NEW f \in Files, NEW s \in Starts, NEW exit \in Starts \cup {None},
         NEW runtime \in Starts \cup {None}
  PROVE  /\ NoFile \in Files
         /\ [NoFile EXCEPT !.pid = s, !.runtime = s] \in Files
         /\ [f EXCEPT !.pid = s, !.exit = exit, !.runtime = runtime] \in Files
         /\ [f EXCEPT !.termination = f.pid] \in Files
BY DEF Files, NoFile

LEMMA MergedType ==
  ASSUME NEW s \in Starts, start[s].loaded \in Files
  PROVE  Merged(s) \in Files
<1>1. OwnExit(s) \in Starts \cup {None}
  BY DEF OwnExit
<1>2. KeptRuntime(s) \in Starts \cup {None}
  BY DEF KeptRuntime, Files
<1> QED BY <1>1, <1>2, FileChanges DEF Merged

LEMMA StartChanges ==
  ASSUME NEW c \in StartCommands, NEW f \in Files, NEW pc \in StartSteps
  PROVE  /\ [c EXCEPT !.pc = pc] \in StartCommands
         /\ [c EXCEPT !.pc = pc, !.loaded = f] \in StartCommands
         /\ [c EXCEPT !.pc = pc, !.exit = TRUE] \in StartCommands
         /\ [c EXCEPT !.reaped = TRUE] \in StartCommands
BY DEF StartCommands

\* A step that changes one start and the process of it, and no content.
LEMMA StartTyped ==
  ASSUME TypeOK, NEW s \in Starts, NEW c \in StartCommands, start' = [start EXCEPT ![s] = c],
         NEW e \in {"running", "zombie", "gone"},
         emulator' = emulator \/ emulator' = [emulator EXCEPT ![s] = e],
         file' \in Files, console' \in [Starts -> Consoles], log' \in Logs,
         UNCHANGED <<stop, ready>>
  PROVE  TypeOK'
BY DEF TypeOK

LEMMA StopTyped ==
  ASSUME TypeOK, NEW t \in Stops, NEW c \in StopCommands, stop' = [stop EXCEPT ![t] = c],
         file' \in Files, UNCHANGED <<emulator, start, console, log, ready>>
  PROVE  TypeOK'
BY DEF TypeOK

LEMMA StartKeepsTypes ==
  ASSUME TypeOK, ReadIsPrinted, NEW s \in Starts, StartStep(s) \/ StartKilled(s)
  PROVE  TypeOK' /\ ReadIsPrinted'
<1>t. /\ start[s] \in StartCommands /\ start[s].loaded \in Files /\ start[s].exit \in BOOLEAN
      /\ file \in Files /\ console \in [Starts -> Consoles] /\ log \in Logs
      /\ start \in [Starts -> StartCommands]
  BY DEF TypeOK, StartCommands
<1>p. {"over", "fork", "record", "open", "console", "interrupt", "load", "merge"} \subseteq StartSteps
  BY DEF StartSteps
<1>k. UNCHANGED console => ReadIsPrinted'
  BY DEF ReadIsPrinted
<1>1. CASE StartRead(s)
  <2>1. [start[s] EXCEPT !.pc = "fork", !.loaded = file] \in StartCommands
    BY <1>t, <1>p, StartChanges
  <2> QED BY <1>1, <1>t, <1>k, <2>1, StartTyped DEF StartRead
<1>2. CASE StartRefused(s) \/ StartKilled(s)
  <2>1. [start[s] EXCEPT !.pc = "over", !.loaded = NoFile] \in StartCommands
    BY <1>t, <1>p, StartChanges, FileChanges
  <2> QED BY <1>2, <1>t, <1>k, <2>1, StartTyped DEF StartRefused, StartKilled, StartOver
<1>3. CASE StartFork(s) \/ StartError(s) \/ StartInterrupted(s) \/ StartInterruptedAgain(s)
  <2>1. \A pc \in {"record", "interrupt", "load"} : [start[s] EXCEPT !.pc = pc] \in StartCommands
    BY <1>t, <1>p, StartChanges
  <2> QED BY <1>3, <1>t, <1>k, <2>1, StartTyped DEF StartFork, StartError, StartInterrupted,
                                                StartInterruptedAgain, StartGoes
<1>4. CASE StartRecord(s)
  <2>1. /\ [start[s] EXCEPT !.pc = "open"] \in StartCommands
        /\ [NoFile EXCEPT !.pid = s, !.runtime = s] \in Files
    BY <1>t, <1>p, StartChanges, FileChanges
  <2> QED BY <1>4, <1>t, <1>k, <2>1, StartTyped DEF StartRecord, StartGoes
<1>5. CASE StartOpen(s)
  <2>1. [start[s] EXCEPT !.pc = "console"] \in StartCommands
    BY <1>t, <1>p, StartChanges
  <2>2. log' \in Logs
    BY <1>5, EmptySeq DEF StartOpen, Opened, Logs
  <2> QED BY <1>5, <1>t, <1>k, <2>1, <2>2, StartTyped DEF StartOpen, StartGoes
<1>6. CASE StartRelay(s)
  <2> DEFINE entries == [i \in 1..Len(Unread(s)) |-> [by |-> s, chunk |-> Unread(s)[i]]]
  <2>1. Unread(s) \in Seq(Chunks) /\ console[s].read \in Nat /\ console[s].said \in Seq(Chunks)
    BY UnreadChunks DEF ReadIsPrinted, TypeOK, Consoles
  <2>2. entries \in Seq(Entries)
    <3>1. Len(Unread(s)) \in Nat /\ \A i \in 1..Len(Unread(s)) : Unread(s)[i] \in Chunks
      BY <2>1
    <3>2. entries \in [1..Len(Unread(s)) -> Entries]
      BY <3>1 DEF Entries
    <3> QED BY <3>1, <3>2, SeqDef
  <2>3. log.text \in Seq(Entries) /\ log' = [log EXCEPT !.text = Written(log.text, console[s].read, entries)]
    BY <1>6, <1>t DEF StartRelay, Logs
  <2>4. Written(log.text, console[s].read, entries) \in Seq(Entries)
    BY <2>1, <2>2, <2>3, WrittenEntries
  <2>5. log' \in Logs
    BY <1>t, <2>3, <2>4 DEF Logs
  <2>6. [console[s] EXCEPT !.read = Len(console[s].said)] \in Consoles
    BY <1>t, <2>1 DEF Consoles
  <2>7. console' = [console EXCEPT ![s] = [@ EXCEPT !.read = Len(console[s].said)]]
        /\ UNCHANGED <<file, emulator, start, stop, ready>>
    BY <1>6 DEF StartRelay
  <2>8. console' \in [Starts -> Consoles]
    BY <1>t, <2>6, <2>7
  <2>9. ReadIsPrinted'
    BY <1>t, <2>1, <2>7 DEF ReadIsPrinted, Consoles
  <2> QED BY <2>5, <2>7, <2>8, <2>9 DEF TypeOK
<1>7. CASE StartReap(s)
  <2>1. [start[s] EXCEPT !.reaped = TRUE] \in StartCommands
    BY <1>t, <1>p, StartChanges
  <2> QED BY <1>7, <1>t, <1>k, <2>1, StartTyped DEF StartReap
<1>8. CASE StartEnd(s)
  <2>1. [start[s] EXCEPT !.pc = "load", !.exit = TRUE] \in StartCommands
    BY <1>t, <1>p, StartChanges
  <2> QED BY <1>8, <1>t, <1>k, <2>1, StartTyped DEF StartEnd
<1>9. CASE StartLoad(s)
  <2>1. PICK found \in {file, NoFile} : start' = [start EXCEPT ![s] = [@ EXCEPT !.pc = "merge", !.loaded = found]]
    BY <1>9 DEF StartLoad
  <2>2. found \in Files
    BY <1>t, FileChanges
  <2>3. [start[s] EXCEPT !.pc = "merge", !.loaded = found] \in StartCommands
    BY <1>t, <1>p, <2>2, StartChanges
  <2> QED BY <1>9, <1>t, <1>k, <2>1, <2>3, StartTyped DEF StartLoad
<1>10. CASE StartMerge(s)
  <2>1. Merged(s) \in Files
    BY <1>t, MergedType
  <2>2. [start[s] EXCEPT !.pc = "over", !.loaded = NoFile] \in StartCommands
    BY <1>t, <1>p, StartChanges, FileChanges
  <2> QED BY <1>10, <1>t, <1>k, <2>1, <2>2, StartTyped DEF StartMerge, StartOver
<1> QED
  BY <1>1, <1>2, <1>3, <1>4, <1>5, <1>6, <1>7, <1>8, <1>9, <1>10 DEF StartStep

LEMMA OthersKeepTypes ==
  ASSUME TypeOK, ReadIsPrinted,
         \/ \E s \in Starts : EmulatorExit(s) \/ OrphanReaped(s)
         \/ \E s \in Starts, chunk \in Chunks : EmulatorPrint(s, chunk)
         \/ \E t \in Stops : StopRead(t) \/ StopSignal(t) \/ StopConfirmed(t) \/ StopWrite(t) \/ StopEnds(t)
         \/ \E r \in Readies : ReadyBegin(r) \/ ReadyPass(r) \/ ReadyEnds(r)
  PROVE  TypeOK' /\ ReadIsPrinted'
<1>k. UNCHANGED console => ReadIsPrinted'
  BY DEF ReadIsPrinted
<1>1. CASE \E s \in Starts : EmulatorExit(s) \/ OrphanReaped(s)
  <2>1. emulator' \in [Starts -> {"none", "running", "zombie", "gone"}]
        /\ UNCHANGED <<file, start, stop, console, log, ready>>
    BY <1>1 DEF TypeOK, EmulatorExit, OrphanReaped
  <2> QED BY <1>k, <2>1 DEF TypeOK
<1>2. ASSUME NEW s \in Starts, NEW chunk \in Chunks, EmulatorPrint(s, chunk)
      PROVE  TypeOK' /\ ReadIsPrinted'
  <2>1. console' = [console EXCEPT ![s] = [@ EXCEPT !.said = Append(console[s].said, chunk)]]
        /\ UNCHANGED <<file, emulator, start, stop, log, ready>>
    BY <1>2 DEF EmulatorPrint
  <2>2. console \in [Starts -> Consoles] /\ console[s].said \in Seq(Chunks) /\ console[s].read \in Nat
    BY DEF TypeOK, Consoles
  <2>3. Append(console[s].said, chunk) \in Seq(Chunks)
        /\ Len(Append(console[s].said, chunk)) = Len(console[s].said) + 1
    BY <2>2
  <2> DEFINE said == Append(console[s].said, chunk)
             c == [console[s] EXCEPT !.said = said]
  <2>4. c \in Consoles /\ c.said = said /\ c.read = console[s].read
    <3>1. said \in Seq(Chunks) /\ console[s] \in [said : Seq(Chunks), read : Nat]
      BY <2>2, <2>3 DEF Consoles
    <3> HIDE DEF said
    <3> QED BY <3>1 DEF Consoles
  <2>a. console' = [console EXCEPT ![s] = c]
    BY <2>1
  <2> HIDE DEF c
  <2>5. console' \in [Starts -> Consoles]
    BY <2>2, <2>4, <2>a
  <2>6. ReadIsPrinted'
    <3> SUFFICES ASSUME NEW o \in Starts
                 PROVE  console'[o].read <= Len(console'[o].said)
      BY DEF ReadIsPrinted
    <3>1. console[o].read <= Len(console[o].said) /\ console[o].read \in Nat /\ Len(console[o].said) \in Nat
      BY <2>2 DEF ReadIsPrinted, Consoles
    <3>2. CASE o = s
      <4>1. console'[o].read = console[s].read /\ console'[o].said = Append(console[s].said, chunk)
        BY <2>2, <2>4, <2>a, <3>2
      <4> QED BY <2>3, <3>1, <3>2, <4>1
    <3>3. CASE o # s
      BY <2>1, <2>2, <3>1, <3>3
    <3> QED BY <3>2, <3>3
  <2> QED BY <2>1, <2>5, <2>6 DEF TypeOK
<1>3. ASSUME NEW t \in Stops,
             StopRead(t) \/ StopSignal(t) \/ StopConfirmed(t) \/ StopWrite(t) \/ StopEnds(t)
      PROVE  TypeOK' /\ ReadIsPrinted'
  <2>1. stop[t] \in StopCommands /\ stop[t].loaded \in Files /\ file \in Files
    BY DEF TypeOK, StopCommands
  <2>2. /\ [pc |-> "signal", loaded |-> file] \in StopCommands
        /\ [pc |-> "over", loaded |-> NoFile] \in StopCommands
        /\ [stop[t] EXCEPT !.pc = "wait"] \in StopCommands
        /\ [stop[t] EXCEPT !.pc = "write"] \in StopCommands
    <3>1. NoFile \in Files
      BY DEF NoFile, Files
    <3> QED BY <2>1, <3>1 DEF StopCommands
  <2>3. [stop[t].loaded EXCEPT !.termination = stop[t].loaded.pid] \in Files
    BY <2>1 DEF Files
  <2>4. UNCHANGED <<emulator, start, console, log, ready>> /\ file' \in Files
    BY <1>3, <2>1, <2>3 DEF StopRead, StopSignal, StopConfirmed, StopWrite, StopEnds
  <2>5. \E c \in StopCommands : stop' = [stop EXCEPT ![t] = c]
    BY <1>3, <2>2 DEF StopRead, StopSignal, StopConfirmed, StopWrite, StopEnds, StopOver
  <2> QED BY <1>k, <2>4, <2>5, StopTyped
<1>4. ASSUME NEW r \in Readies, ReadyBegin(r) \/ ReadyPass(r) \/ ReadyEnds(r)
      PROVE  TypeOK' /\ ReadIsPrinted'
  <2>1. ready[r] \in ReadyCommands /\ log \in Logs
    BY DEF TypeOK
  <2>2. /\ [ready[r] EXCEPT !.pc = "poll"] \in ReadyCommands
        /\ [ready[r] EXCEPT !.pc = "over"] \in ReadyCommands
        /\ [pc |-> "over", of |-> log.by, clean |-> ~log.mixed] \in ReadyCommands
    BY <2>1 DEF ReadyCommands, Logs
  <2>3. UNCHANGED <<file, emulator, start, stop, console, log>>
    BY <1>4 DEF ReadyBegin, ReadyPass, ReadyEnds
  <2>4. \E c \in ReadyCommands : ready' = [ready EXCEPT ![r] = c]
    BY <1>4, <2>2 DEF ReadyBegin, ReadyPass, ReadyEnds
  <2> QED BY <1>k, <2>3, <2>4 DEF TypeOK
<1> QED BY <1>1, <1>2, <1>3, <1>4

LEMMA InitialTypes == Init => TypeOK /\ ReadIsPrinted
<1> SUFFICES ASSUME Init PROVE TypeOK /\ ReadIsPrinted
  OBVIOUS
<1>1. NoFile \in Files
  BY DEF NoFile, Files
<1>2. [pc |-> "idle", reaped |-> FALSE, exit |-> FALSE, loaded |-> NoFile] \in StartCommands
  BY <1>1 DEF StartCommands, StartSteps
<1>3. [pc |-> "idle", loaded |-> NoFile] \in StopCommands
      /\ [pc |-> "idle", of |-> None, clean |-> TRUE] \in ReadyCommands
  BY <1>1 DEF StopCommands, ReadyCommands
<1>4. [said |-> <<>>, read |-> 0] \in Consoles /\ [text |-> <<>>, by |-> None, mixed |-> FALSE] \in Logs
  BY EmptySeq DEF Consoles, Logs
<1>5. TypeOK
  BY <1>1, <1>2, <1>3, <1>4 DEF Init, TypeOK
<1>6. ReadIsPrinted
  BY EmptySeq DEF Init, ReadIsPrinted
<1> QED BY <1>5, <1>6

LEMMA StutterKeepsTypes == TypeOK /\ ReadIsPrinted /\ UNCHANGED vars => TypeOK' /\ ReadIsPrinted'
BY DEF vars, TypeOK, ReadIsPrinted

LEMMA TypeInvariant == Spec => [](TypeOK /\ ReadIsPrinted)
<1>1. TypeOK /\ ReadIsPrinted /\ [Next]_vars => (TypeOK /\ ReadIsPrinted)'
  BY StartKeepsTypes, OthersKeepTypes, StutterKeepsTypes DEF Next
<1> QED BY <1>1, InitialTypes, PTL DEF Spec

\* Runtime file, commands, consoles and log keep their types, whatever commands
\* overwrite each other's work and wherever they are killed.
THEOREM TypeCorrect == Spec => []TypeOK
BY TypeInvariant, PTL

------------------------------------------------------------------------------
(* Processes. *)

\* A process is there once its start has forked it, and gone once its start has
\* reaped it.
ProcessOfStart ==
  \A s \in Starts :
    /\ start[s].pc \in {"idle", "fork"} => emulator[s] = "none"
    /\ start[s].pc \in {"record", "open", "console", "interrupt", "load", "merge"} =>
         emulator[s] # "none"
    /\ start[s].reaped \/ start[s].exit => emulator[s] = "gone"
    /\ start[s].reaped \/ start[s].exit => start[s].pc \notin {"idle", "fork"}

\* No process becomes another, and none comes back.
Ages(before, after) ==
  \A s \in Starts : /\ before[s] # "none" => after[s] # "none"
                    /\ before[s] = "gone" => after[s] = "gone"

LEMMA ProcessesAge ==
  ASSUME TypeOK, ProcessOfStart, [Next]_vars
  PROVE  Ages(emulator, emulator')
<1>t. emulator \in [Starts -> {"none", "running", "zombie", "gone"}]
  BY DEF TypeOK
<1>1. ASSUME NEW s \in Starts, NEW e \in {"running", "zombie", "gone"},
             emulator' = [emulator EXCEPT ![s] = e], emulator[s] = "gone" => e = "gone"
      PROVE  Ages(emulator, emulator')
  BY <1>t, <1>1 DEF Ages
<1>2. UNCHANGED emulator => Ages(emulator, emulator')
  BY DEF Ages
<1>3. ASSUME NEW s \in Starts, StartStep(s) \/ StartKilled(s) \/ EmulatorExit(s) \/ OrphanReaped(s)
      PROVE  Ages(emulator, emulator')
  <2>1. CASE StartFork(s)
    <3>1. emulator[s] = "none" /\ emulator' = [emulator EXCEPT ![s] = "running"]
      BY <2>1 DEF StartFork, ProcessOfStart
    <3> QED BY <1>1, <3>1
  <2>2. CASE StartReap(s) \/ StartInterrupted(s) \/ OrphanReaped(s)
    <3>1. emulator' = [emulator EXCEPT ![s] = "gone"]
      BY <2>2 DEF StartReap, StartInterrupted, OrphanReaped
    <3> QED BY <1>1, <3>1
  <2>3. CASE EmulatorExit(s)
    <3>1. emulator[s] = "running" /\ emulator' = [emulator EXCEPT ![s] = "zombie"]
      BY <2>3 DEF EmulatorExit
    <3> QED BY <1>1, <3>1
  <2> QED
    BY <1>2, <1>3, <2>1, <2>2, <2>3
    DEF StartStep, StartRead, StartRefused, StartRecord, StartOpen, StartRelay, StartEnd, StartError,
        StartInterruptedAgain, StartLoad, StartMerge, StartKilled
<1>4. ASSUME \/ \E s \in Starts, chunk \in Chunks : EmulatorPrint(s, chunk)
             \/ \E t \in Stops : StopRead(t) \/ StopSignal(t) \/ StopConfirmed(t) \/ StopWrite(t) \/ StopEnds(t)
             \/ \E r \in Readies : ReadyBegin(r) \/ ReadyPass(r) \/ ReadyEnds(r)
             \/ UNCHANGED vars
      PROVE  UNCHANGED emulator
  BY <1>4 DEF EmulatorPrint, StopRead, StopSignal, StopConfirmed, StopWrite, StopEnds, ReadyBegin,
              ReadyPass, ReadyEnds, vars
<1> QED BY <1>2, <1>3, <1>4 DEF Next

\* How a step of s leaves s itself; every other start stays, and is as old or older.
LEMMA ProcessKept ==
  ASSUME TypeOK, ProcessOfStart, NEW s \in Starts, NEW c \in StartCommands,
         start' = [start EXCEPT ![s] = c],
         \A o \in Starts \ {s} : emulator'[o] = emulator[o],
         /\ c.pc \in {"idle", "fork"} => emulator'[s] = "none"
         /\ c.pc \in {"record", "open", "console", "interrupt", "load", "merge"} => emulator'[s] # "none"
         /\ c.reaped \/ c.exit => emulator'[s] = "gone"
         /\ c.reaped \/ c.exit => c.pc \notin {"idle", "fork"}
  PROVE  ProcessOfStart'
BY DEF TypeOK, ProcessOfStart

LEMMA StartKeepsProcesses ==
  ASSUME TypeOK, ProcessOfStart, NEW s \in Starts, StartStep(s) \/ StartKilled(s)
  PROVE  ProcessOfStart'
<1>t. /\ start \in [Starts -> StartCommands] /\ start[s] \in StartCommands
      /\ file \in Files /\ NoFile \in Files
      /\ emulator \in [Starts -> {"none", "running", "zombie", "gone"}]
  BY DEF TypeOK, Files, NoFile
<1>p. /\ start[s].pc \in {"idle", "fork"} => emulator[s] = "none"
      /\ start[s].pc \in {"record", "open", "console", "interrupt", "load", "merge"} => emulator[s] # "none"
      /\ start[s].reaped \/ start[s].exit => emulator[s] = "gone"
      /\ start[s].reaped \/ start[s].exit => start[s].pc \notin {"idle", "fork"}
  BY DEF ProcessOfStart
<1>c. ASSUME NEW pc \in StartSteps, NEW f \in Files
      PROVE  \E c \in StartCommands : /\ c = [start[s] EXCEPT !.pc = pc, !.loaded = f]
                                      /\ c.pc = pc /\ c.reaped = start[s].reaped /\ c.exit = start[s].exit
  <2> DEFINE c == [start[s] EXCEPT !.pc = pc, !.loaded = f]
  <2>1. c \in StartCommands /\ c.pc = pc /\ c.reaped = start[s].reaped /\ c.exit = start[s].exit
    BY <1>t DEF StartCommands
  <2> QED BY <2>1
<1>d. ASSUME NEW pc \in StartSteps
      PROVE  \E c \in StartCommands : /\ c = [start[s] EXCEPT !.pc = pc]
                                      /\ c.pc = pc /\ c.reaped = start[s].reaped /\ c.exit = start[s].exit
  <2> DEFINE c == [start[s] EXCEPT !.pc = pc]
  <2>1. c \in StartCommands /\ c.pc = pc /\ c.reaped = start[s].reaped /\ c.exit = start[s].exit
    BY <1>t DEF StartCommands
  <2> QED BY <2>1
<1>s. {"over", "fork", "record", "open", "console", "interrupt", "load", "merge"} \subseteq StartSteps
  BY DEF StartSteps
<1>1. CASE StartRead(s)
  <2>1. PICK c \in StartCommands : /\ c = [start[s] EXCEPT !.pc = "fork", !.loaded = file]
                                   /\ c.pc = "fork" /\ c.reaped = start[s].reaped /\ c.exit = start[s].exit
    BY <1>c, <1>s, <1>t
  <2>2. start[s].pc = "idle" /\ start' = [start EXCEPT ![s] = c] /\ UNCHANGED emulator
    BY <1>1, <2>1 DEF StartRead
  <2> QED BY <1>p, <2>1, <2>2, ProcessKept
<1>2. CASE StartRefused(s) \/ StartKilled(s) \/ StartMerge(s)
  <2>1. PICK c \in StartCommands : /\ c = [start[s] EXCEPT !.pc = "over", !.loaded = NoFile]
                                   /\ c.pc = "over" /\ c.reaped = start[s].reaped /\ c.exit = start[s].exit
    BY <1>c, <1>s, <1>t
  <2>2. start' = [start EXCEPT ![s] = c] /\ UNCHANGED emulator
    BY <1>2, <2>1 DEF StartRefused, StartKilled, StartMerge, StartOver
  <2> QED BY <1>p, <2>1, <2>2, ProcessKept
<1>3. CASE StartFork(s)
  <2>1. PICK c \in StartCommands : /\ c = [start[s] EXCEPT !.pc = "record"]
                                   /\ c.pc = "record" /\ c.reaped = start[s].reaped /\ c.exit = start[s].exit
    BY <1>d, <1>s
  <2>2. start[s].pc = "fork" /\ start' = [start EXCEPT ![s] = c]
        /\ emulator' = [emulator EXCEPT ![s] = "running"]
    BY <1>3, <2>1 DEF StartFork, StartGoes
  <2>3. emulator'[s] = "running" /\ \A o \in Starts \ {s} : emulator'[o] = emulator[o]
    BY <1>t, <2>2
  <2> QED BY <1>p, <2>1, <2>2, <2>3, ProcessKept
<1>4. CASE StartRecord(s) \/ StartOpen(s) \/ StartError(s) \/ StartInterruptedAgain(s)
  <2>1. PICK pc \in {"open", "console", "interrupt", "load"} :
          start' = [start EXCEPT ![s] = [start[s] EXCEPT !.pc = pc]]
    BY <1>4 DEF StartRecord, StartOpen, StartError, StartInterruptedAgain, StartGoes
  <2>2. PICK c \in StartCommands : /\ c = [start[s] EXCEPT !.pc = pc]
                                   /\ c.pc = pc /\ c.reaped = start[s].reaped /\ c.exit = start[s].exit
    BY <1>d, <1>s
  <2>3. start[s].pc \in {"record", "open", "console", "interrupt"} /\ UNCHANGED emulator
    BY <1>4 DEF StartRecord, StartOpen, StartError, StartInterruptedAgain
  <2> QED BY <1>p, <2>1, <2>2, <2>3, ProcessKept
<1>5. CASE StartInterrupted(s)
  <2>1. PICK c \in StartCommands : /\ c = [start[s] EXCEPT !.pc = "load"]
                                   /\ c.pc = "load" /\ c.reaped = start[s].reaped /\ c.exit = start[s].exit
    BY <1>d, <1>s
  <2>2. start' = [start EXCEPT ![s] = c] /\ emulator' = [emulator EXCEPT ![s] = "gone"]
    BY <1>5, <2>1 DEF StartInterrupted, StartGoes
  <2>3. emulator'[s] = "gone" /\ \A o \in Starts \ {s} : emulator'[o] = emulator[o]
    BY <1>t, <2>2
  <2> QED BY <2>1, <2>2, <2>3, ProcessKept
<1>6. CASE StartRelay(s)
  BY <1>6 DEF StartRelay, ProcessOfStart
<1>7. CASE StartReap(s)
  <2> DEFINE c == [start[s] EXCEPT !.reaped = TRUE]
  <2>1. c \in StartCommands /\ c.pc = start[s].pc /\ c.exit = start[s].exit
    BY <1>t, <1>s DEF StartCommands
  <2>2. start[s].pc = "console" /\ start' = [start EXCEPT ![s] = c]
        /\ emulator' = [emulator EXCEPT ![s] = "gone"]
    BY <1>7, <2>1 DEF StartReap
  <2>3. emulator'[s] = "gone" /\ \A o \in Starts \ {s} : emulator'[o] = emulator[o]
    BY <1>t, <2>2
  <2> HIDE DEF c
  <2> QED BY <2>1, <2>2, <2>3, ProcessKept
<1>8. CASE StartEnd(s)
  <2> DEFINE c == [start[s] EXCEPT !.pc = "load", !.exit = TRUE]
  <2>1. c \in StartCommands /\ c.pc = "load"
    BY <1>t, <1>s DEF StartCommands
  <2>2. start[s].reaped /\ start' = [start EXCEPT ![s] = c] /\ UNCHANGED emulator
    BY <1>8, <2>1 DEF StartEnd, ConsoleOver
  <2> HIDE DEF c
  <2> QED BY <1>p, <2>1, <2>2, ProcessKept
<1>9. CASE StartLoad(s)
  <2>1. PICK found \in Files : start' = [start EXCEPT ![s] = [start[s] EXCEPT !.pc = "merge", !.loaded = found]]
    BY <1>9, <1>t DEF StartLoad
  <2>2. PICK c \in StartCommands : /\ c = [start[s] EXCEPT !.pc = "merge", !.loaded = found]
                                   /\ c.pc = "merge" /\ c.reaped = start[s].reaped /\ c.exit = start[s].exit
    BY <1>c, <1>s
  <2>3. start[s].pc = "load" /\ UNCHANGED emulator
    BY <1>9 DEF StartLoad
  <2> QED BY <1>p, <2>1, <2>2, <2>3, ProcessKept
<1> QED BY <1>1, <1>2, <1>3, <1>4, <1>5, <1>6, <1>7, <1>8, <1>9 DEF StartStep

LEMMA NextKeepsProcesses ==
  ASSUME TypeOK, ProcessOfStart, [Next]_vars
  PROVE  ProcessOfStart'
<1>1. UNCHANGED <<start, emulator>> => ProcessOfStart'
  BY DEF ProcessOfStart
<1>2. ASSUME NEW s \in Starts, EmulatorExit(s) \/ OrphanReaped(s)
      PROVE  ProcessOfStart'
  <2>1. PICK e \in {"zombie", "gone"} : emulator' = [emulator EXCEPT ![s] = e]
    BY <1>2 DEF EmulatorExit, OrphanReaped
  <2>2. emulator[s] \in {"running", "zombie"} /\ UNCHANGED start
    BY <1>2 DEF EmulatorExit, OrphanReaped
  <2>3. emulator'[s] = e /\ \A o \in Starts \ {s} : emulator'[o] = emulator[o]
    BY <2>1 DEF TypeOK
  <2> QED BY <2>2, <2>3 DEF ProcessOfStart
<1>3. ASSUME \/ \E s \in Starts, chunk \in Chunks : EmulatorPrint(s, chunk)
             \/ \E t \in Stops : StopRead(t) \/ StopSignal(t) \/ StopConfirmed(t) \/ StopWrite(t) \/ StopEnds(t)
             \/ \E r \in Readies : ReadyBegin(r) \/ ReadyPass(r) \/ ReadyEnds(r)
             \/ UNCHANGED vars
      PROVE  UNCHANGED <<start, emulator>>
  BY <1>3 DEF EmulatorPrint, StopRead, StopSignal, StopConfirmed, StopWrite, StopEnds, ReadyBegin,
              ReadyPass, ReadyEnds, vars
<1> QED BY <1>1, <1>2, <1>3, StartKeepsProcesses DEF Next

LEMMA InitialProcesses == Init => ProcessOfStart
BY DEF Init, ProcessOfStart

------------------------------------------------------------------------------
(* The runtime file. *)

\* What a content says is true of the processes.
Truthful(f, processes) ==
  /\ f.pid # None => processes[f.pid] # "none"
  /\ f.exit # None => f.exit = f.pid /\ processes[f.exit] = "gone"
  /\ f.termination # None => processes[f.termination] = "gone"

\* So are the file and every copy of it that a command works on, and a stop that is
\* about to write has seen its process gone.
CopiesAreTrue ==
  /\ Truthful(file, emulator)
  /\ \A s \in Starts : Truthful(start[s].loaded, emulator)
  /\ \A t \in Stops : /\ Truthful(stop[t].loaded, emulator)
                      /\ stop[t].pc \in {"signal", "wait", "write"} => stop[t].loaded.pid # None
                      /\ stop[t].pc = "write" => emulator[stop[t].loaded.pid] = "gone"

LEMMA StaysTrue ==
  ASSUME NEW f \in Files, NEW before, NEW after, Ages(before, after), Truthful(f, before)
  PROVE  Truthful(f, after)
<1>1. f.pid # None => f.pid \in Starts
  BY DEF Files
<1>2. /\ f.termination # None => f.termination \in Starts
      /\ f.exit # None => f.exit \in Starts
  BY DEF Files
<1>3. f.pid # None => after[f.pid] # "none" /\ (before[f.pid] = "gone" => after[f.pid] = "gone")
  BY <1>1 DEF Ages, Truthful
<1>4. /\ f.termination # None => (before[f.termination] = "gone" => after[f.termination] = "gone")
      /\ f.exit # None => (before[f.exit] = "gone" => after[f.exit] = "gone")
  BY <1>2 DEF Ages
<1> QED BY <1>3, <1>4 DEF Truthful

\* What may be in the file and in the copies after a step.
LEMMA CopiesStayTrue ==
  ASSUME TypeOK, CopiesAreTrue, Ages(emulator, emulator'),
         Truthful(file', emulator'),
         \A s \in Starts : start'[s].loaded \in {start[s].loaded, file, NoFile},
         \A t \in Stops : \/ stop'[t] = stop[t]
                          \/ stop'[t].pc = "over" /\ stop'[t].loaded = NoFile
                          \/ stop'[t].pc = "signal" /\ stop'[t].loaded = file /\ file.pid # None
                          \/ stop'[t].pc = "wait" /\ stop[t].pc = "signal" /\ stop'[t].loaded = stop[t].loaded
                          \/ /\ stop'[t].pc = "write" /\ stop[t].pc = "wait"
                             /\ stop'[t].loaded = stop[t].loaded
                             /\ emulator'[stop[t].loaded.pid] = "gone"
  PROVE  CopiesAreTrue'
<1>n. Truthful(NoFile, emulator')
  BY DEF Truthful, NoFile
<1>f. file \in Files /\ (\A s \in Starts : start[s].loaded \in Files) /\ (\A t \in Stops : stop[t].loaded \in Files)
  BY DEF TypeOK, StartCommands, StopCommands
<1>1. Truthful(file, emulator')
  BY <1>f, StaysTrue DEF CopiesAreTrue
<1>2. ASSUME NEW s \in Starts PROVE Truthful(start'[s].loaded, emulator')
  <2>1. Truthful(start[s].loaded, emulator')
    BY <1>f, StaysTrue DEF CopiesAreTrue
  <2> QED BY <1>n, <1>1, <2>1
<1>3. ASSUME NEW t \in Stops
      PROVE  /\ Truthful(stop'[t].loaded, emulator')
             /\ stop'[t].pc \in {"signal", "wait", "write"} => stop'[t].loaded.pid # None
             /\ stop'[t].pc = "write" => emulator'[stop'[t].loaded.pid] = "gone"
  <2>1. Truthful(stop[t].loaded, emulator')
    BY <1>f, StaysTrue DEF CopiesAreTrue
  <2>2. /\ stop[t].pc \in {"signal", "wait", "write"} => stop[t].loaded.pid # None
        /\ stop[t].pc = "write" => emulator[stop[t].loaded.pid] = "gone"
    BY DEF CopiesAreTrue
  <2>3. stop[t].pc = "write" => emulator'[stop[t].loaded.pid] = "gone"
    <3>1. stop[t].pc = "write" => stop[t].loaded.pid \in Starts
      BY <1>f, <2>2 DEF Files
    <3> QED BY <2>2, <3>1 DEF Ages
  <2>4. \/ stop'[t] = stop[t]
        \/ stop'[t].pc = "over" /\ stop'[t].loaded = NoFile
        \/ stop'[t].pc = "signal" /\ stop'[t].loaded = file /\ file.pid # None
        \/ stop'[t].pc = "wait" /\ stop[t].pc = "signal" /\ stop'[t].loaded = stop[t].loaded
        \/ /\ stop'[t].pc = "write" /\ stop[t].pc = "wait"
           /\ stop'[t].loaded = stop[t].loaded
           /\ emulator'[stop[t].loaded.pid] = "gone"
    OBVIOUS
  <2> QED BY <1>n, <1>1, <2>1, <2>2, <2>3, <2>4
<1> QED BY <1>2, <1>3 DEF CopiesAreTrue

\* A start writes its own process, and its exit code only when it has ended.
LEMMA StartWritesTrue ==
  ASSUME TypeOK, ProcessOfStart, CopiesAreTrue, Ages(emulator, emulator'),
         NEW s \in Starts, StartStep(s) \/ StartKilled(s)
  PROVE  Truthful(file', emulator')
<1>f. file \in Files /\ start[s].loaded \in Files /\ start[s].exit \in BOOLEAN
  BY DEF TypeOK, StartCommands
<1>1. Truthful(file, emulator') /\ Truthful(start[s].loaded, emulator')
  BY <1>f, StaysTrue DEF CopiesAreTrue
<1>2. CASE StartRecord(s)
  <2>1. /\ file' = [NoFile EXCEPT !.pid = s, !.runtime = s]
        /\ emulator' = emulator /\ emulator[s] # "none"
    BY <1>2 DEF StartRecord, ProcessOfStart
  <2>2. file'.pid = s /\ file'.exit = None /\ file'.termination = None
    BY <2>1 DEF NoFile
  <2> QED BY <2>1, <2>2 DEF Truthful
<1>3. CASE StartMerge(s)
  <2>1. /\ file' = Merged(s) /\ emulator' = emulator /\ emulator[s] # "none"
        /\ start[s].exit => emulator[s] = "gone"
    BY <1>3 DEF StartMerge, ProcessOfStart
  <2>2. /\ file'.pid = s /\ file'.exit = OwnExit(s)
        /\ file'.termination = start[s].loaded.termination
    BY <1>f, <2>1 DEF Merged, Files
  <2>3. s # None
    BY NoneAssumption
  <2> QED BY <1>1, <2>1, <2>2, <2>3 DEF Truthful, OwnExit
<1> QED
  BY <1>1, <1>2, <1>3
  DEF StartStep, StartRead, StartRefused, StartFork, StartOpen, StartRelay, StartReap, StartEnd, StartError,
      StartInterrupted, StartInterruptedAgain, StartLoad, StartKilled

LEMMA StartKeepsCopies ==
  ASSUME TypeOK, NEW s \in Starts, StartStep(s) \/ StartKilled(s)
  PROVE  /\ UNCHANGED stop
         /\ \A o \in Starts : start'[o].loaded \in {start[o].loaded, file, NoFile}
<1>t. start \in [Starts -> StartCommands]
  BY DEF TypeOK
<1>1. ASSUME NEW c, start' = [start EXCEPT ![s] = c],
             c.loaded \in {start[s].loaded, file, NoFile}
      PROVE  \A o \in Starts : start'[o].loaded \in {start[o].loaded, file, NoFile}
  BY <1>t, <1>1
<1>2. ASSUME NEW pc PROVE [start[s] EXCEPT !.pc = pc].loaded = start[s].loaded
  BY <1>t DEF StartCommands
<1>3. ASSUME NEW pc, NEW f PROVE [start[s] EXCEPT !.pc = pc, !.loaded = f].loaded = f
  BY <1>t DEF StartCommands
<1>4. /\ [start[s] EXCEPT !.reaped = TRUE].loaded = start[s].loaded
      /\ [start[s] EXCEPT !.pc = "load", !.exit = TRUE].loaded = start[s].loaded
  BY <1>t DEF StartCommands
<1>5. CASE StartRead(s)
  BY <1>1, <1>3, <1>5 DEF StartRead
<1>6. CASE StartRefused(s) \/ StartKilled(s) \/ StartMerge(s)
  <2> DEFINE c == [start[s] EXCEPT !.pc = "over", !.loaded = NoFile]
  <2>1. start' = [start EXCEPT ![s] = c] /\ UNCHANGED stop
    BY <1>6 DEF StartRefused, StartKilled, StartMerge, StartOver
  <2>2. c.loaded = NoFile
    BY <1>3
  <2> HIDE DEF c
  <2> QED BY <1>1, <2>1, <2>2
<1>7. CASE \/ StartFork(s) \/ StartRecord(s) \/ StartOpen(s) \/ StartError(s)
           \/ StartInterrupted(s) \/ StartInterruptedAgain(s)
  BY <1>1, <1>2, <1>7 DEF StartFork, StartRecord, StartOpen, StartError, StartInterrupted,
                          StartInterruptedAgain, StartGoes
<1>8. CASE StartReap(s) \/ StartEnd(s)
  BY <1>1, <1>4, <1>8 DEF StartReap, StartEnd
<1>9. CASE StartLoad(s)
  <2>1. PICK found \in {file, NoFile} : start' = [start EXCEPT ![s] = [start[s] EXCEPT !.pc = "merge", !.loaded = found]]
    BY <1>9 DEF StartLoad
  <2> QED BY <1>1, <1>3, <1>9, <2>1 DEF StartLoad
<1>10. CASE StartRelay(s)
  BY <1>10 DEF StartRelay
<1> QED BY <1>5, <1>6, <1>7, <1>8, <1>9, <1>10 DEF StartStep

\* A stop writes the termination of a process that it has seen gone.
LEMMA StopKeepsTrue ==
  ASSUME TypeOK, CopiesAreTrue, NEW t \in Stops,
         StopRead(t) \/ StopSignal(t) \/ StopConfirmed(t) \/ StopWrite(t) \/ StopEnds(t)
  PROVE  CopiesAreTrue'
<1>t. stop \in [Stops -> StopCommands] /\ stop[t] \in StopCommands /\ stop[t].loaded \in Files /\ file \in Files
  BY DEF TypeOK, StopCommands
<1>a. Ages(emulator, emulator')
  BY DEF Ages, StopRead, StopSignal, StopConfirmed, StopWrite, StopEnds
<1>b. emulator' = emulator /\ start' = start
  BY DEF StopRead, StopSignal, StopConfirmed, StopWrite, StopEnds
<1>1. Truthful(file', emulator')
  <2>1. CASE StopWrite(t)
    <3>1. /\ file' = [stop[t].loaded EXCEPT !.termination = stop[t].loaded.pid]
          /\ stop[t].pc = "write"
      BY <2>1 DEF StopWrite
    <3>2. /\ file'.pid = stop[t].loaded.pid /\ file'.exit = stop[t].loaded.exit
          /\ file'.termination = stop[t].loaded.pid
      BY <1>t, <3>1 DEF Files
    <3>3. Truthful(stop[t].loaded, emulator) /\ emulator[stop[t].loaded.pid] = "gone"
      BY <3>1 DEF CopiesAreTrue
    <3> QED BY <1>b, <3>2, <3>3 DEF Truthful
  <2>2. CASE ~StopWrite(t)
    BY <1>b, <2>2 DEF StopRead, StopSignal, StopConfirmed, StopEnds, CopiesAreTrue
  <2> QED BY <2>1, <2>2
<1>2. ASSUME NEW c,
             stop' = [stop EXCEPT ![t] = c],
             \/ c.pc = "over" /\ c.loaded = NoFile
             \/ c.pc = "signal" /\ c.loaded = file /\ file.pid # None
             \/ c.pc = "wait" /\ stop[t].pc = "signal" /\ c.loaded = stop[t].loaded
             \/ /\ c.pc = "write" /\ stop[t].pc = "wait" /\ c.loaded = stop[t].loaded
                /\ emulator[stop[t].loaded.pid] = "gone"
      PROVE  CopiesAreTrue'
  <2>1. stop'[t] = c /\ \A o \in Stops \ {t} : stop'[o] = stop[o]
    BY <1>t, <1>2
  <2>2. \A s \in Starts : start'[s].loaded \in {start[s].loaded, file, NoFile}
    BY <1>b
  <2>3. ASSUME NEW o \in Stops
        PROVE  \/ stop'[o] = stop[o]
               \/ stop'[o].pc = "over" /\ stop'[o].loaded = NoFile
               \/ stop'[o].pc = "signal" /\ stop'[o].loaded = file /\ file.pid # None
               \/ stop'[o].pc = "wait" /\ stop[o].pc = "signal" /\ stop'[o].loaded = stop[o].loaded
               \/ /\ stop'[o].pc = "write" /\ stop[o].pc = "wait"
                  /\ stop'[o].loaded = stop[o].loaded
                  /\ emulator'[stop[o].loaded.pid] = "gone"
    BY <1>2, <1>b, <2>1
  <2> QED BY <1>1, <1>a, <2>2, <2>3, CopiesStayTrue
<1>3. CASE StopRead(t)
  BY <1>2, <1>3 DEF StopRead
<1>4. CASE StopWrite(t) \/ StopEnds(t)
  BY <1>2, <1>4 DEF StopWrite, StopEnds, StopOver
<1>5. CASE StopSignal(t)
  <2>1. [stop[t] EXCEPT !.pc = "wait"].pc = "wait" /\ [stop[t] EXCEPT !.pc = "wait"].loaded = stop[t].loaded
    BY <1>t DEF StopCommands
  <2> QED BY <1>2, <1>5, <2>1 DEF StopSignal
<1>6. CASE StopConfirmed(t)
  <2>1. [stop[t] EXCEPT !.pc = "write"].pc = "write" /\ [stop[t] EXCEPT !.pc = "write"].loaded = stop[t].loaded
    BY <1>t DEF StopCommands
  <2>2. emulator[stop[t].loaded.pid] = "gone"
    <3>1. stop[t].pc = "wait" /\ ~PidAlive(stop[t].loaded.pid)
      BY <1>6 DEF StopConfirmed, Stopped
    <3>2. stop[t].loaded.pid # None /\ emulator[stop[t].loaded.pid] # "none"
      BY <3>1 DEF CopiesAreTrue, Truthful
    <3>3. stop[t].loaded.pid \in Starts
      BY <1>t, <3>2 DEF Files
    <3>4. emulator[stop[t].loaded.pid] \in {"none", "running", "zombie", "gone"}
      BY <3>3 DEF TypeOK
    <3> QED BY <3>1, <3>2, <3>4 DEF PidAlive
  <2> QED BY <1>2, <1>6, <2>1, <2>2 DEF StopConfirmed
<1> QED BY <1>3, <1>4, <1>5, <1>6

LEMMA NextKeepsTrue ==
  ASSUME TypeOK, ProcessOfStart, CopiesAreTrue, [Next]_vars
  PROVE  CopiesAreTrue'
<1>a. Ages(emulator, emulator')
  BY ProcessesAge
<1>1. ASSUME UNCHANGED <<file, start, stop>>
      PROVE  CopiesAreTrue'
  <2>1. Truthful(file', emulator')
    <3>1. file \in Files /\ Truthful(file, emulator)
      BY DEF TypeOK, CopiesAreTrue
    <3> QED BY <1>1, <1>a, <3>1, StaysTrue
  <2> QED BY <1>1, <1>a, <2>1, CopiesStayTrue
<1>2. ASSUME NEW s \in Starts, StartStep(s) \/ StartKilled(s)
      PROVE  CopiesAreTrue'
  BY <1>a, <1>2, StartKeepsCopies, StartWritesTrue, CopiesStayTrue
<1>3. ASSUME \/ \E s \in Starts : EmulatorExit(s) \/ OrphanReaped(s)
             \/ \E s \in Starts, chunk \in Chunks : EmulatorPrint(s, chunk)
             \/ \E r \in Readies : ReadyBegin(r) \/ ReadyPass(r) \/ ReadyEnds(r)
             \/ UNCHANGED vars
      PROVE  UNCHANGED <<file, start, stop>>
  BY <1>3 DEF EmulatorExit, OrphanReaped, EmulatorPrint, ReadyBegin, ReadyPass, ReadyEnds, vars
<1> QED BY <1>1, <1>2, <1>3, StopKeepsTrue DEF Next

LEMMA InitialTruth == Init => CopiesAreTrue
BY DEF Init, CopiesAreTrue, Truthful, NoFile

LEMMA TruthInvariant == Spec => [](TypeOK /\ ReadIsPrinted /\ ProcessOfStart /\ CopiesAreTrue)
<1>1. TypeOK /\ ProcessOfStart /\ CopiesAreTrue /\ [Next]_vars => (ProcessOfStart /\ CopiesAreTrue)'
  BY NextKeepsProcesses, NextKeepsTrue
<1> QED BY <1>1, TypeInvariant, InitialProcesses, InitialTruth, PTL DEF Spec

\* Whatever starts and stops write over each other without a lock, an exit code in the
\* runtime file is that of the process whose pid it has, and that process is gone; what
\* a stop has recorded the termination of is gone as well.
THEOREM FileIsTrue == Spec => []RecordedEndsAreTrue
<1>1. CopiesAreTrue => RecordedEndsAreTrue
  BY DEF CopiesAreTrue, Truthful, RecordedEndsAreTrue
<1> QED BY <1>1, TruthInvariant, PTL

------------------------------------------------------------------------------
(* The transcript.  Commands that are not in their console loop have no part in it; *)
(* a start that is and has the log to itself has written what it has read.          *)

Before == {"idle", "fork", "record", "open"}

LogIsRead ==
  /\ log.by = None => log.text = <<>>
  /\ \A s \in Starts :
       /\ start[s].pc \in Before => console[s].read = 0
       /\ start[s].exit => console[s].read = Len(console[s].said)
       /\ HasLogOpen(s) => log.by # None /\ (log.by = s \/ log.mixed)
       /\ log.by = s /\ ~log.mixed =>
            /\ Len(log.text) = console[s].read
            /\ \A i \in 1..Len(log.text) : log.text[i] = [by |-> s, chunk |-> console[s].said[i]]

LEMMA WrittenAtEnd ==
  ASSUME NEW text \in Seq(Entries), NEW entries \in Seq(Entries)
  PROVE  /\ Len(Written(text, Len(text), entries)) = Len(text) + Len(entries)
         /\ \A i \in 1..Len(text) : Written(text, Len(text), entries)[i] = text[i]
         /\ \A i \in (Len(text) + 1)..(Len(text) + Len(entries)) :
              Written(text, Len(text), entries)[i] = entries[i - Len(text)]
<1> DEFINE w == Written(text, Len(text), entries)
           n == Len(text) + Len(entries)
<1>1. Len(text) \in Nat /\ Len(entries) \in Nat /\ n \in Nat /\ ~(Len(text) > n)
  OBVIOUS
<1>2. w = [i \in 1..n |-> IF i > Len(text) /\ i <= Len(text) + Len(entries) THEN entries[i - Len(text)]
                          ELSE IF i <= Len(text) THEN text[i] ELSE [by |-> None, chunk |-> "text"]]
  BY <1>1 DEF Written
<1>3. w \in Seq(Entries) /\ DOMAIN w = 1..n
  BY <1>1, <1>2, WrittenEntries
<1>4. Len(w) = n
  BY <1>1, <1>3, LenProperties
<1>5. ASSUME NEW i \in 1..Len(text) PROVE w[i] = text[i]
  <2>1. i \in 1..n /\ ~(i > Len(text)) /\ i <= Len(text)
    BY <1>1
  <2> QED BY <1>2, <2>1
<1>6. ASSUME NEW i \in (Len(text) + 1)..(Len(text) + Len(entries)) PROVE w[i] = entries[i - Len(text)]
  <2>1. i \in 1..n /\ i > Len(text) /\ i <= Len(text) + Len(entries)
    BY <1>1
  <2> QED BY <1>2, <2>1
<1> QED BY <1>4, <1>5, <1>6

LEMMA LogUntouched ==
  ASSUME TypeOK, LogIsRead, UNCHANGED <<console, log>>,
         \A s \in Starts : /\ start'[s].exit => start[s].exit
                           /\ start'[s].pc \in Before => start[s].pc \in Before
                           /\ start'[s].pc = "console" => start[s].pc = "console"
  PROVE  LogIsRead'
BY DEF LogIsRead, HasLogOpen

LEMMA RelayIsLogged ==
  ASSUME TypeOK, ReadIsPrinted, LogIsRead, NEW s \in Starts, StartRelay(s)
  PROVE  LogIsRead'
<1> DEFINE entries == [i \in 1..Len(Unread(s)) |-> [by |-> s, chunk |-> Unread(s)[i]]]
           text == log.text
           read == console[s].read
           said == console[s].said
<1>t. log \in Logs /\ text \in Seq(Entries) /\ console \in [Starts -> Consoles] /\ said \in Seq(Chunks)
      /\ read \in Nat /\ Len(said) \in Nat /\ read <= Len(said)
  BY DEF TypeOK, Logs, Consoles, ReadIsPrinted
<1>u. /\ Unread(s) \in Seq(Chunks) /\ Len(Unread(s)) = Len(said) - read /\ Len(Unread(s)) \in Nat
      /\ \A i \in 1..Len(Unread(s)) : Unread(s)[i] = said[read + i]
  BY UnreadChunks DEF ReadIsPrinted
<1>e. entries \in Seq(Entries) /\ Len(entries) = Len(said) - read
  <2>1. \A i \in 1..Len(Unread(s)) : Unread(s)[i] \in Chunks
    BY <1>u
  <2>2. entries \in [1..Len(Unread(s)) -> Entries]
    BY <2>1 DEF Entries
  <2>3. entries \in Seq(Entries)
    BY <1>u, <2>2, SeqDef
  <2>4. Len(entries) = Len(Unread(s))
    <3>1. DOMAIN entries = 1..Len(Unread(s))
      OBVIOUS
    <3> QED BY <1>u, <2>3, <3>1, LenProperties
  <2> QED BY <1>u, <2>3, <2>4
<1>1. /\ start[s].pc = "console" /\ start' = start
      /\ log' = [log EXCEPT !.text = Written(text, read, entries)]
      /\ console' = [console EXCEPT ![s] = [@ EXCEPT !.read = Len(console[s].said)]]
  BY DEF StartRelay
<1>2. /\ log'.text = Written(text, read, entries) /\ log'.by = log.by /\ log'.mixed = log.mixed
  BY <1>1, <1>t DEF Logs
<1>3. /\ console'[s].said = said /\ console'[s].read = Len(said)
      /\ \A o \in Starts \ {s} : console'[o] = console[o]
  BY <1>1, <1>t DEF Consoles
<1>4. log.by # None /\ (log.by = s \/ log.mixed)
  BY <1>1 DEF LogIsRead, HasLogOpen
<1>5. ASSUME log.by = s, ~log.mixed
      PROVE  /\ Len(log'.text) = Len(said)
             /\ \A i \in 1..Len(log'.text) : log'.text[i] = [by |-> s, chunk |-> said[i]]
  <2>1. Len(text) = read /\ \A i \in 1..Len(text) : text[i] = [by |-> s, chunk |-> said[i]]
    BY <1>5 DEF LogIsRead
  <2>2. log'.text = Written(text, Len(text), entries)
    BY <1>2, <2>1
  <2> HIDE DEF entries, text, read, said
  <2>3. /\ Len(log'.text) = Len(text) + Len(entries)
        /\ \A i \in 1..Len(text) : log'.text[i] = text[i]
        /\ \A i \in (Len(text) + 1)..(Len(text) + Len(entries)) : log'.text[i] = entries[i - Len(text)]
    <3> DEFINE w == Written(text, Len(text), entries)
    <3>1. /\ Len(w) = Len(text) + Len(entries)
          /\ \A i \in 1..Len(text) : w[i] = text[i]
          /\ \A i \in (Len(text) + 1)..(Len(text) + Len(entries)) : w[i] = entries[i - Len(text)]
      BY <1>t, <1>e, WrittenAtEnd
    <3>2. log'.text = w
      BY <2>2
    <3> HIDE DEF w
    <3> QED BY <3>1, <3>2
  <2>4. Len(log'.text) = Len(said)
    BY <1>t, <1>e, <2>1, <2>3
  <2>5. ASSUME NEW i \in 1..Len(log'.text)
        PROVE  log'.text[i] = [by |-> s, chunk |-> said[i]]
    <3>1. CASE i <= read
      <4>1. i \in 1..Len(text)
        BY <1>t, <2>1, <2>4, <2>5, <3>1
      <4> QED BY <2>1, <2>3, <4>1
    <3>2. CASE i > read
      <4>1. /\ i \in (Len(text) + 1)..(Len(text) + Len(entries))
            /\ i - read \in 1..Len(Unread(s)) /\ read + (i - read) = i
        BY <1>t, <1>u, <1>e, <2>1, <2>4, <2>5, <3>2
      <4>2. log'.text[i] = entries[i - read]
        BY <2>1, <2>3, <4>1
      <4>3. entries[i - read] = [by |-> s, chunk |-> Unread(s)[i - read]]
        BY <4>1 DEF entries
      <4>4. Unread(s)[i - read] = said[i]
        BY <1>u, <4>1
      <4> QED BY <4>2, <4>3, <4>4
    <3> QED BY <1>t, <2>4, <2>5, <3>1, <3>2
  <2> QED BY <2>4, <2>5
<1>6. ASSUME NEW o \in Starts
      PROVE  /\ start'[o].pc \in Before => console'[o].read = 0
             /\ start'[o].exit => console'[o].read = Len(console'[o].said)
             /\ start'[o].pc = "console" => log'.by # None /\ (log'.by = o \/ log'.mixed)
             /\ log'.by = o /\ ~log'.mixed =>
                  /\ Len(log'.text) = console'[o].read
                  /\ \A i \in 1..Len(log'.text) : log'.text[i] = [by |-> o, chunk |-> console'[o].said[i]]
  <2>1. CASE o = s
    BY <1>1, <1>2, <1>3, <1>4, <1>5, <2>1 DEF Before
  <2>2. CASE o # s
    BY <1>1, <1>2, <1>3, <1>4, <2>2 DEF LogIsRead, HasLogOpen
  <2> QED BY <2>1, <2>2
<1> QED BY <1>2, <1>4, <1>6 DEF LogIsRead, HasLogOpen

LEMMA PrintIsUnread ==
  ASSUME TypeOK, ReadIsPrinted, ProcessOfStart, LogIsRead,
         NEW s \in Starts, NEW chunk \in Chunks, EmulatorPrint(s, chunk)
  PROVE  LogIsRead'
<1> DEFINE said == console[s].said
<1>t. console \in [Starts -> Consoles] /\ said \in Seq(Chunks) /\ Len(said) \in Nat
      /\ console[s].read \in Nat /\ console[s].read <= Len(said)
  BY DEF TypeOK, Consoles, ReadIsPrinted
<1>1. /\ console' = [console EXCEPT ![s] = [@ EXCEPT !.said = Append(console[s].said, chunk)]]
      /\ UNCHANGED <<start, log>> /\ emulator[s] = "running"
  BY DEF EmulatorPrint
<1>2. /\ console'[s].said = Append(said, chunk) /\ console'[s].read = console[s].read
      /\ \A o \in Starts \ {s} : console'[o] = console[o]
  BY <1>1, <1>t DEF Consoles
<1>3. ~start[s].exit
  BY <1>1 DEF ProcessOfStart
<1>4. \A i \in 1..Len(said) : Append(said, chunk)[i] = said[i]
  BY <1>t
<1>5. ASSUME log.by = s, ~log.mixed
      PROVE  /\ Len(log.text) = console[s].read
             /\ \A i \in 1..Len(log.text) : log.text[i] = [by |-> s, chunk |-> Append(said, chunk)[i]]
  <2>1. /\ Len(log.text) = console[s].read
        /\ \A i \in 1..Len(log.text) : log.text[i] = [by |-> s, chunk |-> said[i]]
    BY <1>5 DEF LogIsRead
  <2>2. \A i \in 1..Len(log.text) : i \in 1..Len(said)
    BY <1>t, <2>1
  <2> QED BY <1>4, <2>1, <2>2
<1>6. ASSUME NEW o \in Starts
      PROVE  /\ start'[o].pc \in Before => console'[o].read = 0
             /\ start'[o].exit => console'[o].read = Len(console'[o].said)
             /\ start'[o].pc = "console" => log'.by # None /\ (log'.by = o \/ log'.mixed)
             /\ log'.by = o /\ ~log'.mixed =>
                  /\ Len(log'.text) = console'[o].read
                  /\ \A i \in 1..Len(log'.text) : log'.text[i] = [by |-> o, chunk |-> console'[o].said[i]]
  <2>1. CASE o = s
    <3>1. /\ start[s].pc \in Before => console[s].read = 0
          /\ start[s].pc = "console" => log.by # None /\ (log.by = s \/ log.mixed)
      BY DEF LogIsRead, HasLogOpen
    <3>2. start'[s] = start[s] /\ log' = log
      BY <1>1
    <3> HIDE DEF said
    <3> QED BY <1>2, <1>3, <1>5, <2>1, <3>1, <3>2
  <2>2. CASE o # s
    BY <1>1, <1>2, <2>2 DEF LogIsRead, HasLogOpen
  <2> QED BY <2>1, <2>2
<1> QED BY <1>1, <1>6 DEF LogIsRead, HasLogOpen

LEMMA StartIsLogged ==
  ASSUME TypeOK, ReadIsPrinted, LogIsRead, NEW s \in Starts, StartStep(s) \/ StartKilled(s)
  PROVE  LogIsRead'
<1>t. start \in [Starts -> StartCommands] /\ start[s] \in StartCommands
  BY DEF TypeOK
<1>1. ASSUME NEW c, start' = [start EXCEPT ![s] = c], UNCHANGED <<console, log>>,
             c.exit = start[s].exit, c.pc \in Before => start[s].pc \in Before,
             c.pc = "console" => start[s].pc = "console"
      PROVE  LogIsRead'
  <2>1. \A o \in Starts : start'[o] = IF o = s THEN c ELSE start[o]
    BY <1>t, <1>1
  <2>2. \A o \in Starts : /\ start'[o].exit => start[o].exit
                          /\ start'[o].pc \in Before => start[o].pc \in Before
                          /\ start'[o].pc = "console" => start[o].pc = "console"
    BY <1>1, <2>1
  <2> QED BY <1>1, <2>2, LogUntouched
<1>2. ASSUME NEW pc, NEW f
      PROVE  /\ [start[s] EXCEPT !.pc = pc].pc = pc
             /\ [start[s] EXCEPT !.pc = pc].exit = start[s].exit
             /\ [start[s] EXCEPT !.pc = pc, !.loaded = f].pc = pc
             /\ [start[s] EXCEPT !.pc = pc, !.loaded = f].exit = start[s].exit
  BY <1>t DEF StartCommands
<1>3. CASE StartRead(s)
  <2> DEFINE c == [start[s] EXCEPT !.pc = "fork", !.loaded = file]
  <2>1. start[s].pc = "idle" /\ start' = [start EXCEPT ![s] = c] /\ UNCHANGED <<console, log>>
    BY <1>3 DEF StartRead
  <2>2. c.pc = "fork" /\ c.exit = start[s].exit
    BY <1>2
  <2> HIDE DEF c
  <2> QED BY <1>1, <2>1, <2>2 DEF Before
<1>4. CASE StartRefused(s) \/ StartKilled(s) \/ StartMerge(s)
  <2> DEFINE c == [start[s] EXCEPT !.pc = "over", !.loaded = NoFile]
  <2>1. start' = [start EXCEPT ![s] = c] /\ UNCHANGED <<console, log>>
    BY <1>4 DEF StartRefused, StartKilled, StartMerge, StartOver
  <2>2. c.pc = "over" /\ c.exit = start[s].exit
    BY <1>2
  <2> HIDE DEF c
  <2> QED BY <1>1, <2>1, <2>2 DEF Before
<1>5. CASE \/ StartFork(s) \/ StartRecord(s) \/ StartError(s)
           \/ StartInterrupted(s) \/ StartInterruptedAgain(s)
  <2>1. PICK pc \in {"record", "open", "interrupt", "load"} :
          /\ start' = [start EXCEPT ![s] = [start[s] EXCEPT !.pc = pc]]
          /\ pc \in {"record", "open"} => start[s].pc \in {"fork", "record"}
    BY <1>5 DEF StartFork, StartRecord, StartError, StartInterrupted, StartInterruptedAgain,
                StartGoes
  <2>2. UNCHANGED <<console, log>>
    BY <1>5 DEF StartFork, StartRecord, StartError, StartInterrupted, StartInterruptedAgain
  <2> QED BY <1>1, <1>2, <2>1, <2>2 DEF Before
<1>6. CASE StartReap(s)
  <2>1. start[s].pc = "console" /\ start' = [start EXCEPT ![s] = [start[s] EXCEPT !.reaped = TRUE]]
        /\ UNCHANGED <<console, log>>
    BY <1>6 DEF StartReap
  <2>2. /\ [start[s] EXCEPT !.reaped = TRUE].pc = start[s].pc
        /\ [start[s] EXCEPT !.reaped = TRUE].exit = start[s].exit
    BY <1>t DEF StartCommands
  <2> QED BY <1>1, <2>1, <2>2 DEF Before
<1>7. CASE StartLoad(s)
  <2>1. PICK found : start' = [start EXCEPT ![s] = [start[s] EXCEPT !.pc = "merge", !.loaded = found]]
    BY <1>7 DEF StartLoad
  <2> DEFINE c == [start[s] EXCEPT !.pc = "merge", !.loaded = found]
  <2>2. start' = [start EXCEPT ![s] = c] /\ UNCHANGED <<console, log>>
    BY <1>7, <2>1 DEF StartLoad
  <2>3. c.pc = "merge" /\ c.exit = start[s].exit
    BY <1>2
  <2> HIDE DEF c
  <2> QED BY <1>1, <2>2, <2>3 DEF Before
<1>8. CASE StartEnd(s)
  <2> DEFINE c == [start[s] EXCEPT !.pc = "load", !.exit = TRUE]
  <2>1. start' = [start EXCEPT ![s] = c] /\ Unread(s) = <<>> /\ UNCHANGED <<console, log>>
    BY <1>8 DEF StartEnd, ConsoleOver
  <2>2. c.pc = "load"
    BY <1>t DEF StartCommands
  <2>3. console[s].read = Len(console[s].said)
    <3>1. console[s].read \in Nat /\ Len(console[s].said) \in Nat /\ console[s].read <= Len(console[s].said)
      BY DEF TypeOK, Consoles, ReadIsPrinted
    <3>2. Len(Unread(s)) = Len(console[s].said) - console[s].read
      BY <3>1, UnreadChunks
    <3> QED BY <2>1, <3>1, <3>2, EmptySeq
  <2>4. start'[s].pc = "load" /\ \A o \in Starts \ {s} : start'[o] = start[o]
    BY <1>t, <2>1, <2>2
  <2> HIDE DEF c
  <2> QED BY <2>1, <2>3, <2>4 DEF LogIsRead, HasLogOpen, Before
<1>9. CASE StartOpen(s)
  <2>1. start[s].pc = "open" /\ start' = [start EXCEPT ![s] = [start[s] EXCEPT !.pc = "console"]]
        /\ log' = [text |-> <<>>, by |-> s, mixed |-> \E o \in Starts \ {s} : HasLogOpen(o)]
        /\ UNCHANGED console
    BY <1>9 DEF StartOpen, StartGoes, Opened
  <2>2. /\ start'[s].pc = "console" /\ start'[s].exit = start[s].exit
        /\ \A o \in Starts \ {s} : start'[o] = start[o]
    BY <1>t, <1>2, <2>1
  <2>3. log'.by = s /\ log'.text = <<>> /\ Len(log'.text) = 0 /\ s # None
        /\ (~log'.mixed => \A o \in Starts \ {s} : start[o].pc # "console")
    BY <2>1, EmptySeq, NoneAssumption DEF HasLogOpen
  <2>4. console[s].read = 0
    BY <2>1 DEF LogIsRead, Before
  <2> QED BY <2>1, <2>2, <2>3, <2>4 DEF LogIsRead, HasLogOpen, Before
<1> QED BY <1>3, <1>4, <1>5, <1>6, <1>7, <1>8, <1>9, RelayIsLogged DEF StartStep

LEMMA NextIsLogged ==
  ASSUME TypeOK, ReadIsPrinted, ProcessOfStart, LogIsRead, [Next]_vars
  PROVE  LogIsRead'
<1>1. ASSUME \/ \E s \in Starts : EmulatorExit(s) \/ OrphanReaped(s)
             \/ \E t \in Stops : StopRead(t) \/ StopSignal(t) \/ StopConfirmed(t) \/ StopWrite(t) \/ StopEnds(t)
             \/ \E r \in Readies : ReadyBegin(r) \/ ReadyPass(r) \/ ReadyEnds(r)
             \/ UNCHANGED vars
      PROVE  UNCHANGED <<start, console, log>>
  BY <1>1 DEF EmulatorExit, OrphanReaped, StopRead, StopSignal, StopConfirmed, StopWrite, StopEnds,
              ReadyBegin, ReadyPass, ReadyEnds, vars
<1>2. UNCHANGED <<start, console, log>> => LogIsRead'
  BY LogUntouched
<1> QED BY <1>1, <1>2, StartIsLogged, PrintIsUnread DEF Next

LEMMA InitialLog == Init => LogIsRead
BY EmptySeq DEF Init, LogIsRead, HasLogOpen, Before

LEMMA LogInvariant == Spec => [](TypeOK /\ ReadIsPrinted /\ ProcessOfStart /\ LogIsRead)
<1>1. TypeOK /\ ReadIsPrinted /\ ProcessOfStart /\ LogIsRead /\ [Next]_vars => LogIsRead'
  BY NextIsLogged
<1> QED BY <1>1, InitialLog, TruthInvariant, PTL DEF Spec

\* A start that has ended by itself has put everything its child printed into the log,
\* unless another start had the log open since: the child is reaped before the loop
\* ends, and the loop ends only when nothing is left to read.
THEOREM LogIsComplete == Spec => []TranscriptComplete
<1>1. LogIsRead => TranscriptComplete
  BY DEF LogIsRead, TranscriptComplete
<1> QED BY <1>1, LogInvariant, PTL

------------------------------------------------------------------------------
(* Ready. *)

LEMMA PrintedStays ==
  ASSUME TypeOK, NEW b \in Starts, [Next]_vars,
         \E i \in 1..Len(console[b].said) : console[b].said[i] = "marker"
  PROVE  \E i \in 1..Len(console'[b].said) : console'[b].said[i] = "marker"
<1>t. console \in [Starts -> Consoles] /\ console[b].said \in Seq(Chunks)
  BY DEF TypeOK, Consoles
<1>1. CASE console'[b].said = console[b].said
  BY <1>1
<1>2. ASSUME NEW s \in Starts, NEW chunk \in Chunks, EmulatorPrint(s, chunk)
      PROVE  \E i \in 1..Len(console'[b].said) : console'[b].said[i] = "marker"
  <2>1. console' = [console EXCEPT ![s] = [@ EXCEPT !.said = Append(console[s].said, chunk)]]
    BY <1>2 DEF EmulatorPrint
  <2>2. CASE s = b
    <3>1. console'[b].said = Append(console[b].said, chunk)
      BY <1>t, <2>1, <2>2 DEF Consoles
    <3>2. \A i \in 1..Len(console[b].said) :
            i \in 1..Len(Append(console[b].said, chunk)) /\ Append(console[b].said, chunk)[i] = console[b].said[i]
      BY <1>t
    <3> QED BY <3>1, <3>2
  <2>3. CASE s # b
    BY <1>t, <1>1, <2>1, <2>3
  <2> QED BY <2>2, <2>3
<1>3. ASSUME NEW s \in Starts, StartRelay(s)
      PROVE  console'[b].said = console[b].said
  <2>1. console' = [console EXCEPT ![s] = [@ EXCEPT !.read = Len(console[s].said)]]
    BY <1>3 DEF StartRelay
  <2> QED BY <1>t, <2>1 DEF Consoles
<1>4. ASSUME \/ \E s \in Starts : (StartStep(s) /\ ~StartRelay(s)) \/ StartKilled(s) \/ EmulatorExit(s) \/ OrphanReaped(s)
             \/ \E t \in Stops : StopRead(t) \/ StopSignal(t) \/ StopConfirmed(t) \/ StopWrite(t) \/ StopEnds(t)
             \/ \E r \in Readies : ReadyBegin(r) \/ ReadyPass(r) \/ ReadyEnds(r)
             \/ UNCHANGED vars
      PROVE  UNCHANGED console
  BY <1>4 DEF StartStep, StartRead, StartRefused, StartFork, StartRecord, StartOpen, StartReap, StartEnd,
              StartError, StartInterrupted, StartInterruptedAgain, StartLoad, StartMerge, StartKilled, EmulatorExit, OrphanReaped,
              StopRead, StopSignal, StopConfirmed, StopWrite, StopEnds, ReadyBegin, ReadyPass, ReadyEnds, vars
<1> QED BY <1>1, <1>2, <1>3, <1>4 DEF Next, StartStep

\* What makes ready pass has been printed by the start whose log it is.
LEMMA MarkerInLog ==
  ASSUME TypeOK, ReadIsPrinted, LogIsRead, log.by # None, ~log.mixed,
         NEW i \in 1..Len(log.text), log.text[i].chunk = "marker"
  PROVE  \E j \in 1..Len(console[log.by].said) : console[log.by].said[j] = "marker"
<1>1. log.by \in Starts /\ log.text \in Seq(Entries)
  BY DEF TypeOK, Logs
<1>2. /\ Len(log.text) = console[log.by].read
      /\ log.text[i] = [by |-> log.by, chunk |-> console[log.by].said[i]]
  BY <1>1 DEF LogIsRead
<1>3. i \in 1..Len(console[log.by].said)
  <2>1. /\ console[log.by].read \in Nat /\ Len(console[log.by].said) \in Nat
        /\ console[log.by].read <= Len(console[log.by].said)
    BY <1>1 DEF TypeOK, Consoles, ReadIsPrinted
  <2> QED BY <1>2, <2>1
<1>4. console[log.by].said[i] = "marker"
  BY <1>2
<1> QED BY <1>3, <1>4

LEMMA NextKeepsReady ==
  ASSUME TypeOK, ReadIsPrinted, LogIsRead, ReadyIsOfItsRun, [Next]_vars
  PROVE  ReadyIsOfItsRun'
<1> SUFFICES ASSUME NEW r \in Readies, ready'[r].of # None, ready'[r].clean
             PROVE  \E i \in 1..Len(console'[ready'[r].of].said) : console'[ready'[r].of].said[i] = "marker"
  BY DEF ReadyIsOfItsRun
<1>t. ready \in [Readies -> ReadyCommands]
  BY DEF TypeOK
<1>1. CASE ready'[r].of = ready[r].of /\ ready'[r].clean = ready[r].clean
  <2>1. ready[r].of \in Starts
    BY <1>t, <1>1 DEF ReadyCommands
  <2> QED BY <1>1, <2>1, PrintedStays DEF ReadyIsOfItsRun
<1>2. CASE ReadyPass(r)
  <2>1. /\ \E i \in 1..Len(log.text) : log.text[i].chunk = "marker"
        /\ ready' = [ready EXCEPT ![r] = [pc |-> "over", of |-> log.by, clean |-> ~log.mixed]]
        /\ UNCHANGED console
    BY <1>2 DEF ReadyPass
  <2>2. ready'[r].of = log.by /\ ready'[r].clean = ~log.mixed
    BY <1>t, <2>1
  <2> QED BY <2>1, <2>2, MarkerInLog
<1>3. ASSUME NEW o \in Readies, ReadyBegin(o) \/ ReadyEnds(o) \/ (ReadyPass(o) /\ o # r)
      PROVE  ready'[r].of = ready[r].of /\ ready'[r].clean = ready[r].clean
  <2>1. CASE o # r
    BY <1>t, <1>3, <2>1 DEF ReadyBegin, ReadyEnds, ReadyPass
  <2>2. CASE o = r
    <3>1. ready[r] \in ReadyCommands
      BY <1>t
    <3>2. \A pc : /\ [ready[r] EXCEPT !.pc = pc].of = ready[r].of
                  /\ [ready[r] EXCEPT !.pc = pc].clean = ready[r].clean
      BY <3>1 DEF ReadyCommands
    <3>3. PICK pc \in {"poll", "over"} : ready' = [ready EXCEPT ![r] = [ready[r] EXCEPT !.pc = pc]]
      BY <1>3, <2>2 DEF ReadyBegin, ReadyEnds
    <3>4. ready'[r] = [ready[r] EXCEPT !.pc = pc]
      BY <1>t, <3>3
    <3> QED BY <3>2, <3>4
  <2> QED BY <2>1, <2>2
<1>4. ASSUME \/ \E s \in Starts : StartStep(s) \/ StartKilled(s) \/ EmulatorExit(s) \/ OrphanReaped(s)
             \/ \E s \in Starts, chunk \in Chunks : EmulatorPrint(s, chunk)
             \/ \E t \in Stops : StopRead(t) \/ StopSignal(t) \/ StopConfirmed(t) \/ StopWrite(t) \/ StopEnds(t)
             \/ UNCHANGED vars
      PROVE  UNCHANGED ready
  BY <1>4 DEF StartStep, StartRead, StartRefused, StartFork, StartRecord, StartOpen, StartRelay, StartReap,
              StartEnd, StartError, StartInterrupted, StartInterruptedAgain, StartLoad, StartMerge, StartKilled, EmulatorExit,
              OrphanReaped, EmulatorPrint, StopRead, StopSignal, StopConfirmed, StopWrite, StopEnds, vars
<1> QED BY <1>1, <1>2, <1>3, <1>4 DEF Next

\* A PASS is about output of the run whose log it was found in, never of the one before
\* it: the log is truncated before the run writes to it.
THEOREM ReadyIsTrue == Spec => []ReadyIsOfItsRun
<1>1. Init => ReadyIsOfItsRun
  BY DEF Init, ReadyIsOfItsRun
<1>2. TypeOK /\ ReadIsPrinted /\ LogIsRead /\ ReadyIsOfItsRun /\ [Next]_vars => ReadyIsOfItsRun'
  BY NextKeepsReady
<1> QED BY <1>1, <1>2, LogInvariant, PTL DEF Spec
==============================================================================
