----------------------------- MODULE MediaBuild -----------------------------
(***************************************************************************)
(* `utm media prepare-43bsd` (scripts/media43bsd.py): the compressed files *)
(* of a 4.3BSD distribution become a miniroot disk, an installation tape   *)
(* and optionally a bootstrap, built in a transaction directory of their   *)
(* own and renamed to the destination.  Commands for one destination may   *)
(* run at once, fail or be killed at any step, while an operator replaces  *)
(* the source files.  The content of a file is a short sequence of bytes,  *)
(* and stands for its own hash; compression is left out.                   *)
(***************************************************************************)
EXTENDS Naturals, Sequences, FiniteSets, SimhTape

CONSTANTS
  TapeFiles,   \* TAPE_FILES: the source files in tape order, each with its block size
  Miniroot,    \* the one of them that becomes the disk
  Boots,       \* BOOT_NAMES: the accepted names of the bootstrap
  Contents,    \* what a file may hold
  Builders,    \* prepare-43bsd commands, for one destination
  MaxChanges,  \* bound: how often an operator replaces or removes a source
  None

Inputs == {TapeFiles[k].name : k \in DOMAIN TapeFiles}
Sources == Inputs \cup Boots

ASSUME TapeAssumption == TapeFiles \in Seq([name : Inputs, size : Nat \ {0}])
ASSUME ContentsAssumption == Contents \subseteq Seq(Nat)
ASSUME MinirootAssumption == Miniroot \in Inputs
ASSUME BootsAssumption == Boots \cap Inputs = {}
ASSUME MaxChangesAssumption == MaxChanges \in Nat
ASSUME NoneAssumption == None \notin Contents /\ None \notin Builders \cup Boots

VARIABLES
  changes,  \* how often a source has been changed
  source,   \* file -> its content, None if there is none
  held,     \* history: file -> every content it has had
  dest,     \* the destination: who made it, what it holds, what metadata.json records
  build     \* builder -> where it is, what it has read, hashed and written

vars == <<changes, source, held, dest, build>>

Maybe == Contents \cup {None}
NoHashes == [x \in Sources |-> None]
NoOutput == [miniroot |-> None, tape |-> <<>>, boot |-> None]
NoDestination == [by |-> None, out |-> NoOutput, inputs |-> NoHashes]

\* Faults: operators named Faulty... are plausible bugs, used by no action; a run
\* with one in place of the definition that follows it breaks a property.
FaultyIdle ==  \* no place for the bootstrap's input
  [pc |-> "idle", boot |-> None, data |-> [x \in Inputs |-> None], hash |-> NoHashes, out |-> NoOutput]
Idle == [pc |-> "idle", boot |-> None, data |-> NoHashes, hash |-> NoHashes, out |-> NoOutput]

Outputs == [miniroot : Maybe, tape : Seq(Nat), boot : Maybe]

TypeOK ==
  /\ changes \in 0..MaxChanges
  /\ source \in [Sources -> Maybe]
  /\ held \in [Sources -> SUBSET Contents]
  /\ dest \in [by : Builders \cup {None}, out : Outputs, inputs : [Sources -> Maybe]]
  /\ build \in [Builders -> [pc : {"idle", "read", "boot", "publish", "over"},
                             boot : Boots \cup {None}, data : [Sources -> Maybe],
                             hash : [Sources -> Maybe], out : Outputs]]

\* Any set of sources, complete or not.
Init ==
  /\ changes = 0
  /\ source \in [Sources -> Maybe]
  /\ held = [x \in Sources |-> {source[x]} \ {None}]
  /\ dest = NoDestination
  /\ build = [b \in Builders |-> Idle]

------------------------------------------------------------------------------
(* prepare_43bsd. *)

\* No destination yet, every tape file and at most one bootstrap there: the
\* transaction directory is made.
BuildBegin(b) ==
  /\ build[b].pc = "idle"
  /\ dest.by = None
  /\ \A x \in Inputs : source[x] # None
  /\ LET boots == {x \in Boots : source[x] # None}
     IN /\ Cardinality(boots) <= 1
        /\ build' = [build EXCEPT ![b].pc = "read",
                                  ![b].boot = IF boots = {} THEN None ELSE CHOOSE x \in boots : TRUE]
  /\ UNCHANGED <<changes, source, held, dest>>

\* The tape files are taken one after the other.
IsNext(b, x) ==
  \E k \in DOMAIN TapeFiles :
    /\ x = TapeFiles[k].name
    /\ \A j \in 1..(k - 1) : build[b].hash[TapeFiles[j].name] # None

\* A file is read and decompressed for its content ...
BuildRead(b, x) ==
  /\ \/ build[b].pc = "read" /\ IsNext(b, x)
     \/ build[b].pc = "boot" /\ x = build[b].boot /\ source[x] # <<>>
  /\ build[b].data[x] = None /\ source[x] # None
  /\ build' = [build EXCEPT ![b].data[x] = source[x]]
  /\ UNCHANGED <<changes, source, held, dest>>

\* ... and read again for the hash that metadata.json records.
BuildHash(b, x) ==
  /\ build[b].pc \in {"read", "boot"}
  /\ build[b].data[x] # None /\ build[b].hash[x] = None /\ source[x] # None
  /\ build' = [build EXCEPT ![b].hash[x] = source[x]]
  /\ UNCHANGED <<changes, source, held, dest>>

FaultyMinirootData(b) == source[Miniroot]  \* read once more for the disk
MinirootData(b) == build[b].data[Miniroot]

\* The miniroot disk and the tape are written from what was read.
BuildWrite(b) ==
  /\ build[b].pc = "read"
  /\ \A x \in Inputs : build[b].hash[x] # None
  /\ build' = [build EXCEPT
       ![b].pc = "boot",
       ![b].out.miniroot = MinirootData(b),
       ![b].out.tape = WriteTape([k \in DOMAIN TapeFiles |->
                          [data |-> build[b].data[TapeFiles[k].name], size |-> TapeFiles[k].size]])]
  /\ UNCHANGED <<changes, source, held, dest>>

\* The bootstrap, if there is one, is decoded, which an empty one is not.
BuildBoot(b) ==
  /\ build[b].pc = "boot"
  /\ LET boot == build[b].boot
     IN /\ boot # None => build[b].hash[boot] # None
        /\ build' = [build EXCEPT ![b].pc = "publish",
                       ![b].out.boot = IF boot = None THEN None ELSE build[b].data[boot]]
  /\ UNCHANGED <<changes, source, held, dest>>

FaultyVacant == TRUE  \* a destination made meanwhile is replaced
Vacant == dest.by = None

\* metadata.json is written and the transaction renamed, which fails when another
\* command has put something there.
BuildPublish(b) ==
  /\ build[b].pc = "publish"
  /\ Vacant
  /\ dest' = [by |-> b, out |-> build[b].out, inputs |-> build[b].hash]
  /\ build' = [build EXCEPT ![b] = [Idle EXCEPT !.pc = "over"]]
  /\ UNCHANGED <<changes, source, held>>

\* A missing or malformed source, a full disk, a taken destination: the transaction
\* is removed; a kill leaves it.  Neither touches the destination.
BuildEnds(b) ==
  /\ build[b].pc \in {"read", "boot", "publish"}
  /\ build' = [build EXCEPT ![b] = [Idle EXCEPT !.pc = "over"]]
  /\ UNCHANGED <<changes, source, held, dest>>

------------------------------------------------------------------------------
(* The operator (external) replaces or removes a source. *)

ChangeSource(x, content) ==
  /\ changes < MaxChanges
  /\ changes' = changes + 1
  /\ source' = [source EXCEPT ![x] = content]
  /\ held' = [held EXCEPT ![x] = @ \cup ({content} \ {None})]
  /\ UNCHANGED <<dest, build>>

BuildStep(b) ==
  \/ BuildBegin(b) \/ BuildWrite(b) \/ BuildBoot(b) \/ BuildPublish(b) \/ BuildEnds(b)
  \/ \E x \in Sources : BuildRead(b, x) \/ BuildHash(b, x)

Next ==
  \/ \E b \in Builders : BuildStep(b)
  \/ \E x \in Sources, content \in Maybe : ChangeSource(x, content)

Spec == Init /\ [][Next]_vars

------------------------------------------------------------------------------
(* Properties. *)

\* A published tape reads back: skipping k - 1 files finds the k-th of TAPE_FILES, a
\* content its source had, filled up to whole blocks, up to the first empty file, which
\* reads as the end of the tape.
TapeReadsBack ==
  dest.by # None =>
    LET files == ReadTape(dest.out.tape)
    IN /\ \A k \in DOMAIN files : \E content \in held[TapeFiles[k].name] :
            files[k] = Padded(content, TapeFiles[k].size)
       /\ Len(files) < Len(TapeFiles) => <<>> \in held[TapeFiles[Len(files) + 1].name]

\* The miniroot on the disk that the installation boots from is the one on the tape it
\* installs from, although the source may be replaced while the command runs.
MinirootIsOnTape ==
  dest.by # None =>
    \A k \in DOMAIN ReadTape(dest.out.tape) : TapeFiles[k].name = Miniroot =>
      ReadTape(dest.out.tape)[k] = Padded(dest.out.miniroot, TapeFiles[k].size)

\* A destination appears once, whole, and is never touched again, neither by a second
\* command that found none when it began nor by one that fails.
MediaPublishedOnce == [][dest.by # None => dest' = dest]_dest
==============================================================================
