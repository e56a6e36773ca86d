---------------------------- MODULE InstallStaging ----------------------------
(***************************************************************************)
(* Installation staging: the AMIX media inventory and the workspace staged *)
(* from it (scripts/amix_m42.py: inventory_amix, prepare_amix), and the    *)
(* SIMH installation staging (scripts/utmlib.py: prepare_install).  The    *)
(* commands share the canonical media, which an operator may replace while *)
(* they run, one inventory file and the destinations under staging/; no    *)
(* lock is taken, and any of them may fail or be killed at any step.       *)
(* Contents are version numbers, and a hash tells versions apart.          *)
(***************************************************************************)
EXTENDS Naturals

CONSTANTS
  Floppies,     \* boot and root floppies of the AMIX set
  Tape,         \* members of its installation tape
  Index,        \* the tape's index file
  Miniroot,     \* the SIMH medium with a bootstrap copy
  TapeAttached, \* the index is named index.tape: the tape is used where it is
  Inventories,  \* `utm media inventory-amix` commands
  Preparers,    \* `utm install prepare-amix` commands
  Installers,   \* `utm install prepare` commands
  Destinations, \* staging directories
  MaxChanges,   \* bound: how often an operator replaces a medium
  None

Canonical == Floppies \cup Tape \cup {Index}
Media == Canonical \cup {Miniroot}
Stagers == Preparers \cup Installers

ASSUME TapeAttachedAssumption == TapeAttached \in BOOLEAN
ASSUME MaxChangesAssumption == MaxChanges \in Nat
ASSUME MinirootAssumption == Miniroot \notin Canonical
ASSUME NoneAssumption == None \notin Stagers \cup Destinations \cup Nat
ASSUME CommandsAssumption == Preparers \cap Installers = {}

VARIABLES
  changes,   \* versions made so far; a replaced content never comes back
  media,     \* medium -> its version
  seen,      \* history: every state the media have been in
  inventory, \* the inventory file: medium -> recorded hash, Nothing if there is no file
  scan,      \* inventory command -> where it is, and what it has hashed
  staging,   \* destination -> the directory: who made it, what it holds and records
  command    \* stager -> where it is, for which destination, the hashes it goes by

vars == <<changes, media, seen, inventory, scan, staging, command>>

Versions == 0..MaxChanges
Contents == [Media -> Versions \cup {None}]
Nothing == [x \in Media |-> None]

\* Faults: operators named Faulty... are plausible bugs, used by no action; a run
\* with one in place of the definition that follows it breaks a property.
FaultyNoDirectory ==  \* nothing is held per medium yet
  [by |-> None, held |-> None, recorded |-> Nothing, complete |-> FALSE]
NoDirectory == [by |-> None, held |-> Nothing, recorded |-> Nothing, complete |-> FALSE]

Scans == [pc : {"idle", "hash", "over"}, hash : Contents]
Directories == [by : Stagers \cup {None}, held : Contents, recorded : Contents, complete : BOOLEAN]
Commands == [pc : {"idle", "verify", "hash", "copy", "recheck", "over"}, at : Destinations \cup {None},
             expected : Contents, checked : SUBSET Media]

TypeOK ==
  /\ changes \in Versions
  /\ media \in [Media -> Versions]
  /\ seen \subseteq [Media -> Versions]
  /\ inventory \in Contents
  /\ scan \in [Inventories -> Scans]
  /\ staging \in [Destinations -> Directories]
  /\ command \in [Stagers -> Commands]

Init ==
  /\ changes = 0
  /\ media = [x \in Media |-> 0]
  /\ seen = {media}
  /\ inventory = Nothing
  /\ scan = [i \in Inventories |-> [pc |-> "idle", hash |-> Nothing]]
  /\ staging = [w \in Destinations |-> NoDirectory]
  /\ command = [c \in Stagers |-> [pc |-> "idle", at |-> None, expected |-> Nothing, checked |-> {}]]

------------------------------------------------------------------------------
(* inventory_amix. *)

InventoryBegin(i) ==
  /\ scan[i].pc = "idle"
  /\ inventory = Nothing
  /\ scan' = [scan EXCEPT ![i] = [@ EXCEPT !.pc = "hash"]]
  /\ UNCHANGED <<changes, media, seen, inventory, staging, command>>

\* described_file, or a tape member or the index.
InventoryHash(i, x) ==
  /\ scan[i].pc = "hash"
  /\ scan[i].hash[x] = None
  /\ scan' = [scan EXCEPT ![i] = [@ EXCEPT !.hash = [scan[i].hash EXCEPT ![x] = media[x]]]]
  /\ UNCHANGED <<changes, media, seen, inventory, staging, command>>

\* The file is replaced, whether there is one by now or not.
InventoryPublish(i) ==
  /\ scan[i].pc = "hash"
  /\ \A x \in Canonical : scan[i].hash[x] # None
  /\ inventory' = scan[i].hash
  /\ scan' = [scan EXCEPT ![i] = [@ EXCEPT !.pc = "over"]]
  /\ UNCHANGED <<changes, media, seen, staging, command>>

\* A missing, writable or ambiguous medium, or a kill.
InventoryEnds(i) ==
  /\ scan[i].pc = "hash"
  /\ scan' = [scan EXCEPT ![i] = [@ EXCEPT !.pc = "over"]]
  /\ UNCHANGED <<changes, media, seen, inventory, staging, command>>

------------------------------------------------------------------------------
(* prepare_amix and prepare_install: the same course over different media.  The *)
(* ROM and its key, hashed and compared alike but not copied, are left out.     *)

\* What the command copies, and what it hashes and compares.
Copied(c) == IF c \in Installers THEN {Miniroot}
             ELSE Floppies \cup (IF TapeAttached THEN {} ELSE Tape)
Compared(c) == IF c \in Installers THEN {Miniroot} ELSE Canonical

\* The destination is new; an AMIX staging loads the inventory.
StageBegin(c, w) ==
  /\ command[c].pc = "idle"
  /\ staging[w].by = None
  /\ c \in Preparers => inventory # Nothing
  /\ command' = [command EXCEPT ![c] = [@ EXCEPT
       !.pc = "verify", !.at = w, !.expected = IF c \in Preparers THEN inventory ELSE Nothing]]
  /\ UNCHANGED <<changes, media, seen, inventory, scan, staging>>

\* verify_inventory: one medium still has the hash that the inventory recorded.
StageVerify(c, x) ==
  /\ command[c].pc = "verify"
  /\ c \in Preparers
  /\ x \in Canonical \ command[c].checked
  /\ media[x] = command[c].expected[x]
  /\ command' = [command EXCEPT ![c] = [@ EXCEPT !.checked = command[c].checked \cup {x}]]
  /\ UNCHANGED <<changes, media, seen, inventory, scan, staging>>

\* All media are verified (what verify_media compares with the pins of a manifest is
\* not looked at again, so any version may get here), and the directory is made,
\* unless one has been made meanwhile.
StageMkdir(c) ==
  /\ command[c].pc = "verify"
  /\ c \in Preparers => command[c].checked = Canonical
  /\ staging[command[c].at].by = None
  /\ staging' = [staging EXCEPT ![command[c].at] = [NoDirectory EXCEPT !.by = c]]
  /\ command' = [command EXCEPT ![c] =
                 [@ EXCEPT !.pc = IF c \in Installers THEN "hash" ELSE "copy", !.checked = {}]]
  /\ UNCHANGED <<changes, media, seen, inventory, scan>>

\* An installation goes by the hash it takes with its directory already made.
SourceHash(c) == [command[c].expected EXCEPT ![Miniroot] = media[Miniroot]]

StageHash(c) ==
  /\ command[c].pc = "hash"
  /\ command' = [command EXCEPT ![c] = [@ EXCEPT !.pc = "copy", !.expected = SourceHash(c)]]
  /\ UNCHANGED <<changes, media, seen, inventory, scan, staging>>

Holding(c, x) == [staging[command[c].at].held EXCEPT ![x] = media[x]]

\* copy_exclusive.
StageCopy(c, x) ==
  /\ command[c].pc = "copy"
  /\ x \in Copied(c)
  /\ staging[command[c].at].held[x] = None
  /\ staging' = [staging EXCEPT ![command[c].at] = [@ EXCEPT !.held = Holding(c, x)]]
  /\ UNCHANGED <<changes, media, seen, inventory, scan, command>>

StageCopied(c) ==
  /\ command[c].pc = "copy"
  /\ \A x \in Copied(c) : staging[command[c].at].held[x] # None
  /\ command' = [command EXCEPT ![c] = [@ EXCEPT !.pc = "recheck"]]
  /\ UNCHANGED <<changes, media, seen, inventory, scan, staging>>

FaultyUnchanged(c, x) ==  \* compared with the copy that was made of it
  x \in Copied(c) => media[x] = staging[command[c].at].held[x]
FaultyRechecked(c) == {}  \* the sources are not compared after the copies

\* The source hashes are compared once more.
Unchanged(c, x) == media[x] = command[c].expected[x]
Rechecked(c) == Compared(c)

StageRecheck(c, x) ==
  /\ command[c].pc = "recheck"
  /\ x \in Rechecked(c) \ command[c].checked
  /\ Unchanged(c, x)
  /\ command' = [command EXCEPT ![c] = [@ EXCEPT !.checked = command[c].checked \cup {x}]]
  /\ UNCHANGED <<changes, media, seen, inventory, scan, staging>>

\* install.json, with the hashes the command went by.
StageComplete(c) ==
  /\ command[c].pc = "recheck"
  /\ Rechecked(c) \subseteq command[c].checked
  /\ staging' = [staging EXCEPT ![command[c].at] =
                 [@ EXCEPT !.recorded = command[c].expected, !.complete = TRUE]]
  /\ command' = [command EXCEPT ![c] = [@ EXCEPT !.pc = "over"]]
  /\ UNCHANGED <<changes, media, seen, inventory, scan>>

FaultyDiscards(c) == c \in Installers  \* mkdir inside the try

\* A failed installation removes the directory it has made; a failed AMIX staging
\* is evidence and stays.
Discards(c) == c \in Installers /\ command[c].pc \in {"hash", "copy", "recheck"}

StageFail(c) ==
  /\ command[c].pc \in {"verify", "hash", "copy", "recheck"}
  /\ staging' = IF Discards(c) THEN [staging EXCEPT ![command[c].at] = NoDirectory] ELSE staging
  /\ command' = [command EXCEPT ![c] = [@ EXCEPT !.pc = "over"]]
  /\ UNCHANGED <<changes, media, seen, inventory, scan>>

StageKilled(c) ==
  /\ command[c].pc \in {"verify", "hash", "copy", "recheck"}
  /\ command' = [command EXCEPT ![c] = [@ EXCEPT !.pc = "over"]]
  /\ UNCHANGED <<changes, media, seen, inventory, scan, staging>>

------------------------------------------------------------------------------
(* The operator (external) replaces a medium. *)

ChangeMedium(x) ==
  /\ changes < MaxChanges
  /\ changes' = changes + 1
  /\ media' = [media EXCEPT ![x] = changes + 1]
  /\ seen' = seen \cup {media'}
  /\ UNCHANGED <<inventory, scan, staging, command>>

InventoryStep(i) ==
  \/ InventoryBegin(i) \/ InventoryPublish(i) \/ InventoryEnds(i)
  \/ \E x \in Canonical : InventoryHash(i, x)

StageStep(c) ==
  \/ \E w \in Destinations : StageBegin(c, w)
  \/ \E x \in Media : StageVerify(c, x) \/ StageCopy(c, x) \/ StageRecheck(c, x)
  \/ StageMkdir(c) \/ StageHash(c) \/ StageCopied(c) \/ StageComplete(c)
  \/ StageFail(c) \/ StageKilled(c)

Next ==
  \/ \E i \in Inventories : InventoryStep(i)
  \/ \E c \in Stagers : StageStep(c)
  \/ \E x \in Media : ChangeMedium(x)

Spec == Init /\ [][Next]_vars

------------------------------------------------------------------------------
(* Properties. *)

\* A completed staging holds what it records: every copy has the hash of the source
\* that install.json names, although sources are hashed before and after the copies
\* and may be replaced at any moment.
StagedIsRecorded ==
  \A w \in Destinations : staging[w].complete =>
    \A x \in Copied(staging[w].by) :
      staging[w].held[x] # None /\ staging[w].held[x] = staging[w].recorded[x]

\* What it holds was there together: floppies and tape were the canonical media at
\* one moment, although the inventory reads them one by one.
StagedIsOneSet ==
  \A w \in Destinations : staging[w].complete =>
    \E then \in seen : \A x \in Copied(staging[w].by) : staging[w].held[x] = then[x]

\* A staging directory is left alone by every command but the one that made it, and
\* once complete by that one too: of two commands for one destination the one that is
\* refused neither takes it over nor removes it.
StagingIsOwned ==
  [][\A w \in Destinations :
       /\ staging[w].complete => staging'[w] = staging[w]
       /\ staging[w].by \notin {None, staging'[w].by}
            => command'[staging[w].by] # command[staging[w].by]]_vars
==============================================================================
