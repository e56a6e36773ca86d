------------------------- MODULE InstallStagingProofs -------------------------
(***************************************************************************)
(* Proofs about the staging of installation media.  Versions only grow, a  *)
(* copy is taken between the hash a command goes by and its second look at *)
(* the source.  The media as they were when the directory was made lie     *)
(* between that hash and the copy; once the second look agrees with the    *)
(* hash, the copy is the hash's version, and was there at that moment with *)
(* all the others.                                                         *)
(***************************************************************************)
EXTENDS InstallStaging, TLAPS

USE DEF Stagers

LEMMA Numbers == Versions \subseteq Nat
BY MaxChangesAssumption DEF Versions

------------------------------------------------------------------------------
(* Types. *)

LEMMA InitialTypes == Init => TypeOK
<1> SUFFICES ASSUME Init PROVE TypeOK
  OBVIOUS
<1>1. Nothing \in Contents
  BY DEF Nothing, Contents
<1>2. 0 \in Versions
  BY MaxChangesAssumption DEF Versions
<1>3. NoDirectory \in Directories
  BY <1>1 DEF NoDirectory, Directories
<1>4. [pc |-> "idle", hash |-> Nothing] \in Scans
  BY <1>1 DEF Scans
<1>5. [pc |-> "idle", at |-> None, expected |-> Nothing, checked |-> {}] \in Commands
  BY <1>1 DEF Commands
<1> QED BY <1>1, <1>2, <1>3, <1>4, <1>5 DEF Init, TypeOK

LEMMA InventoryTypes ==
  ASSUME TypeOK, NEW i \in Inventories, InventoryStep(i)
  PROVE  TypeOK'
<1>1. scan[i] \in Scans /\ scan[i].hash \in Contents
  BY DEF TypeOK, Scans
<1>2. \A pc \in {"hash", "over"} : [scan[i] EXCEPT !.pc = pc] \in Scans
  BY <1>1 DEF Scans
<1>3. CASE InventoryBegin(i)
  BY <1>2, <1>3 DEF TypeOK, InventoryBegin
<1>4. CASE InventoryPublish(i)
  BY <1>1, <1>2, <1>4 DEF TypeOK, InventoryPublish
<1>5. CASE InventoryEnds(i)
  BY <1>2, <1>5 DEF TypeOK, InventoryEnds
<1>6. ASSUME NEW x \in Canonical, InventoryHash(i, x) PROVE TypeOK'
  <2> DEFINE hash == [scan[i].hash EXCEPT ![x] = media[x]]
  <2>1. hash \in Contents
    BY <1>1 DEF TypeOK, Contents, Media
  <2> HIDE DEF hash
  <2>2. [scan[i] EXCEPT !.hash = hash] \in Scans
    BY <1>1, <2>1 DEF Scans
  <2>3. scan' = [scan EXCEPT ![i] = [scan[i] EXCEPT !.hash = hash]]
    BY <1>6 DEF InventoryHash, hash
  <2> QED BY <1>6, <2>2, <2>3 DEF TypeOK, InventoryHash
<1> QED BY <1>3, <1>4, <1>5, <1>6 DEF InventoryStep

LEMMA DirectoryTypes ==
  ASSUME TypeOK, NEW c \in Stagers
  PROVE  /\ [NoDirectory EXCEPT !.by = c] \in Directories /\ NoDirectory \in Directories
         /\ SourceHash(c) \in Contents
         /\ \A x \in Media : Holding(c, x) \in Contents \/ command[c].at \notin Destinations
<1>1. Nothing \in Contents
  BY DEF Nothing, Contents
<1>2. [NoDirectory EXCEPT !.by = c] \in Directories /\ NoDirectory \in Directories
  BY <1>1 DEF NoDirectory, Directories
<1>3. SourceHash(c) \in Contents
  BY DEF SourceHash, TypeOK, Commands, Contents, Media
<1>4. ASSUME NEW x \in Media, command[c].at \in Destinations PROVE Holding(c, x) \in Contents
  <2>1. staging[command[c].at].held \in Contents
    BY <1>4 DEF TypeOK, Directories
  <2> QED BY <2>1 DEF Holding, TypeOK, Contents
<1> QED BY <1>2, <1>3, <1>4

LEMMA CommandTypes ==
  ASSUME TypeOK, NEW c \in Stagers
  PROVE  /\ command[c] \in Commands
         /\ \A pc \in {"copy", "recheck", "over"} : [command[c] EXCEPT !.pc = pc] \in Commands
         /\ \A x \in Media : [command[c] EXCEPT !.checked = command[c].checked \cup {x}] \in Commands
<1>1. command[c] \in Commands
  BY DEF TypeOK
<1> QED BY <1>1 DEF Commands

LEMMA StageTypes ==
  ASSUME TypeOK, NEW c \in Stagers, StageStep(c)
  PROVE  TypeOK'
<1>1. /\ command[c] \in Commands
      /\ \A pc \in {"copy", "recheck", "over"} : [command[c] EXCEPT !.pc = pc] \in Commands
      /\ \A x \in Media : [command[c] EXCEPT !.checked = command[c].checked \cup {x}] \in Commands
  BY CommandTypes
<1>2. ASSUME NEW w \in Destinations, StageBegin(c, w) PROVE TypeOK'
  <2> DEFINE expected == IF c \in Preparers THEN inventory ELSE Nothing
  <2>1. expected \in Contents
    BY DEF TypeOK, Nothing, Contents
  <2> HIDE DEF expected
  <2>2. [command[c] EXCEPT !.pc = "verify", !.at = w, !.expected = expected] \in Commands
    BY <1>1, <2>1 DEF Commands
  <2>3. command' = [command EXCEPT ![c] = [command[c] EXCEPT !.pc = "verify", !.at = w, !.expected = expected]]
    BY <1>2 DEF StageBegin, expected
  <2> QED BY <1>2, <2>2, <2>3 DEF TypeOK, StageBegin
<1>3. ASSUME NEW x \in Media, StageVerify(c, x) PROVE TypeOK'
  BY <1>1, <1>3 DEF TypeOK, StageVerify
<1>4. ASSUME NEW x \in Media, StageCopy(c, x) PROVE TypeOK'
  <2>1. staging' \in [Destinations -> Directories]
    <3>1. CASE command[c].at \in Destinations
      <4>1. Holding(c, x) \in Contents /\ staging[command[c].at] \in Directories
        BY <3>1, DirectoryTypes DEF TypeOK
      <4>2. [staging[command[c].at] EXCEPT !.held = Holding(c, x)] \in Directories
        BY <4>1 DEF Directories
      <4> QED BY <1>4, <4>2 DEF StageCopy, TypeOK
    <3>2. CASE command[c].at \notin Destinations
      BY <1>4, <3>2 DEF StageCopy, TypeOK
    <3> QED BY <3>1, <3>2
  <2> QED BY <1>4, <2>1 DEF TypeOK, StageCopy
<1>5. ASSUME NEW x \in Media, StageRecheck(c, x) PROVE TypeOK'
  BY <1>1, <1>5 DEF TypeOK, StageRecheck
<1>6. CASE StageMkdir(c)
  <2>1. \A pc \in {"hash", "copy"} : [command[c] EXCEPT !.pc = pc, !.checked = {}] \in Commands
    BY <1>1 DEF Commands
  <2>2. command' \in [Stagers -> Commands]
    BY <1>6, <2>1 DEF TypeOK, StageMkdir
  <2>3. staging' \in [Destinations -> Directories]
    BY <1>6, DirectoryTypes DEF TypeOK, StageMkdir
  <2> QED BY <1>6, <2>2, <2>3 DEF TypeOK, StageMkdir
<1>7. CASE StageHash(c)
  <2>1. [command[c] EXCEPT !.pc = "copy", !.expected = SourceHash(c)] \in Commands
    BY <1>1, DirectoryTypes DEF Commands
  <2> QED BY <1>7, <2>1 DEF TypeOK, StageHash
<1>11. CASE StageCopied(c)
  BY <1>1, <1>11 DEF TypeOK, StageCopied
<1>8. CASE StageComplete(c)
  <2>1. staging' \in [Destinations -> Directories]
    <3>1. CASE command[c].at \in Destinations
      <4>1. staging[command[c].at] \in Directories /\ command[c].expected \in Contents
        BY <1>1, <3>1 DEF TypeOK, Commands
      <4>2. [staging[command[c].at] EXCEPT !.recorded = command[c].expected, !.complete = TRUE] \in Directories
        BY <4>1 DEF Directories
      <4> QED BY <1>8, <4>2 DEF StageComplete, TypeOK
    <3>2. CASE command[c].at \notin Destinations
      BY <1>8, <3>2 DEF StageComplete, TypeOK
    <3> QED BY <3>1, <3>2
  <2> QED BY <1>1, <1>8, <2>1 DEF TypeOK, StageComplete
<1>9. CASE StageFail(c)
  <2>1. staging' \in [Destinations -> Directories]
    BY <1>9, DirectoryTypes DEF TypeOK, StageFail
  <2> QED BY <1>1, <1>9, <2>1 DEF TypeOK, StageFail
<1>10. CASE StageKilled(c)
  BY <1>1, <1>10 DEF TypeOK, StageKilled
<1> QED BY <1>2, <1>3, <1>4, <1>5, <1>6, <1>7, <1>8, <1>9, <1>10, <1>11 DEF StageStep

LEMMA ChangeTypes ==
  ASSUME TypeOK, NEW x \in Media, ChangeMedium(x)
  PROVE  TypeOK'
<1>1. changes' \in Versions /\ changes + 1 \in Versions
  BY MaxChangesAssumption DEF TypeOK, Versions, ChangeMedium
<1>2. media' \in [Media -> Versions]
  BY <1>1 DEF TypeOK, ChangeMedium
<1> QED BY <1>1, <1>2 DEF TypeOK, ChangeMedium

\* Every variable keeps its type, whatever fails, is killed or replaced.
THEOREM TypeCorrect == Spec => []TypeOK
<1>1. TypeOK /\ [Next]_vars => TypeOK'
  <2>1. TypeOK /\ UNCHANGED vars => TypeOK'
    BY DEF TypeOK, vars
  <2> QED BY <2>1, InventoryTypes, StageTypes, ChangeTypes DEF Next
<1> QED BY <1>1, InitialTypes, PTL DEF Spec

------------------------------------------------------------------------------
(* The media only get newer, and what has been hashed of them is not newer than they. *)

Known ==
  /\ media \in seen
  /\ \A x \in Media : media[x] <= changes
  /\ \A i \in Inventories, x \in Media : scan[i].hash[x] # None => scan[i].hash[x] <= media[x]
  /\ \A x \in Media : inventory[x] # None => inventory[x] <= media[x]
  /\ inventory # Nothing => \A x \in Canonical : inventory[x] # None
KInv == TypeOK /\ Known

LEMMA InitialKnown == Init => KInv
<1> SUFFICES ASSUME Init PROVE Known
  BY InitialTypes DEF KInv
<1> QED BY DEF Init, Known, Nothing

LEMMA MediaGrow ==
  ASSUME KInv, NEW x \in Media, ChangeMedium(x)
  PROVE  \A y \in Media : media[y] \in Nat /\ media'[y] \in Nat /\ media[y] <= media'[y]
BY Numbers DEF KInv, TypeOK, Known, ChangeMedium

LEMMA InventoryKnown ==
  ASSUME KInv, NEW i \in Inventories, InventoryStep(i)
  PROVE  Known'
<1> USE DEF KInv
<1>1. CASE InventoryBegin(i) \/ InventoryEnds(i)
  <2>1. \A j \in Inventories : scan'[j].hash = scan[j].hash
    BY <1>1 DEF InventoryBegin, InventoryEnds, TypeOK, Scans
  <2> QED BY <1>1, <2>1 DEF InventoryBegin, InventoryEnds, Known
<1>2. CASE InventoryPublish(i)
  <2>1. \A j \in Inventories : scan'[j].hash = scan[j].hash
    BY <1>2 DEF InventoryPublish, TypeOK, Scans
  <2> QED BY <1>2, <2>1 DEF InventoryPublish, Known
<1>3. ASSUME NEW x \in Canonical, InventoryHash(i, x) PROVE Known'
  <2> DEFINE hash == [scan[i].hash EXCEPT ![x] = media[x]]
  <2>1. \A y \in Media : hash[y] = IF y = x THEN media[x] ELSE scan[i].hash[y]
    BY DEF TypeOK, Scans, Contents
  <2> HIDE DEF hash
  <2>2. scan' = [scan EXCEPT ![i] = [scan[i] EXCEPT !.hash = hash]]
    BY <1>3 DEF InventoryHash, hash
  <2>3. \A j \in Inventories : scan'[j].hash = IF j = i THEN hash ELSE scan[j].hash
    BY <2>2 DEF TypeOK, Scans
  <2>4. \A y \in Media : media[y] \in Nat
    BY Numbers DEF TypeOK
  <2>5. \A j \in Inventories, y \in Media : scan'[j].hash[y] # None => scan'[j].hash[y] <= media[y]
    BY <2>1, <2>3, <2>4 DEF Known
  <2> QED BY <1>3, <2>5 DEF InventoryHash, Known
<1> QED BY <1>1, <1>2, <1>3 DEF InventoryStep

LEMMA StageLeaves ==
  ASSUME NEW c \in Stagers, StageStep(c)
  PROVE  UNCHANGED <<changes, media, seen, inventory, scan>>
BY DEF StageStep, StageBegin, StageVerify, StageCopy, StageRecheck, StageMkdir, StageHash, StageCopied,
       StageComplete, StageFail, StageKilled

LEMMA ChangeKnown ==
  ASSUME KInv, NEW x \in Media, ChangeMedium(x)
  PROVE  Known'
<1>1. \A y \in Media : media[y] \in Nat /\ media'[y] \in Nat /\ media[y] <= media'[y]
  BY MediaGrow
<1>2. changes \in Nat /\ changes' = changes + 1
  BY Numbers DEF KInv, TypeOK, ChangeMedium
<1>3. \A y \in Media : media'[y] = IF y = x THEN changes + 1 ELSE media[y]
  BY DEF KInv, TypeOK, ChangeMedium
<1>4. \A y \in Media : media'[y] <= changes'
  BY <1>1, <1>2, <1>3 DEF KInv, Known
<1>5. \A y \in Media : inventory[y] # None => inventory[y] \in Nat
  BY Numbers DEF KInv, TypeOK, Contents
<1>6. \A i \in Inventories, y \in Media : scan[i].hash[y] # None => scan[i].hash[y] \in Nat
  <2>1. \A i \in Inventories : scan[i].hash \in Contents
    BY DEF KInv, TypeOK, Scans
  <2> QED BY <2>1, Numbers DEF Contents
<1>7. \A y \in Media : inventory[y] # None => inventory[y] <= media'[y]
  BY <1>1, <1>5 DEF KInv, Known
<1>8. \A i \in Inventories, y \in Media : scan[i].hash[y] # None => scan[i].hash[y] <= media'[y]
  BY <1>1, <1>6 DEF KInv, Known
<1> QED BY <1>4, <1>7, <1>8 DEF ChangeMedium, KInv, Known

LEMMA KnownStep == KInv /\ TypeOK' /\ [Next]_vars => KInv'
<1> SUFFICES ASSUME KInv, TypeOK', [Next]_vars PROVE Known'
  BY DEF KInv
<1>1. UNCHANGED <<changes, media, seen, inventory, scan>> => Known'
  BY DEF KInv, Known
<1> QED BY <1>1, InventoryKnown, StageLeaves, ChangeKnown DEF Next, vars

------------------------------------------------------------------------------
(* A directory has one maker at a time, and is not touched once complete. *)

Working(c) == command[c].pc \in {"hash", "copy", "recheck"}

Made ==
  /\ \A c \in Stagers : command[c].pc \in {"verify", "hash", "copy", "recheck"} => command[c].at \in Destinations
  /\ \A c \in Stagers : Working(c) => /\ staging[command[c].at].by = c
                                      /\ ~staging[command[c].at].complete
  /\ \A w \in Destinations : staging[w].complete => staging[w].by # None

MInv == KInv /\ Made

LEMMA InitialMade == Init => Made
BY NoneAssumption DEF Init, Made, Working, NoDirectory

\* What one step of c does to the commands and the directories.
LEMMA StageEffect ==
  ASSUME MInv, TypeOK', NEW c \in Stagers, StageStep(c)
  PROVE  /\ \A d \in Stagers : d # c => command'[d] = command[d]
         /\ \A w \in Destinations : staging'[w] # staging[w] =>
              /\ w = command[c].at
              /\ staging[w].by \in {None, c}
              /\ ~staging[w].complete
<1> USE DEF MInv, KInv, TypeOK
<1>1. \A d \in Stagers : d # c => command'[d] = command[d]
  BY DEF StageStep, StageBegin, StageVerify, StageCopy, StageRecheck, StageMkdir, StageHash, StageCopied,
         StageComplete, StageFail, StageKilled
<1>2. ASSUME NEW w \in Destinations, staging'[w] # staging[w]
      PROVE  w = command[c].at /\ staging[w].by \in {None, c} /\ ~staging[w].complete
  <2>1. CASE StageMkdir(c)
    BY <1>2, <2>1 DEF StageMkdir, Made
  <2>2. CASE StageComplete(c)
    BY <1>2, <2>2 DEF StageComplete, Made, Working
  <2>3. CASE StageFail(c)
    BY <1>2, <2>3 DEF StageFail, Discards, Made, Working
  <2>4. CASE \E x \in Media : StageCopy(c, x)
    BY <1>2, <2>4 DEF StageCopy, Made, Working
  <2>5. CASE \/ \E x \in Destinations : StageBegin(c, x)
             \/ \E x \in Media : StageVerify(c, x) \/ StageRecheck(c, x)
             \/ StageHash(c) \/ StageCopied(c) \/ StageKilled(c)
    BY <1>2, <2>5 DEF StageBegin, StageVerify, StageRecheck, StageHash, StageCopied, StageKilled
  <2> QED BY <2>1, <2>2, <2>3, <2>4, <2>5 DEF StageStep
<1> QED BY <1>1, <1>2

LEMMA StageMade ==
  ASSUME MInv, TypeOK', NEW c \in Stagers, StageStep(c)
  PROVE  Made'
<1> USE DEF MInv, KInv
<1>1. \A d \in Stagers : d # c /\ Working(d) =>
        staging'[command'[d].at] = staging[command[d].at] /\ command'[d] = command[d]
  BY StageEffect, NoneAssumption DEF Made, Working
<1>2. \A d \in Stagers : d # c => command'[d] = command[d]
  BY StageEffect
<1>3. \A d \in Stagers : command[d] \in Commands
  BY DEF TypeOK
<1>4. /\ command'[c].pc \in {"verify", "hash", "copy", "recheck"} => command'[c].at \in Destinations
      /\ Working(c)' => staging'[command'[c].at].by = c /\ ~staging'[command'[c].at].complete
      /\ \A w \in Destinations : staging'[w].complete => staging'[w].by # None
  <2>1. ASSUME NEW w \in Destinations, StageBegin(c, w)
        PROVE  command'[c].pc = "verify" /\ command'[c].at = w /\ staging' = staging
    BY <2>1, <1>3 DEF StageBegin, Commands, TypeOK
  <2>2. ASSUME NEW x \in Media, StageVerify(c, x) \/ StageRecheck(c, x)
        PROVE  command'[c].pc = command[c].pc /\ command'[c].at = command[c].at /\ staging' = staging
    BY <2>2, <1>3 DEF StageVerify, StageRecheck, Commands, TypeOK
  <2>3. ASSUME NEW x \in Media, StageCopy(c, x)
        PROVE  /\ command' = command /\ Working(c)
               /\ \A w \in Destinations : staging'[w].by = staging[w].by /\ staging'[w].complete = staging[w].complete
    BY <2>3 DEF StageCopy, Working, TypeOK, Directories
  <2>4. CASE StageMkdir(c)
    <3>1. command'[c].pc \in {"hash", "copy"} /\ command'[c].at = command[c].at /\ command[c].pc = "verify"
      BY <1>3, <2>4 DEF StageMkdir, Commands, TypeOK
    <3>2. staging'[command[c].at].by = c /\ ~staging'[command[c].at].complete
      BY <2>4, <3>1 DEF StageMkdir, Made, NoDirectory, TypeOK
    <3>3. \A w \in Destinations : w # command[c].at => staging'[w] = staging[w]
      BY <2>4 DEF StageMkdir, TypeOK
    <3> QED BY <3>1, <3>2, <3>3 DEF Made
  <2>5. CASE StageHash(c) \/ StageCopied(c)
    <3>1. /\ command'[c].pc \in {"copy", "recheck"} /\ command'[c].at = command[c].at
          /\ staging' = staging /\ command[c].pc \in {"hash", "copy"}
      <4>1. StageHash(c) => command'[c].pc = "copy" /\ command'[c].at = command[c].at
        BY <1>3 DEF StageHash, Commands, TypeOK
      <4>2. StageCopied(c) => command'[c].pc = "recheck" /\ command'[c].at = command[c].at
        BY <1>3 DEF StageCopied, Commands, TypeOK
      <4> QED BY <2>5, <4>1, <4>2 DEF StageHash, StageCopied
    <3> QED BY <3>1 DEF Made, Working
  <2>6. CASE StageComplete(c)
    <3>1. command'[c].pc = "over" /\ Working(c)
      BY <1>3, <2>6 DEF StageComplete, Working, Commands, TypeOK
    <3>2. \A w \in Destinations : /\ staging'[w].by = staging[w].by
                                  /\ w # command[c].at => staging'[w] = staging[w]
      BY <2>6 DEF StageComplete, TypeOK, Directories
    <3>3. staging[command[c].at].by = c /\ c # None
      BY <3>1, NoneAssumption DEF Made
    <3>4. ASSUME NEW w \in Destinations, staging'[w].complete PROVE staging'[w].by # None
      <4>1. CASE w = command[c].at
        <5>1. staging'[w].by = staging[w].by
          BY <3>2
        <5> QED BY <3>3, <4>1, <5>1
      <4>2. CASE w # command[c].at
        <5>1. staging'[w] = staging[w]
          BY <3>2, <4>2
        <5> QED BY <3>4, <5>1 DEF Made
      <4> QED BY <4>1, <4>2
    <3> QED BY <3>1, <3>4 DEF Working
  <2>7. CASE StageFail(c)
    <3>1. command'[c].pc = "over"
      BY <1>3, <2>7 DEF StageFail, Commands, TypeOK
    <3>2. \A w \in Destinations : staging'[w] \in {staging[w], NoDirectory}
      BY <2>7 DEF StageFail, TypeOK
    <3> QED BY <3>1, <3>2 DEF Made, Working, NoDirectory
  <2>8. CASE StageKilled(c)
    <3>1. command'[c].pc = "over" /\ staging' = staging
      BY <1>3, <2>8 DEF StageKilled, Commands, TypeOK
    <3> QED BY <3>1 DEF Made, Working
  <2> QED BY <2>1, <2>2, <2>3, <2>4, <2>5, <2>6, <2>7, <2>8 DEF StageStep, Made, Working
<1> QED BY <1>1, <1>2, <1>4 DEF Made, Working

LEMMA MadeStep == MInv /\ TypeOK' /\ [Next]_vars => MInv'
<1> SUFFICES ASSUME MInv, TypeOK', [Next]_vars PROVE Made'
  BY KnownStep DEF MInv
<1>1. UNCHANGED <<staging, command>> => Made'
  BY DEF MInv, Made, Working
<1>2. ASSUME NEW i \in Inventories, InventoryStep(i) PROVE UNCHANGED <<staging, command>>
  BY <1>2 DEF InventoryStep, InventoryBegin, InventoryHash, InventoryPublish, InventoryEnds
<1> QED BY <1>1, <1>2, StageMade DEF Next, vars, ChangeMedium

LEMMA MadeInvariant == Spec => []MInv
<1>1. Init => MInv
  BY InitialKnown, InitialMade DEF MInv
<1> QED BY <1>1, MadeStep, TypeCorrect, PTL DEF Spec

\* A directory is left alone by every command but its maker's, and once complete by
\* that one too; a refused command removes nothing.
THEOREM StagingStaysOwned == Spec => StagingIsOwned
<1>1. MInv /\ TypeOK' /\ [Next]_vars =>
        [\A w \in Destinations :
           /\ staging[w].complete => staging'[w] = staging[w]
           /\ staging[w].by \notin {None, staging'[w].by}
                => command'[staging[w].by] # command[staging[w].by]]_vars
  <2> SUFFICES ASSUME MInv, TypeOK', [Next]_vars, ~UNCHANGED vars, NEW w \in Destinations
               PROVE  /\ staging[w].complete => staging'[w] = staging[w]
                      /\ staging[w].by \notin {None, staging'[w].by}
                           => command'[staging[w].by] # command[staging[w].by]
    OBVIOUS
  <2>1. ASSUME NEW c \in Stagers, StageStep(c), staging'[w].by # staging[w].by
        PROVE  command'[c] # command[c]
    <3>1. CASE \E x \in Media : StageCopy(c, x)
      BY <2>1, <3>1 DEF StageCopy, MInv, KInv, TypeOK, Directories
    <3>2. CASE StageMkdir(c) \/ StageComplete(c) \/ StageFail(c)
      <4>1. StageMkdir(c) => command[c].pc = "verify" /\ command'[c].pc # "verify"
        BY DEF StageMkdir, MInv, KInv, TypeOK, Commands
      <4>2. StageComplete(c) => command[c].pc = "recheck" /\ command'[c].pc = "over"
        BY DEF StageComplete, MInv, KInv, TypeOK, Commands
      <4>3. StageFail(c) => command[c].pc # "over" /\ command'[c].pc = "over"
        BY DEF StageFail, MInv, KInv, TypeOK, Commands
      <4> QED BY <3>2, <4>1, <4>2, <4>3
    <3>3. CASE \/ \E x \in Destinations : StageBegin(c, x)
               \/ \E x \in Media : StageVerify(c, x) \/ StageRecheck(c, x)
               \/ StageHash(c) \/ StageCopied(c) \/ StageKilled(c)
      BY <2>1, <3>3 DEF StageBegin, StageVerify, StageRecheck, StageHash, StageCopied, StageKilled
    <3> QED BY <2>1, <3>1, <3>2, <3>3 DEF StageStep
  <2>2. ASSUME NEW i \in Inventories, InventoryStep(i) PROVE staging' = staging
    BY <2>2 DEF InventoryStep, InventoryBegin, InventoryHash, InventoryPublish, InventoryEnds
  <2> QED BY <2>1, <2>2, StageEffect DEF Next, ChangeMedium
<1> QED BY <1>1, MadeInvariant, TypeCorrect, PTL DEF Spec, StagingIsOwned

------------------------------------------------------------------------------
(* A completed staging is what it records, and was one set. *)

Held(c) == staging[command[c].at].held
Copying(c) == command[c].pc \in {"copy", "recheck"}

\* set, a moment of the media, is between the hashes c goes by and what it has copied.
Since(c, set) ==
  \A x \in Copied(c) :
    /\ command[c].expected[x] \in Nat /\ set[x] \in Nat
    /\ command[c].expected[x] <= set[x] /\ set[x] <= media[x]
    /\ Held(c)[x] # None => Held(c)[x] \in Nat /\ set[x] <= Held(c)[x] /\ Held(c)[x] <= media[x]

Staging(c) ==
  /\ command[c].pc = "verify" /\ c \in Preparers =>
       \A x \in Canonical : command[c].expected[x] # None /\ command[c].expected[x] <= media[x]
  /\ command[c].pc = "hash" => c \in Installers /\ Held(c) = Nothing
  /\ command[c].pc \in {"hash", "copy"} => command[c].checked = {}
  /\ command[c].pc = "recheck" =>
       \A x \in Copied(c) : /\ Held(c)[x] # None
                            /\ x \in command[c].checked => Held(c)[x] = command[c].expected[x]
  /\ Copying(c) => \E set \in seen : Since(c, set)

Stagings == \A c \in Stagers : Staging(c)
Recorded == StagedIsRecorded /\ StagedIsOneSet
SInv == MInv /\ Stagings /\ Recorded

LEMMA CopiedCompared ==
  ASSUME NEW c \in Stagers
  PROVE  /\ Copied(c) \subseteq Compared(c) /\ Compared(c) \subseteq Media
         /\ c \notin Installers => Compared(c) = Canonical /\ c \in Preparers
         /\ c \in Installers => Copied(c) = {Miniroot} /\ c \notin Preparers
BY CommandsAssumption DEF Copied, Compared, Canonical, Media

LEMMA InitialStagings == Init => Stagings /\ Recorded
BY DEF Init, Stagings, Staging, Recorded, StagedIsRecorded, StagedIsOneSet, NoDirectory, Copying

\* A command that does not move keeps what it knows while the media get newer.
LEMMA StagingKept ==
  ASSUME NEW c \in Stagers, Staging(c), KInv, command'[c] = command[c],
         Working(c) => staging'[command[c].at] = staging[command[c].at],
         \A x \in Media : media[x] \in Nat /\ media'[x] \in Nat /\ media[x] <= media'[x],
         seen \subseteq seen'
  PROVE  Staging(c)'
<1>1. command[c].pc = "verify" /\ c \in Preparers =>
        \A x \in Canonical : command[c].expected[x] # None /\ command[c].expected[x] <= media'[x]
  <2>1. command[c].expected \in Contents
    BY DEF KInv, TypeOK, Commands
  <2>2. \A x \in Canonical : command[c].expected[x] # None => command[c].expected[x] \in Nat
    BY <2>1, Numbers DEF Contents, Media
  <2> QED BY <2>2 DEF Staging, Media
<1>2. Working(c) => Held(c)' = Held(c)
  BY DEF Held
<1>3. ASSUME NEW set, Since(c, set), Copying(c) PROVE Since(c, set)'
  <2>1. Copied(c)' = Copied(c)
    BY DEF Copied
  <2>2. \A x \in Copied(c) : x \in Media
    BY CopiedCompared
  <2> QED BY <1>2, <1>3, <2>1, <2>2 DEF Since, Copying, Working
<1>4. Copying(c) => \E set \in seen' : Since(c, set)'
  BY <1>3 DEF Staging
<1>5. command[c].pc \in {"hash", "recheck"} => Working(c)
  BY DEF Working
<1> QED BY <1>1, <1>2, <1>4, <1>5 DEF Staging, Copying, Nothing

LEMMA SameMedia ==
  ASSUME TypeOK, media' = media
  PROVE  \A x \in Media : media[x] \in Nat /\ media'[x] \in Nat /\ media[x] <= media'[x]
<1>1. \A x \in Media : media[x] \in Nat
  BY Numbers DEF TypeOK
<1> QED BY <1>1

LEMMA BeginStaging ==
  ASSUME SInv, NEW c \in Stagers, NEW w \in Destinations, StageBegin(c, w)
  PROVE  Staging(c)'
<1>1. command[c] \in Commands
  BY DEF SInv, MInv, KInv, TypeOK
<1>2. command'[c].pc = "verify" /\ (c \in Preparers => command'[c].expected = inventory) /\ media' = media
  BY <1>1 DEF StageBegin, Commands, SInv, MInv, KInv, TypeOK
<1>3. c \in Preparers => inventory # Nothing
  BY DEF StageBegin
<1>4. c \in Preparers => \A x \in Canonical : inventory[x] # None /\ inventory[x] <= media[x]
  BY <1>3 DEF SInv, MInv, KInv, Known, Media
<1> QED BY <1>2, <1>4 DEF Staging, Copying

\* Nothing is copied yet; the media of this moment are as new as the inventory.
LEMMA MkdirStaging ==
  ASSUME SInv, NEW c \in Stagers, StageMkdir(c)
  PROVE  Staging(c)'
<1>1. command[c] \in Commands /\ command[c].at \in Destinations
  BY DEF SInv, MInv, Made, KInv, TypeOK, StageMkdir
<1>2. /\ command'[c].pc = IF c \in Installers THEN "hash" ELSE "copy"
      /\ command'[c].checked = {} /\ command'[c].at = command[c].at
      /\ command'[c].expected = command[c].expected
      /\ media' = media /\ seen' = seen
  BY <1>1 DEF StageMkdir, Commands, SInv, MInv, KInv, TypeOK
<1>3. staging'[command[c].at].held = Nothing
  BY <1>1 DEF StageMkdir, NoDirectory, SInv, MInv, KInv, TypeOK
<1>4. Held(c)' = Nothing
  BY <1>2, <1>3 DEF Held
<1>5. ASSUME c \notin Installers PROVE \E set \in seen' : Since(c, set)'
  <2>1. \A x \in Media : media[x] \in Nat
    BY Numbers DEF SInv, MInv, KInv, TypeOK
  <2>2. \A x \in Canonical : command[c].expected[x] # None /\ command[c].expected[x] <= media[x]
    BY <1>5, CopiedCompared DEF SInv, Stagings, Staging, StageMkdir
  <2>3. command[c].expected \in Contents
    BY <1>1 DEF Commands
  <2>4. \A x \in Canonical : x \in Media /\ command[c].expected[x] \in Nat
    BY <2>2, <2>3, Numbers DEF Contents, Media
  <2>5. \A x \in Copied(c) : x \in Canonical
    BY <1>5, CopiedCompared
  <2>6. Since(c, media)'
    BY <1>2, <1>4, <2>1, <2>2, <2>4, <2>5 DEF Since, Nothing, Copied
  <2>7. media' \in seen'
    BY <1>2 DEF SInv, MInv, KInv, Known
  <2> QED BY <2>6, <2>7
<1>6. Nothing' = Nothing
  BY DEF Nothing
<1> QED BY <1>2, <1>4, <1>5, <1>6 DEF Staging, Copying

\* The media of this moment are what is hashed, and nothing is copied yet.
LEMMA HashStaging ==
  ASSUME SInv, NEW c \in Stagers, StageHash(c)
  PROVE  Staging(c)'
<1>1. command[c] \in Commands /\ c \in Installers /\ Held(c) = Nothing /\ command[c].checked = {}
  BY DEF SInv, Stagings, Staging, MInv, KInv, TypeOK, StageHash
<1>2. /\ command'[c].pc = "copy" /\ command'[c].checked = {} /\ command'[c].at = command[c].at
      /\ command'[c].expected = SourceHash(c)
      /\ staging' = staging /\ media' = media /\ seen' = seen
  BY <1>1 DEF StageHash, Commands, SInv, MInv, KInv, TypeOK
<1>3. SourceHash(c)[Miniroot] = media[Miniroot]
  <2>1. command[c].expected \in Contents
    BY <1>1 DEF Commands
  <2> QED BY <2>1 DEF SourceHash, Contents, Media
<1>4. media[Miniroot] \in Nat
  BY Numbers DEF SInv, MInv, KInv, TypeOK, Media
<1>5. Held(c)' = Nothing /\ Copied(c)' = {Miniroot}
  BY <1>1, <1>2, CopiedCompared DEF Held, Copied
<1>6. Since(c, media)'
  BY <1>2, <1>3, <1>4, <1>5 DEF Since, Nothing, Media
<1>7. media' \in seen'
  BY <1>2 DEF SInv, MInv, KInv, Known
<1> QED BY <1>2, <1>6, <1>7 DEF Staging, Copying

LEMMA CopyStaging ==
  ASSUME SInv, NEW c \in Stagers, NEW x \in Media, StageCopy(c, x)
  PROVE  Staging(c)'
<1>1. /\ command[c].at \in Destinations /\ command' = command /\ media' = media /\ seen' = seen
      /\ command[c].pc = "copy" /\ x \in Copied(c)
  BY DEF SInv, MInv, Made, StageCopy
<1>2. Held(c)' = Holding(c, x)
  BY <1>1 DEF Held, StageCopy, SInv, MInv, KInv, TypeOK, Directories
<1>3. \A y \in Media : Holding(c, x)[y] = IF y = x THEN media[x] ELSE Held(c)[y]
  BY <1>1 DEF Holding, Held, SInv, MInv, KInv, TypeOK, Directories, Contents
<1>4. PICK set \in seen : Since(c, set)
  BY <1>1 DEF SInv, Stagings, Staging, Copying
<1>5. media[x] \in Nat
  BY Numbers DEF SInv, MInv, KInv, TypeOK
<1>6. \A y \in Copied(c) : y \in Media
  BY CopiedCompared
<1>7. ASSUME NEW y \in Copied(c)
      PROVE  /\ command[c].expected[y] \in Nat /\ set[y] \in Nat
             /\ command[c].expected[y] <= set[y] /\ set[y] <= media[y]
             /\ Holding(c, x)[y] # None => /\ Holding(c, x)[y] \in Nat
                                           /\ set[y] <= Holding(c, x)[y]
                                           /\ Holding(c, x)[y] <= media[y]
  BY <1>3, <1>4, <1>5, <1>6 DEF Since
<1>8. Since(c, set)'
  BY <1>1, <1>2, <1>7 DEF Since, Copied
<1> QED BY <1>1, <1>4, <1>8 DEF Staging, Copying, SInv, Stagings

LEMMA CopiedStaging ==
  ASSUME SInv, NEW c \in Stagers, StageCopied(c)
  PROVE  Staging(c)'
<1>1. command[c] \in Commands
  BY DEF SInv, MInv, KInv, TypeOK
<1>2. /\ command'[c].pc = "recheck" /\ command'[c].at = command[c].at
      /\ command'[c].expected = command[c].expected /\ command'[c].checked = command[c].checked
      /\ staging' = staging /\ media' = media /\ seen' = seen /\ command[c].pc = "copy"
  BY <1>1 DEF StageCopied, Commands, SInv, MInv, KInv, TypeOK
<1>3. command[c].checked = {} /\ \A x \in Copied(c) : Held(c)[x] # None
  BY <1>2 DEF SInv, Stagings, Staging, StageCopied, Held
<1>4. Held(c)' = Held(c) /\ Copied(c)' = Copied(c)
  BY <1>2 DEF Held, Copied
<1>5. \E set \in seen' : Since(c, set)'
  <2>1. PICK set \in seen : Since(c, set)
    BY <1>2 DEF SInv, Stagings, Staging, Copying
  <2>2. Since(c, set)'
    BY <1>2, <1>4, <2>1 DEF Since
  <2> QED BY <1>2, <2>2
<1> QED BY <1>2, <1>3, <1>4, <1>5 DEF Staging

\* The source is as it was when it was hashed first: so was the copy, in between.
LEMMA RecheckStaging ==
  ASSUME SInv, NEW c \in Stagers, NEW x \in Media, StageVerify(c, x) \/ StageRecheck(c, x)
  PROVE  Staging(c)'
<1>1. command[c] \in Commands
  BY DEF SInv, MInv, KInv, TypeOK
<1>2. /\ command'[c].pc = command[c].pc /\ command'[c].at = command[c].at
      /\ command'[c].expected = command[c].expected
      /\ command'[c].checked = command[c].checked \cup {x}
      /\ staging' = staging /\ media' = media /\ seen' = seen
  BY <1>1 DEF StageVerify, StageRecheck, Commands, SInv, MInv, KInv, TypeOK
<1>3. Held(c)' = Held(c) /\ Copied(c)' = Copied(c)
  BY <1>2 DEF Held, Copied
<1>4. Copying(c) => \E set \in seen' : Since(c, set)'
  <2> SUFFICES ASSUME Copying(c) PROVE \E set \in seen' : Since(c, set)'
    OBVIOUS
  <2>1. PICK set \in seen : Since(c, set)
    BY DEF SInv, Stagings, Staging
  <2>2. Since(c, set)'
    BY <1>2, <1>3, <2>1 DEF Since
  <2> QED BY <1>2, <2>2
<1>5. command[c].pc = "recheck" => \A y \in Copied(c) :
        Held(c)[y] # None /\ (y \in command'[c].checked => Held(c)[y] = command[c].expected[y])
  <2> SUFFICES ASSUME command[c].pc = "recheck", NEW y \in Copied(c)
               PROVE  Held(c)[y] # None /\ (y \in command'[c].checked => Held(c)[y] = command[c].expected[y])
    OBVIOUS
  <2>1. /\ Held(c)[y] # None
        /\ y \in command[c].checked => Held(c)[y] = command[c].expected[y]
    BY DEF SInv, Stagings, Staging
  <2>2. media[x] = command[c].expected[x]
    BY DEF StageVerify, StageRecheck, Unchanged
  <2>3. PICK set \in seen : Since(c, set)
    BY DEF SInv, Stagings, Staging, Copying
  <2>4. y = x => Held(c)[y] = command[c].expected[y]
    BY <2>1, <2>2, <2>3 DEF Since
  <2> QED BY <1>2, <2>1, <2>4
<1>6. command[c].pc \notin {"hash", "copy"}
  BY DEF StageVerify, StageRecheck
<1> QED BY <1>2, <1>3, <1>4, <1>5, <1>6 DEF Staging, Copying, SInv, Stagings

LEMMA OverStaging ==
  ASSUME SInv, NEW c \in Stagers, StageComplete(c) \/ StageFail(c) \/ StageKilled(c)
  PROVE  Staging(c)'
<1>1. command'[c].pc = "over"
  BY DEF StageComplete, StageFail, StageKilled, SInv, MInv, KInv, TypeOK, Commands
<1> QED BY <1>1 DEF Staging, Copying

\* What is completed is what was copied, and all of it was compared.
LEMMA CompleteRecorded ==
  ASSUME SInv, NEW c \in Stagers, StageComplete(c)
  PROVE  LET w == command[c].at
         IN  /\ w \in Destinations /\ staging'[w].by = c
             /\ \A x \in Copied(c) : /\ staging'[w].held[x] # None
                                     /\ staging'[w].held[x] = staging'[w].recorded[x]
             /\ \E then \in seen : \A x \in Copied(c) : staging'[w].held[x] = then[x]
<1> DEFINE w == command[c].at
<1>1. w \in Destinations /\ staging[w].by = c /\ command[c].pc = "recheck"
  BY DEF SInv, MInv, Made, Working, StageComplete
<1>2. /\ staging'[w].by = staging[w].by /\ staging'[w].held = Held(c)
      /\ staging'[w].recorded = command[c].expected
  BY <1>1 DEF StageComplete, SInv, MInv, KInv, TypeOK, Directories, Held
<1>3. \A x \in Copied(c) : x \in command[c].checked
  BY CopiedCompared DEF StageComplete, Rechecked
<1>4. \A x \in Copied(c) : Held(c)[x] # None /\ Held(c)[x] = command[c].expected[x]
  BY <1>1, <1>3 DEF SInv, Stagings, Staging
<1>5. PICK set \in seen : Since(c, set)
  BY <1>1 DEF SInv, Stagings, Staging, Copying
<1>6. \A x \in Copied(c) : Held(c)[x] = set[x]
  BY <1>4, <1>5 DEF Since
<1> QED BY <1>1, <1>2, <1>4, <1>5, <1>6

LEMMA RecordedKept ==
  ASSUME Recorded, seen \subseteq seen', NEW w \in Destinations, staging'[w].complete,
         staging'[w] = staging[w]
  PROVE  /\ \A x \in Copied(staging'[w].by) : /\ staging'[w].held[x] # None
                                              /\ staging'[w].held[x] = staging'[w].recorded[x]
         /\ \E then \in seen' : \A x \in Copied(staging'[w].by) : staging'[w].held[x] = then[x]
BY DEF Recorded, StagedIsRecorded, StagedIsOneSet

LEMMA StageRecorded ==
  ASSUME SInv, TypeOK', NEW c \in Stagers, StageStep(c)
  PROVE  Stagings' /\ Recorded'
<1>1. media' = media /\ seen' = seen
  BY StageLeaves
<1>2. ASSUME NEW d \in Stagers, d # c PROVE Staging(d)'
  <2>1. command'[d] = command[d]
    BY <1>2, StageEffect DEF SInv
  <2>2. Working(d) => staging'[command[d].at] = staging[command[d].at]
    BY <1>2, StageEffect, NoneAssumption DEF SInv, MInv, Made, Working
  <2> QED BY <1>1, <2>1, <2>2, SameMedia, StagingKept DEF SInv, MInv, KInv, Stagings
<1>3. Staging(c)'
  BY BeginStaging, MkdirStaging, HashStaging, CopyStaging, CopiedStaging, RecheckStaging, OverStaging DEF StageStep
<1>4. ASSUME NEW w \in Destinations, staging'[w].complete
      PROVE  /\ \A x \in Copied(staging'[w].by) : /\ staging'[w].held[x] # None
                                                  /\ staging'[w].held[x] = staging'[w].recorded[x]
             /\ \E then \in seen' : \A x \in Copied(staging'[w].by) : staging'[w].held[x] = then[x]
  <2>1. CASE staging'[w] = staging[w]
    BY <1>1, <1>4, <2>1, RecordedKept DEF SInv
  <2>2. CASE staging'[w] # staging[w]
    <3>1. w = command[c].at /\ ~staging[w].complete
      BY <2>2, StageEffect DEF SInv
    <3>2. StageComplete(c)
      <4>1. \A x \in Media : StageCopy(c, x) => staging'[w].complete = staging[w].complete
        BY <3>1 DEF StageCopy, SInv, MInv, KInv, TypeOK, Directories
      <4>2. StageMkdir(c) => ~staging'[w].complete
        BY <3>1 DEF StageMkdir, SInv, MInv, KInv, TypeOK, NoDirectory
      <4>3. StageFail(c) => ~staging'[w].complete
        <5>1. StageFail(c) => staging'[w] \in {staging[w], NoDirectory}
          BY DEF StageFail, SInv, MInv, KInv, TypeOK
        <5> QED BY <3>1, <5>1 DEF NoDirectory
      <4>4. \/ \E v \in Destinations : StageBegin(c, v)
            \/ \E x \in Media : StageVerify(c, x) \/ StageRecheck(c, x)
            \/ StageHash(c) \/ StageCopied(c) \/ StageKilled(c)
            => staging'[w] = staging[w]
        BY DEF StageBegin, StageVerify, StageRecheck, StageHash, StageCopied, StageKilled
      <4> QED BY <1>4, <2>2, <3>1, <4>1, <4>2, <4>3, <4>4 DEF StageStep
    <3> QED BY <1>1, <3>1, <3>2, CompleteRecorded
  <2> QED BY <2>1, <2>2
<1>5. Recorded'
  BY <1>4 DEF Recorded, StagedIsRecorded, StagedIsOneSet
<1> QED BY <1>2, <1>3, <1>5 DEF Stagings

LEMMA OthersRecorded ==
  ASSUME SInv, UNCHANGED <<staging, command>>, seen \subseteq seen',
         \A x \in Media : media[x] \in Nat /\ media'[x] \in Nat /\ media[x] <= media'[x]
  PROVE  Stagings' /\ Recorded'
<1>1. Stagings'
  BY StagingKept DEF SInv, MInv, Stagings
<1>2. Recorded'
  BY RecordedKept DEF SInv, Recorded, StagedIsRecorded, StagedIsOneSet
<1> QED BY <1>1, <1>2

LEMMA RecordedStep == SInv /\ TypeOK' /\ [Next]_vars => SInv'
<1> SUFFICES ASSUME SInv, TypeOK', [Next]_vars PROVE Stagings' /\ Recorded'
  BY MadeStep DEF SInv
<1>1. ASSUME NEW i \in Inventories, InventoryStep(i) PROVE UNCHANGED <<staging, command, media, seen>>
  BY <1>1 DEF InventoryStep, InventoryBegin, InventoryHash, InventoryPublish, InventoryEnds
<1>2. UNCHANGED <<staging, command, media, seen>> => Stagings' /\ Recorded'
  BY SameMedia, OthersRecorded DEF SInv, MInv, KInv
<1>3. ASSUME NEW x \in Media, ChangeMedium(x) PROVE Stagings' /\ Recorded'
  <2>1. UNCHANGED <<staging, command>> /\ seen \subseteq seen'
    BY <1>3 DEF ChangeMedium
  <2> QED BY <1>3, <2>1, MediaGrow, OthersRecorded DEF SInv, MInv
<1> QED BY <1>1, <1>2, <1>3, StageRecorded DEF Next, vars

LEMMA RecordedInvariant == Spec => []SInv
<1>1. Init => SInv
  BY InitialKnown, InitialMade, InitialStagings DEF SInv, MInv
<1> QED BY <1>1, RecordedStep, TypeCorrect, PTL DEF Spec

\* Every copy of a completed staging has the hash that install.json names for its source.
THEOREM StagingsAreRecorded == Spec => []StagedIsRecorded
<1>1. SInv => StagedIsRecorded
  BY DEF SInv, Recorded
<1> QED BY <1>1, RecordedInvariant, PTL

\* What a completed staging holds was in the canonical directory at one moment.
THEOREM StagingsAreOneSet == Spec => []StagedIsOneSet
<1>1. SInv => StagedIsOneSet
  BY DEF SInv, Recorded
<1> QED BY <1>1, RecordedInvariant, PTL
==============================================================================
