-------------------------- MODULE PreservationProofs --------------------------
(***************************************************************************)
(* Proofs about the golden disks and workspaces of Preservation.  Versions *)
(* only grow, and the copy of every disk is taken between its two hashes.  *)
(* The golden set that stood when the first hashes were complete (a member *)
(* of seen) lies between the hashes before it and the copies after it; if  *)
(* the second hashes equal the first, nothing lies between them but that   *)
(* very set, so the copy is it.                                            *)
(***************************************************************************)
EXTENDS Preservation, TLAPS

USE DEF Phases

------------------------------------------------------------------------------
(* Types. *)

LEMMA InitialTypes == Init => TypeOK
<1> SUFFICES ASSUME Init PROVE TypeOK
  OBVIOUS
<1>1. Nothing \in DiskSets
  BY DEF Nothing, DiskSets
<1>2. 0 \in Versions
  BY MaxChangesAssumption DEF Versions
<1>3. Absent \in [by : Importers \cup {None}, disks : DiskSets]
  BY <1>1 DEF Absent
<1>4. Absent \in [by : Preparers \cup {None}, disks : DiskSets]
  BY <1>1 DEF Absent
<1>5. Idle \in Preparations
  BY <1>1 DEF Idle, Preparations
<1>6. [pc |-> "idle", disks |-> Nothing] \in Imports
  BY <1>1 DEF Imports
<1> QED BY <1>1, <1>2, <1>3, <1>4, <1>5, <1>6 DEF Init, TypeOK

LEMMA ImportTypes ==
  ASSUME TypeOK, NEW i \in Importers,
         \/ ImportBegin(i) \/ ImportPublish(i) \/ ImportEnds(i) \/ \E d \in Disks : ImportCopy(i, d)
  PROVE  TypeOK'
<1>1. import[i] \in Imports /\ import[i].disks \in DiskSets
  BY DEF TypeOK, Imports
<1>2. \A pc \in {"copy", "over"} : [import[i] EXCEPT !.pc = pc] \in Imports
  BY <1>1 DEF Imports
<1>3. CASE ImportBegin(i)
  BY <1>2, <1>3 DEF TypeOK, ImportBegin
<1>4. CASE ImportPublish(i)
  <2>1. golden' \in [by : Importers \cup {None}, disks : DiskSets] /\ seen' \subseteq DiskSets
    BY <1>1, <1>4 DEF TypeOK, ImportPublish
  <2>2. import' \in [Importers -> Imports]
    BY <1>2, <1>4 DEF TypeOK, ImportPublish
  <2> QED BY <1>4, <2>1, <2>2 DEF TypeOK, ImportPublish
<1>5. CASE ImportEnds(i)
  BY <1>2, <1>5 DEF TypeOK, ImportEnds
<1>6. ASSUME NEW d \in Disks, ImportCopy(i, d) PROVE TypeOK'
  <2> DEFINE copied == [import[i].disks EXCEPT ![d] = staging[d]]
  <2>1. copied \in DiskSets
    BY <1>1 DEF TypeOK, DiskSets
  <2> HIDE DEF copied
  <2>2. [import[i] EXCEPT !.disks = copied] \in Imports
    BY <1>1, <2>1 DEF Imports
  <2>3. import' = [import EXCEPT ![i] = [import[i] EXCEPT !.disks = copied]]
    BY <1>6 DEF ImportCopy, copied
  <2>4. import' \in [Importers -> Imports]
    BY <2>2, <2>3 DEF TypeOK
  <2> QED BY <1>6, <2>4 DEF TypeOK, ImportCopy
<1> QED BY <1>3, <1>4, <1>5, <1>6

LEMMA IdleType == [Idle EXCEPT !.pc = "over"] \in Preparations
BY DEF Idle, Preparations, Nothing, DiskSets

LEMMA PrepareTypes ==
  ASSUME TypeOK, NEW p \in Preparers,
         \/ PrepareCopy(p) \/ PrepareRehash(p) \/ PreparePublish(p) \/ PrepareEnds(p)
         \/ \E s \in Sessions : PrepareBegin(p, s)
         \/ \E d \in Disks : PrepareRead(p, d)
  PROVE  TypeOK'
<1>1. /\ prepare[p] \in Preparations
      /\ prepare[p].read \in [Phases -> DiskSets]
      /\ prepare \in [Preparers -> Preparations]
  BY DEF TypeOK, Preparations
<1>2. CASE PrepareCopy(p)
  <2>1. [prepare[p] EXCEPT !.pc = "copy"] \in Preparations
    BY <1>1 DEF Preparations
  <2> QED BY <1>2, <2>1 DEF TypeOK, PrepareCopy
<1>3. CASE PrepareRehash(p)
  <2>1. [prepare[p] EXCEPT !.pc = "after"] \in Preparations
    BY <1>1 DEF Preparations
  <2> QED BY <1>3, <2>1 DEF TypeOK, PrepareRehash
<1>4. CASE PreparePublish(p)
  <2>1. [by |-> p, disks |-> prepare[p].read["copy"]] \in [by : Preparers \cup {None}, disks : DiskSets]
    BY <1>1
  <2>2. workspace' \in [Sessions -> [by : Preparers \cup {None}, disks : DiskSets]]
    BY <1>4, <2>1 DEF TypeOK, PreparePublish
  <2>3. prepare' \in [Preparers -> Preparations]
    BY <1>1, <1>4, IdleType DEF PreparePublish
  <2> QED BY <1>4, <2>2, <2>3 DEF TypeOK, PreparePublish
<1>5. CASE PrepareEnds(p)
  BY <1>1, <1>5, IdleType DEF TypeOK, PrepareEnds
<1>6. ASSUME NEW s \in Sessions, PrepareBegin(p, s) PROVE TypeOK'
  <2>1. [prepare[p] EXCEPT !.pc = "before", !.session = s] \in Preparations
    BY <1>1 DEF Preparations
  <2> QED BY <1>6, <2>1 DEF TypeOK, PrepareBegin
<1>7. ASSUME NEW d \in Disks, PrepareRead(p, d) PROVE TypeOK'
  <2>1. prepare[p].pc \in Phases /\ golden.disks \in DiskSets
    BY <1>7 DEF TypeOK, PrepareRead
  <2>2. [prepare[p].read[prepare[p].pc] EXCEPT ![d] = golden.disks[d]] \in DiskSets
    BY <1>1, <2>1 DEF DiskSets
  <2>3. Read(p, d) \in [Phases -> DiskSets]
    BY <1>1, <2>1, <2>2 DEF Read
  <2>4. [prepare[p] EXCEPT !.read = Read(p, d)] \in Preparations
    BY <1>1, <2>3 DEF Preparations
  <2> QED BY <1>7, <2>4 DEF TypeOK, PrepareRead
<1> QED BY <1>2, <1>3, <1>4, <1>5, <1>6, <1>7

LEMMA ChangeTypes ==
  ASSUME TypeOK, NEW d \in Disks, ChangeStaging(d) \/ ChangeGolden(d)
  PROVE  TypeOK'
<1>1. changes' \in Versions /\ changes + 1 \in Versions
  BY MaxChangesAssumption DEF TypeOK, Versions, ChangeStaging, ChangeGolden
<1>2. CASE ChangeStaging(d)
  BY <1>1, <1>2 DEF TypeOK, ChangeStaging
<1>3. CASE ChangeGolden(d)
  <2> DEFINE disks == [golden.disks EXCEPT ![d] = changes + 1]
  <2>1. disks \in DiskSets
    BY <1>1 DEF TypeOK, DiskSets
  <2> HIDE DEF disks
  <2>2. golden' = [golden EXCEPT !.disks = disks]
    BY <1>3 DEF ChangeGolden, disks
  <2>3. golden' \in [by : Importers \cup {None}, disks : DiskSets] /\ golden'.disks = disks
    BY <2>1, <2>2 DEF TypeOK
  <2>4. seen' \subseteq DiskSets
    BY <1>3, <2>1, <2>3 DEF TypeOK, ChangeGolden
  <2> QED BY <1>1, <1>3, <2>3, <2>4 DEF TypeOK, ChangeGolden
<1> QED BY <1>2, <1>3

\* Every variable keeps its type, whatever fails, is killed or rewritten.
THEOREM TypeCorrect == Spec => []TypeOK
<1>1. TypeOK /\ [Next]_vars => TypeOK'
  <2>1. TypeOK /\ UNCHANGED vars => TypeOK'
    BY DEF TypeOK, vars
  <2> QED BY <2>1, ImportTypes, PrepareTypes, ChangeTypes DEF Next
<1> QED BY <1>1, InitialTypes, PTL DEF Spec

------------------------------------------------------------------------------
(* The golden set: whole, remembered, and of versions made so far. *)

GoldenKnown ==
  golden.by # None => /\ Complete(golden.disks)
                      /\ golden.disks \in seen
                      /\ \A d \in Disks : golden.disks[d] <= changes
Copied ==
  /\ \A d \in Disks : staging[d] <= changes
  /\ \A i \in Importers, d \in Disks : import[i].disks[d] # None => import[i].disks[d] <= changes
GInv == TypeOK /\ GoldenKnown /\ Copied

LEMMA InitialGolden == Init => GInv
<1> SUFFICES ASSUME Init PROVE GoldenKnown /\ Copied
  BY InitialTypes DEF GInv
<1> QED BY DEF Init, GoldenKnown, Copied, Absent, Nothing

\* Nothing but an import or an operator touches the golden set, and neither makes a
\* version older than the ones there are.
LEMMA ImportGolden ==
  ASSUME GInv, TypeOK', NEW i \in Importers,
         \/ ImportBegin(i) \/ ImportPublish(i) \/ ImportEnds(i) \/ \E d \in Disks : ImportCopy(i, d)
  PROVE  GInv'
<1> USE DEF GInv
<1>1. CASE ImportBegin(i)
  <2>1. \A j \in Importers : import'[j].disks = import[j].disks
    BY <1>1 DEF ImportBegin, TypeOK, Imports
  <2> QED BY <1>1, <2>1 DEF ImportBegin, GoldenKnown, Copied, Complete
<1>2. CASE ImportPublish(i)
  <2>1. \A j \in Importers : import'[j].disks = import[j].disks
    BY <1>2 DEF ImportPublish, TypeOK, Imports
  <2>2. golden'.disks = import[i].disks /\ Complete(golden'.disks) /\ golden'.disks \in seen'
    BY <1>2 DEF ImportPublish, Imported
  <2>3. \A d \in Disks : golden'.disks[d] <= changes
    BY <2>2 DEF Copied, Complete
  <2> QED BY <1>2, <2>1, <2>2, <2>3 DEF ImportPublish, GoldenKnown, Copied, Complete
<1>3. CASE ImportEnds(i)
  <2>1. \A j \in Importers : import'[j].disks = import[j].disks
    BY <1>3 DEF ImportEnds, TypeOK, Imports
  <2> QED BY <1>3, <2>1 DEF ImportEnds, GoldenKnown, Copied, Complete
<1>4. ASSUME NEW d \in Disks, ImportCopy(i, d) PROVE GInv'
  <2>1. \A j \in Importers, e \in Disks :
          import'[j].disks[e] = IF j = i /\ e = d THEN staging[d] ELSE import[j].disks[e]
    <3> DEFINE copied == [import[i].disks EXCEPT ![d] = staging[d]]
    <3>1. \A e \in Disks : copied[e] = IF e = d THEN staging[d] ELSE import[i].disks[e]
      BY DEF TypeOK, Imports, DiskSets
    <3> HIDE DEF copied
    <3>2. import' = [import EXCEPT ![i] = [import[i] EXCEPT !.disks = copied]]
      BY <1>4 DEF ImportCopy, copied
    <3>3. \A j \in Importers : import'[j].disks = IF j = i THEN copied ELSE import[j].disks
      BY <3>2 DEF TypeOK, Imports
    <3> QED BY <3>1, <3>3
  <2>2. Copied'
    BY <1>4, <2>1 DEF ImportCopy, Copied
  <2> QED BY <1>4, <2>2 DEF ImportCopy, GoldenKnown, Complete
<1> QED BY <1>1, <1>2, <1>3, <1>4

LEMMA GoldenGrows ==
  ASSUME GInv, TypeOK', NEW d \in Disks, ChangeGolden(d)
  PROVE  /\ golden'.by = golden.by
         /\ \A e \in Disks : golden'.disks[e] = IF e = d THEN changes + 1 ELSE golden.disks[e]
         /\ \A e \in Disks : golden.disks[e] \in Nat /\ golden'.disks[e] \in Nat
         /\ \A e \in Disks : golden.disks[e] <= golden'.disks[e]
<1> DEFINE disks == [golden.disks EXCEPT ![d] = changes + 1]
<1>1. \A e \in Disks : disks[e] = IF e = d THEN changes + 1 ELSE golden.disks[e]
  BY DEF GInv, TypeOK, DiskSets
<1> HIDE DEF disks
<1>2. golden' = [golden EXCEPT !.disks = disks]
  BY DEF ChangeGolden, disks
<1>3. golden'.by = golden.by /\ golden'.disks = disks
  BY <1>2 DEF GInv, TypeOK
<1>4. \A e \in Disks : golden.disks[e] \in Nat /\ golden.disks[e] <= changes
  BY MaxChangesAssumption DEF GInv, TypeOK, GoldenKnown, ChangeGolden, Complete, DiskSets, Versions
<1>5. changes \in Nat
  BY MaxChangesAssumption DEF GInv, TypeOK, Versions
<1> QED BY <1>1, <1>3, <1>4, <1>5

LEMMA ChangeGoldenKept ==
  ASSUME GInv, TypeOK', NEW d \in Disks, ChangeStaging(d) \/ ChangeGolden(d)
  PROVE  GInv'
<1> USE DEF GInv
<1>1. changes \in Nat /\ changes' = changes + 1
  BY MaxChangesAssumption DEF TypeOK, Versions, ChangeStaging, ChangeGolden
<1>2. \A i \in Importers, e \in Disks : import[i].disks[e] # None => import[i].disks[e] \in Nat
  BY MaxChangesAssumption DEF TypeOK, Imports, DiskSets, Versions
<1>3. \A e \in Disks : staging[e] \in Nat
  BY MaxChangesAssumption DEF TypeOK, Versions
<1>4. golden.by # None => \A e \in Disks : golden.disks[e] \in Nat
  BY MaxChangesAssumption DEF TypeOK, GoldenKnown, Complete, DiskSets, Versions
<1>5. CASE ChangeStaging(d)
  <2>1. \A e \in Disks : staging'[e] <= changes'
    BY <1>1, <1>3, <1>5 DEF ChangeStaging, Copied, TypeOK
  <2>2. Copied'
    BY <1>1, <1>2, <1>5, <2>1 DEF ChangeStaging, Copied
  <2>3. GoldenKnown'
    BY <1>1, <1>4, <1>5 DEF ChangeStaging, GoldenKnown, Complete
  <2> QED BY <2>2, <2>3
<1>6. CASE ChangeGolden(d)
  <2>1. Copied'
    BY <1>1, <1>2, <1>3, <1>6 DEF ChangeGolden, Copied
  <2>2. \A e \in Disks : golden'.disks[e] <= changes' /\ golden'.disks[e] \in Nat
    BY <1>1, <1>4, <1>6, GoldenGrows DEF ChangeGolden, GoldenKnown
  <2>3. Complete(golden'.disks)
    BY <2>2, NoneAssumption DEF Complete
  <2>4. golden'.disks \in seen'
    BY <1>6 DEF ChangeGolden
  <2> QED BY <2>1, <2>2, <2>3, <2>4 DEF GoldenKnown, Complete
<1> QED BY <1>5, <1>6

LEMMA PrepareGolden ==
  ASSUME GInv, TypeOK', UNCHANGED <<changes, staging, golden, seen, import>>
  PROVE  GInv'
BY DEF GInv, GoldenKnown, Copied, Complete

LEMMA PrepareLeaves ==
  ASSUME NEW p \in Preparers,
         \/ PrepareCopy(p) \/ PrepareRehash(p) \/ PreparePublish(p) \/ PrepareEnds(p)
         \/ \E s \in Sessions : PrepareBegin(p, s)
         \/ \E d \in Disks : PrepareRead(p, d)
  PROVE  UNCHANGED <<changes, staging, golden, seen, import>>
BY DEF PrepareCopy, PrepareRehash, PreparePublish, PrepareEnds, PrepareBegin, PrepareRead

LEMMA GoldenStep == GInv /\ TypeOK' /\ [Next]_vars => GInv'
<1>1. GInv /\ TypeOK' /\ UNCHANGED vars => GInv'
  BY PrepareGolden DEF vars
<1> QED BY <1>1, ImportGolden, ChangeGoldenKept, PrepareGolden, PrepareLeaves DEF Next

LEMMA GoldenInvariant == Spec => []GInv
BY InitialGolden, GoldenStep, TypeCorrect, PTL DEF Spec

\* A golden set is whole from the moment it is published, whatever fails or is killed.
THEOREM GoldenSetIsWhole == Spec => []GoldenIsWhole
<1>1. GInv => GoldenIsWhole
  BY DEF GInv, GoldenKnown, GoldenIsWhole
<1> QED BY <1>1, GoldenInvariant, PTL

------------------------------------------------------------------------------
(* What is published is not published again. *)

LEMMA PublishedStep ==
  ASSUME TypeOK, [Next]_vars
  PROVE  /\ golden.by # None => golden'.by = golden.by
         /\ \A s \in Sessions : workspace[s].by # None => workspace'[s] = workspace[s]
<1> USE DEF TypeOK
<1>1. ASSUME NEW i \in Importers,
             \/ ImportBegin(i) \/ ImportPublish(i) \/ ImportEnds(i) \/ \E d \in Disks : ImportCopy(i, d)
      PROVE  (golden.by # None => golden'.by = golden.by) /\ workspace' = workspace
  BY <1>1 DEF ImportBegin, ImportPublish, Imported, ImportEnds, ImportCopy
<1>2. ASSUME NEW p \in Preparers, PreparePublish(p)
      PROVE  /\ golden' = golden
             /\ \A s \in Sessions : workspace[s].by # None => workspace'[s] = workspace[s]
  BY <1>2 DEF PreparePublish, Vacant
<1>3. ASSUME NEW p \in Preparers,
             \/ PrepareCopy(p) \/ PrepareRehash(p) \/ PrepareEnds(p)
             \/ \E s \in Sessions : PrepareBegin(p, s)
             \/ \E d \in Disks : PrepareRead(p, d)
      PROVE  golden' = golden /\ workspace' = workspace
  BY <1>3 DEF PrepareCopy, PrepareRehash, PrepareEnds, PrepareBegin, PrepareRead
<1>4. ASSUME NEW d \in Disks, ChangeStaging(d) \/ ChangeGolden(d)
      PROVE  golden'.by = golden.by /\ workspace' = workspace
  BY <1>4 DEF ChangeStaging, ChangeGolden
<1>5. CASE UNCHANGED vars
  BY <1>5 DEF vars
<1> QED BY <1>1, <1>2, <1>3, <1>4, <1>5 DEF Next

\* Of two imports, or two preparations of one session, that both found nothing there,
\* the later never replaces what the first has published.
THEOREM PublishedSetsStay == Spec => PublishedOnce
<1>1. TypeOK /\ [Next]_vars =>
        [/\ golden.by # None => golden'.by = golden.by
         /\ \A s \in Sessions : workspace[s].by # None => workspace'[s] = workspace[s]]_vars
  BY PublishedStep
<1> QED BY <1>1, TypeCorrect, PTL DEF Spec, PublishedOnce

------------------------------------------------------------------------------
(* A session is the copy of one golden set. *)

\* set, which once stood, is between what p has hashed first and what it has copied,
\* and that is not newer than the golden set is now.
Before(p, set) ==
  \A d \in Disks : /\ prepare[p].read["before"][d] \in Nat /\ set[d] \in Nat
                   /\ prepare[p].read["before"][d] <= set[d] /\ set[d] <= golden.disks[d]
CopiedSince(p, set) ==
  \A d \in Disks : LET copy == prepare[p].read["copy"][d]
                   IN  copy # None => copy \in Nat /\ set[d] <= copy /\ copy <= golden.disks[d]
HashedSince(p) ==
  \A d \in Disks : LET after == prepare[p].read["after"][d]
                   IN  after # None => /\ after \in Nat
                                       /\ prepare[p].read["copy"][d] \in Nat
                                       /\ prepare[p].read["copy"][d] <= after
                                       /\ after <= golden.disks[d]

Reading(p) ==
  /\ prepare[p].pc = "idle" => prepare[p].read = Idle.read
  /\ prepare[p].pc \in Phases => golden.by # None
  /\ prepare[p].pc = "before" =>
       /\ \A d \in Disks : prepare[p].read["before"][d] # None =>
            /\ prepare[p].read["before"][d] \in Nat
            /\ prepare[p].read["before"][d] <= golden.disks[d]
       /\ prepare[p].read["copy"] = Nothing
  /\ prepare[p].pc \in {"before", "copy"} => prepare[p].read["after"] = Nothing
  /\ prepare[p].pc = "after" => Complete(prepare[p].read["copy"]) /\ HashedSince(p)
  /\ prepare[p].pc \in {"copy", "after"} => \E set \in seen : Before(p, set) /\ CopiedSince(p, set)

Readings == \A p \in Preparers : Reading(p)
SInv == GInv /\ Readings /\ SessionIsOneGolden

LEMMA InitialReadings == Init => Readings /\ SessionIsOneGolden
BY NoneAssumption DEF Init, Readings, Reading, SessionIsOneGolden, Idle, Absent

LEMMA GoldenNumbers == GInv /\ golden.by # None => \A d \in Disks : golden.disks[d] \in Nat
BY MaxChangesAssumption DEF GInv, TypeOK, GoldenKnown, Complete, DiskSets, Versions

\* What others do leaves a preparation as it is: the golden set and seen only grow.
LEMMA OthersKeepReading ==
  ASSUME GInv, NEW p \in Preparers, Reading(p), prepare'[p] = prepare[p],
         golden.by # None => golden'.by # None,
         golden.by # None => \A d \in Disks : /\ golden'.disks[d] \in Nat
                                              /\ golden.disks[d] <= golden'.disks[d],
         seen \subseteq seen'
  PROVE  Reading(p)'
<1>1. golden.by # None => \A d \in Disks : golden.disks[d] \in Nat
  BY GoldenNumbers
<1>2. prepare[p].pc = "before" =>
        \A d \in Disks : prepare'[p].read["before"][d] # None =>
          prepare'[p].read["before"][d] \in Nat /\ prepare'[p].read["before"][d] <= golden'.disks[d]
  BY <1>1 DEF Reading
<1>3. HashedSince(p) /\ golden.by # None => HashedSince(p)'
  BY <1>1 DEF HashedSince
<1>4. ASSUME NEW set, Before(p, set), CopiedSince(p, set), golden.by # None
      PROVE  Before(p, set)' /\ CopiedSince(p, set)'
  BY <1>1, <1>4 DEF Before, CopiedSince
<1>5. prepare[p].pc \in {"copy", "after"} => \E set \in seen' : Before(p, set)' /\ CopiedSince(p, set)'
  BY <1>4 DEF Reading
<1> QED BY <1>2, <1>3, <1>5 DEF Reading, Complete

LEMMA BeginReading ==
  ASSUME SInv, TypeOK', NEW p \in Preparers, NEW s \in Sessions, PrepareBegin(p, s)
  PROVE  Reading(p)'
<1>1. prepare'[p].pc = "before" /\ prepare'[p].read = Idle.read /\ golden' = golden
  BY DEF SInv, GInv, Readings, Reading, TypeOK, Preparations, PrepareBegin
<1>2. \A phase \in Phases : Idle.read[phase] = Nothing
  BY DEF Idle
<1> QED BY <1>1, <1>2 DEF PrepareBegin, Reading, Nothing

LEMMA ReadReading ==
  ASSUME SInv, TypeOK', NEW p \in Preparers, NEW d \in Disks, PrepareRead(p, d)
  PROVE  Reading(p)'
<1> DEFINE phase == prepare[p].pc
           disks == [prepare[p].read[phase] EXCEPT ![d] = golden.disks[d]]
<1>1. /\ phase \in Phases /\ golden.by # None /\ golden' = golden /\ seen' = seen
      /\ prepare[p].read[phase][d] = None
  BY DEF SInv, Readings, Reading, PrepareRead
<1>2. prepare[p].read \in [Phases -> DiskSets] /\ prepare[p] \in Preparations
  BY DEF SInv, GInv, TypeOK, Preparations
<1>3. \A e \in Disks : disks[e] = IF e = d THEN golden.disks[d] ELSE prepare[p].read[phase][e]
  BY <1>1, <1>2 DEF DiskSets
<1>4. /\ prepare'[p].pc = phase
      /\ \A q \in Phases : prepare'[p].read[q] = IF q = phase THEN disks ELSE prepare[p].read[q]
  <2> HIDE DEF disks
  <2>1. Read(p, d) = [prepare[p].read EXCEPT ![phase] = disks]
    BY DEF Read, disks
  <2>2. prepare'[p] = [prepare[p] EXCEPT !.read = Read(p, d)]
    BY DEF PrepareRead, SInv, GInv, TypeOK
  <2> QED BY <1>1, <1>2, <2>1, <2>2 DEF Preparations
<1>5. \A e \in Disks : golden.disks[e] \in Nat
  BY <1>1, GoldenNumbers DEF SInv
<1>6. Reading(p)
  BY DEF SInv, Readings
<1> HIDE DEF disks, phase
<1>7. CASE phase = "before"
  <2>1. prepare'[p].read["before"] = disks /\ prepare'[p].read["copy"] = Nothing
        /\ prepare'[p].read["after"] = Nothing
    BY <1>4, <1>6, <1>7 DEF Reading, phase
  <2>2. \A e \in Disks : disks[e] # None => disks[e] \in Nat /\ disks[e] <= golden.disks[e]
    BY <1>3, <1>5, <1>6, <1>7 DEF Reading, phase
  <2> QED BY <1>1, <1>4, <1>7, <2>1, <2>2 DEF Reading
<1>8. CASE phase = "copy"
  <2>1. prepare'[p].read["before"] = prepare[p].read["before"] /\ prepare'[p].read["copy"] = disks
        /\ prepare'[p].read["after"] = Nothing
    BY <1>4, <1>6, <1>8 DEF Reading, phase
  <2>2. PICK set \in seen : Before(p, set) /\ CopiedSince(p, set)
    BY <1>6, <1>8 DEF Reading, phase
  <2>3. Before(p, set)'
    BY <1>1, <2>1, <2>2 DEF Before
  <2>4. CopiedSince(p, set)'
    BY <1>1, <1>3, <1>5, <1>8, <2>1, <2>2 DEF Before, CopiedSince
  <2> QED BY <1>1, <1>4, <1>8, <2>1, <2>3, <2>4 DEF Reading
<1>9. CASE phase = "after"
  <2>1. prepare'[p].read["before"] = prepare[p].read["before"] /\ prepare'[p].read["after"] = disks
        /\ prepare'[p].read["copy"] = prepare[p].read["copy"]
    BY <1>4, <1>9
  <2>2. PICK set \in seen : Before(p, set) /\ CopiedSince(p, set)
    BY <1>6, <1>9 DEF Reading, phase
  <2>3. Before(p, set)' /\ CopiedSince(p, set)'
    BY <1>1, <2>1, <2>2 DEF Before, CopiedSince
  <2>4. Complete(prepare[p].read["copy"]) /\ HashedSince(p)
    BY <1>6, <1>9 DEF Reading, phase
  <2>5. \A e \in Disks : prepare[p].read["copy"][e] \in Nat /\ prepare[p].read["copy"][e] <= golden.disks[e]
    BY <2>2, <2>4 DEF CopiedSince, Complete
  <2>6. HashedSince(p)'
    BY <1>1, <1>3, <1>5, <1>9, <2>1, <2>4, <2>5 DEF HashedSince
  <2>7. Complete(prepare'[p].read["copy"])
    BY <2>1, <2>4
  <2> QED BY <1>1, <1>4, <1>9, <2>3, <2>6, <2>7 DEF Reading, Complete
<1> QED BY <1>1, <1>7, <1>8, <1>9

\* The golden set of the moment when the hashes are complete is the one that is copied.
LEMMA CopyReading ==
  ASSUME SInv, TypeOK', NEW p \in Preparers, PrepareCopy(p)
  PROVE  Reading(p)'
<1>1. /\ prepare'[p].pc = "copy" /\ prepare'[p].read = prepare[p].read
      /\ golden' = golden /\ seen' = seen
  BY DEF SInv, GInv, TypeOK, Preparations, PrepareCopy
<1>2. /\ golden.by # None /\ prepare[p].read["copy"] = Nothing /\ prepare[p].read["after"] = Nothing
      /\ \A d \in Disks : /\ prepare[p].read["before"][d] \in Nat
                          /\ prepare[p].read["before"][d] <= golden.disks[d]
  BY DEF SInv, Readings, Reading, PrepareCopy, Complete
<1>3. golden.disks \in seen /\ \A d \in Disks : golden.disks[d] \in Nat
  BY <1>2, GoldenNumbers DEF SInv, GInv, GoldenKnown
<1>4. Before(p, golden.disks)'
  BY <1>1, <1>2, <1>3 DEF Before
<1>5. \A set : CopiedSince(p, set)'
  BY <1>1, <1>2 DEF CopiedSince, Nothing
<1>6. \E set \in seen' : Before(p, set)' /\ CopiedSince(p, set)'
  BY <1>1, <1>3, <1>4, <1>5 DEF Before
<1> QED BY <1>1, <1>2, <1>6 DEF Reading

LEMMA RehashReading ==
  ASSUME SInv, TypeOK', NEW p \in Preparers, PrepareRehash(p)
  PROVE  Reading(p)'
<1>1. /\ prepare'[p].pc = "after" /\ prepare'[p].read = prepare[p].read
      /\ golden' = golden /\ seen' = seen
  BY DEF SInv, GInv, TypeOK, Preparations, PrepareRehash
<1>2. /\ golden.by # None /\ prepare[p].read["after"] = Nothing /\ Complete(prepare[p].read["copy"])
      /\ \E set \in seen : Before(p, set) /\ CopiedSince(p, set)
  BY DEF SInv, Readings, Reading, PrepareRehash
<1>3. HashedSince(p)'
  BY <1>1, <1>2 DEF HashedSince, Nothing
<1>4. \E set \in seen' : Before(p, set)' /\ CopiedSince(p, set)'
  BY <1>1, <1>2 DEF Before, CopiedSince
<1> QED BY <1>1, <1>2, <1>3, <1>4 DEF Reading, Complete

\* Equal hashes before and after leave room for one set only: the one copied.
LEMMA PublishReading ==
  ASSUME SInv, TypeOK', NEW p \in Preparers, PreparePublish(p)
  PROVE  prepare[p].read["copy"] \in seen
<1>1. /\ Complete(prepare[p].read["copy"]) /\ HashedSince(p) /\ Complete(prepare[p].read["after"])
      /\ prepare[p].read["before"] = prepare[p].read["after"]
  BY DEF SInv, Readings, Reading, PreparePublish, Untouched
<1>2. PICK set \in seen : Before(p, set) /\ CopiedSince(p, set)
  BY DEF SInv, Readings, Reading, PreparePublish
<1>3. \A d \in Disks : prepare[p].read["copy"][d] = set[d]
  BY <1>1, <1>2 DEF HashedSince, Complete, Before, CopiedSince
<1>4. prepare[p].read["copy"] \in DiskSets /\ set \in DiskSets
  BY <1>2 DEF SInv, GInv, TypeOK, Preparations
<1>5. prepare[p].read["copy"] = set
  BY <1>3, <1>4 DEF DiskSets
<1> QED BY <1>2, <1>5

LEMMA OverReading ==
  ASSUME NEW p \in Preparers, prepare'[p] = [Idle EXCEPT !.pc = "over"]
  PROVE  Reading(p)'
BY DEF Reading, Idle

LEMMA PreparesKeepSessions ==
  ASSUME SInv, TypeOK', NEW p \in Preparers,
         \/ PrepareCopy(p) \/ PrepareRehash(p) \/ PreparePublish(p) \/ PrepareEnds(p)
         \/ \E s \in Sessions : PrepareBegin(p, s)
         \/ \E d \in Disks : PrepareRead(p, d)
  PROVE  Readings' /\ SessionIsOneGolden'
<1>1. golden' = golden /\ seen' = seen
  BY PrepareLeaves
<1>2. \A q \in Preparers : q # p => prepare'[q] = prepare[q]
  BY DEF SInv, GInv, TypeOK, PrepareCopy, PrepareRehash, PreparePublish, PrepareEnds, PrepareBegin, PrepareRead
<1>3. \A q \in Preparers : q # p => Reading(q)'
  <2>1. golden.by # None => \A d \in Disks : golden'.disks[d] \in Nat /\ golden.disks[d] <= golden'.disks[d]
    BY <1>1, GoldenNumbers DEF SInv
  <2> QED BY <1>1, <1>2, <2>1, OthersKeepReading DEF SInv, Readings
<1>4. Reading(p)'
  <2>1. PreparePublish(p) \/ PrepareEnds(p) => prepare'[p] = [Idle EXCEPT !.pc = "over"]
    BY DEF SInv, GInv, TypeOK, PreparePublish, PrepareEnds
  <2> QED BY <2>1, OverReading, CopyReading, RehashReading, BeginReading, ReadReading
<1>5. SessionIsOneGolden'
  <2>1. CASE PreparePublish(p)
    <3>1. \A s \in Sessions : \/ workspace'[s] = workspace[s]
                              \/ workspace'[s].disks = prepare[p].read["copy"]
      BY <2>1 DEF SInv, GInv, TypeOK, PreparePublish
    <3> QED BY <1>1, <2>1, <3>1, PublishReading DEF SInv, SessionIsOneGolden
  <2>2. CASE ~PreparePublish(p)
    <3>1. workspace' = workspace
      BY <2>2 DEF PrepareCopy, PrepareRehash, PrepareEnds, PrepareBegin, PrepareRead
    <3> QED BY <1>1, <3>1 DEF SInv, SessionIsOneGolden
  <2> QED BY <2>1, <2>2
<1> QED BY <1>3, <1>4, <1>5 DEF Readings

LEMMA OthersKeepSessions ==
  ASSUME SInv, UNCHANGED <<prepare, workspace>>, seen \subseteq seen',
         golden.by # None => golden'.by # None,
         golden.by # None => \A d \in Disks : /\ golden'.disks[d] \in Nat
                                              /\ golden.disks[d] <= golden'.disks[d]
  PROVE  Readings' /\ SessionIsOneGolden'
<1>1. Readings'
  BY OthersKeepReading DEF SInv, Readings
<1> QED BY <1>1 DEF SInv, SessionIsOneGolden

LEMMA SessionsStep == SInv /\ TypeOK' /\ [Next]_vars => SInv'
<1> SUFFICES ASSUME SInv, TypeOK', [Next]_vars PROVE Readings' /\ SessionIsOneGolden'
  BY GoldenStep DEF SInv
<1>1. ASSUME golden' = golden
      PROVE  golden.by # None => \A d \in Disks : golden'.disks[d] \in Nat /\ golden.disks[d] <= golden'.disks[d]
  BY <1>1, GoldenNumbers DEF SInv
<1>2. ASSUME NEW i \in Importers,
             \/ ImportBegin(i) \/ ImportPublish(i) \/ ImportEnds(i) \/ \E d \in Disks : ImportCopy(i, d)
      PROVE  Readings' /\ SessionIsOneGolden'
  <2>1. /\ UNCHANGED <<prepare, workspace>> /\ seen \subseteq seen'
        /\ golden.by # None => golden' = golden
    BY <1>2 DEF ImportBegin, ImportPublish, Imported, ImportEnds, ImportCopy
  <2> QED BY <1>1, <2>1, OthersKeepSessions
<1>3. ASSUME NEW d \in Disks, ChangeStaging(d)
      PROVE  Readings' /\ SessionIsOneGolden'
  BY <1>1, <1>3, OthersKeepSessions DEF ChangeStaging
<1>4. ASSUME NEW d \in Disks, ChangeGolden(d)
      PROVE  Readings' /\ SessionIsOneGolden'
  <2>1. UNCHANGED <<prepare, workspace>> /\ seen \subseteq seen'
    BY <1>4 DEF ChangeGolden
  <2> QED BY <1>4, <2>1, GoldenGrows, OthersKeepSessions DEF SInv
<1>5. CASE UNCHANGED vars
  BY <1>1, <1>5, OthersKeepSessions DEF vars
<1> QED BY <1>2, <1>3, <1>4, <1>5, PreparesKeepSessions DEF Next

\* A workspace is the copy of a golden set that stood as a whole at one moment, however
\* the goldens are rewritten under the copy.
THEOREM SessionsAreWhole == Spec => []SessionIsOneGolden
<1>1. Init => SInv
  BY InitialGolden, InitialReadings DEF SInv
<1>2. SInv => SessionIsOneGolden
  BY DEF SInv
<1> QED BY <1>1, <1>2, SessionsStep, TypeCorrect, PTL DEF Spec
==============================================================================
