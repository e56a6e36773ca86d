----------------------------- MODULE Preservation -----------------------------
(***************************************************************************)
(* Golden disks and session workspaces (scripts/utmlib.py): import_golden  *)
(* publishes a set of disks once, prepare_session copies a published set   *)
(* into a workspace.  Both build a transaction directory of their own and  *)
(* rename it into place; any of them may fail or be killed at any step,    *)
(* while an operator rewrites the staging directory or the goldens.  What  *)
(* a disk holds is a version number, and its hash tells versions apart.    *)
(***************************************************************************)
EXTENDS Naturals, FiniteSets

CONSTANTS
  Disks,       \* the disk set of the system's manifest
  Importers,   \* `utm golden import` commands
  Preparers,   \* processes in prepare_session: broker requests and the M1 CLI
  Sessions,    \* session ids
  MaxChanges,  \* bound: how often an operator rewrites a disk
  None

ASSUME DisksAssumption == Disks # {} /\ IsFiniteSet(Disks)
ASSUME MaxChangesAssumption == MaxChanges \in Nat
ASSUME NoneAssumption == None \notin Importers \cup Preparers /\ None \notin Nat

Versions == 0..MaxChanges
Phases == {"before", "copy", "after"}

VARIABLES
  changes,    \* versions made so far; a rewrite never brings an old one back
  staging,    \* disk -> version in the staging directory
  golden,     \* the published set: who imported it, and its disks
  seen,       \* history: every published set there has ever been
  workspace,  \* session -> the published workspace: who prepared it, its disks
  import,     \* importer -> where it is, and the disks in its transaction
  prepare     \* preparer -> where it is, for which session, and what it has read

vars == <<changes, staging, golden, seen, workspace, import, prepare>>

Nothing == [d \in Disks |-> None]
Complete(disks) == \A d \in Disks : disks[d] # None
Absent == [by |-> None, disks |-> Nothing]

\* Faults: operators named Faulty... are plausible bugs, used by no action; a run
\* with one in place of the definition that follows it breaks a property.
FaultyIdle == [pc |-> "idle", session |-> None, read |-> Nothing]  \* one set of hashes only
Idle == [pc |-> "idle", session |-> None, read |-> [phase \in Phases |-> Nothing]]

DiskSets == [Disks -> Versions \cup {None}]  \* None: not there yet
Imports == [pc : {"idle", "copy", "over"}, disks : DiskSets]
Preparations == [pc : Phases \cup {"idle", "over"}, session : Sessions \cup {None},
                 read : [Phases -> DiskSets]]

TypeOK ==
  /\ changes \in Versions
  /\ staging \in [Disks -> Versions]
  /\ golden \in [by : Importers \cup {None}, disks : DiskSets]
  /\ seen \subseteq DiskSets
  /\ workspace \in [Sessions -> [by : Preparers \cup {None}, disks : DiskSets]]
  /\ import \in [Importers -> Imports]
  /\ prepare \in [Preparers -> Preparations]

Init ==
  /\ changes = 0
  /\ staging = [d \in Disks |-> 0]
  /\ golden = Absent
  /\ seen = {}
  /\ workspace = [s \in Sessions |-> Absent]
  /\ import = [i \in Importers |-> [pc |-> "idle", disks |-> Nothing]]
  /\ prepare = [p \in Preparers |-> Idle]

------------------------------------------------------------------------------
(* import_golden. *)

\* The destination holds nothing yet, and the transaction directory is made.
ImportBegin(i) ==
  /\ import[i].pc = "idle"
  /\ golden.by = None
  /\ import' = [import EXCEPT ![i] = [@ EXCEPT !.pc = "copy"]]
  /\ UNCHANGED <<changes, staging, golden, seen, workspace, prepare>>

ImportCopy(i, d) ==
  /\ import[i].pc = "copy"
  /\ import[i].disks[d] = None
  /\ import' = [import EXCEPT ![i] = [@ EXCEPT !.disks = [import[i].disks EXCEPT ![d] = staging[d]]]]
  /\ UNCHANGED <<changes, staging, golden, seen, workspace, prepare>>

FaultyImported(i) == golden.by = None  \* published disk by disk
FaultyReplacing(i) == Complete(import[i].disks)  \* an existing set is replaced

\* The set is whole, and neither rmdir nor the rename finds a published one.
Imported(i) == Complete(import[i].disks) /\ golden.by = None

ImportPublish(i) ==
  /\ import[i].pc = "copy"
  /\ Imported(i)
  /\ golden' = [by |-> i, disks |-> import[i].disks]
  /\ seen' = seen \cup {import[i].disks}
  /\ import' = [import EXCEPT ![i] = [@ EXCEPT !.pc = "over"]]
  /\ UNCHANGED <<changes, staging, workspace, prepare>>

\* Anything raised removes the transaction; a kill leaves it where it is.
ImportEnds(i) ==
  /\ import[i].pc = "copy"
  /\ import' = [import EXCEPT ![i] = [@ EXCEPT !.pc = "over"]]
  /\ UNCHANGED <<changes, staging, golden, seen, workspace, prepare>>

------------------------------------------------------------------------------
(* prepare_session. *)

PrepareBegin(p, s) ==
  /\ prepare[p].pc = "idle"
  /\ golden.by # None
  /\ prepare' = [prepare EXCEPT ![p] = [@ EXCEPT !.pc = "before", !.session = s]]
  /\ UNCHANGED <<changes, staging, golden, seen, workspace, import>>

Read(p, d) ==
  [prepare[p].read EXCEPT ![prepare[p].pc] =
     [prepare[p].read[prepare[p].pc] EXCEPT ![d] = golden.disks[d]]]

\* One golden disk is hashed, copied or hashed again.
PrepareRead(p, d) ==
  /\ prepare[p].pc \in Phases
  /\ prepare[p].read[prepare[p].pc][d] = None
  /\ prepare' = [prepare EXCEPT ![p] = [@ EXCEPT !.read = Read(p, d)]]
  /\ UNCHANGED <<changes, staging, golden, seen, workspace, import>>

\* All disks are hashed and no workspace stands: the transaction is made.
PrepareCopy(p) ==
  /\ prepare[p].pc = "before"
  /\ Complete(prepare[p].read["before"])
  /\ workspace[prepare[p].session].by = None
  /\ prepare' = [prepare EXCEPT ![p] = [@ EXCEPT !.pc = "copy"]]
  /\ UNCHANGED <<changes, staging, golden, seen, workspace, import>>

PrepareRehash(p) ==
  /\ prepare[p].pc = "copy"
  /\ Complete(prepare[p].read["copy"])
  /\ prepare' = [prepare EXCEPT ![p] = [@ EXCEPT !.pc = "after"]]
  /\ UNCHANGED <<changes, staging, golden, seen, workspace, import>>

FaultyUntouched(p) ==  \* the golden is hashed once, before the copy
  Complete(prepare[p].read["after"])
FaultyVacant(p) == TRUE  \* the copy is moved over what stands there

\* The second hashes equal the first.
Untouched(p) ==
  Complete(prepare[p].read["after"]) /\ prepare[p].read["before"] = prepare[p].read["after"]

\* The rename fails over a workspace published meanwhile.
Vacant(p) == workspace[prepare[p].session].by = None

PreparePublish(p) ==
  /\ prepare[p].pc = "after"
  /\ Untouched(p)
  /\ Vacant(p)
  /\ workspace' = [workspace EXCEPT ![prepare[p].session] =
                     [by |-> p, disks |-> prepare[p].read["copy"]]]
  /\ prepare' = [prepare EXCEPT ![p] = [Idle EXCEPT !.pc = "over"]]
  /\ UNCHANGED <<changes, staging, golden, seen, import>>

\* Anything raised, a changed golden included, or a kill.
PrepareEnds(p) ==
  /\ prepare[p].pc \in Phases
  /\ prepare' = [prepare EXCEPT ![p] = [Idle EXCEPT !.pc = "over"]]
  /\ UNCHANGED <<changes, staging, golden, seen, workspace, import>>

------------------------------------------------------------------------------
(* The operator (external): staging is still written to, goldens are replaced. *)

ChangeStaging(d) ==
  /\ changes < MaxChanges
  /\ changes' = changes + 1
  /\ staging' = [staging EXCEPT ![d] = changes + 1]
  /\ UNCHANGED <<golden, seen, workspace, import, prepare>>

ChangeGolden(d) ==
  /\ golden.by # None
  /\ changes < MaxChanges
  /\ changes' = changes + 1
  /\ golden' = [golden EXCEPT !.disks = [golden.disks EXCEPT ![d] = changes + 1]]
  /\ seen' = seen \cup {golden'.disks}
  /\ UNCHANGED <<staging, workspace, import, prepare>>

Next ==
  \/ \E i \in Importers :
       ImportBegin(i) \/ ImportPublish(i) \/ ImportEnds(i) \/ \E d \in Disks : ImportCopy(i, d)
  \/ \E p \in Preparers :
       \/ PrepareCopy(p) \/ PrepareRehash(p) \/ PreparePublish(p) \/ PrepareEnds(p)
       \/ \E s \in Sessions : PrepareBegin(p, s)
       \/ \E d \in Disks : PrepareRead(p, d)
  \/ \E d \in Disks : ChangeStaging(d) \/ ChangeGolden(d)

Spec == Init /\ [][Next]_vars

------------------------------------------------------------------------------
(* Properties. *)

\* A golden set is whole from the moment it is there, whatever fails or is killed.
GoldenIsWhole == golden.by # None => Complete(golden.disks)

\* A workspace is a copy of a golden set that existed as a whole at one moment: a
\* golden replaced disk by disk during the copy never yields a mixed session.
SessionIsOneGolden == \A s \in Sessions : workspace[s].by # None => workspace[s].disks \in seen

\* What is published stays: of two imports, or two preparations of one session, that
\* both found nothing there, the later does not replace the set that sessions are copied
\* from, or the workspace that a guest may be writing to already.
PublishedOnce ==
  [][/\ golden.by # None => golden'.by = golden.by
     /\ \A s \in Sessions : workspace[s].by # None => workspace'[s] = workspace[s]]_vars
==============================================================================
