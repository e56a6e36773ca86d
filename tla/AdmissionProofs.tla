--------------------------- MODULE AdmissionProofs ---------------------------
(***************************************************************************)
(* Admission, for every number of processes, systems, ids and every limit. *)
(* The argument: whoever holds the lock is the only process between the    *)
(* admission check and the save of the new record, so the room it saw is   *)
(* still there (Room), and no other step adds an occupying record.         *)
(***************************************************************************)
EXTENDS Admission, FiniteSetTheorems, TLAPS

\* The flock: a process is in a locked step exactly when it holds the lock.
LockHeld == \A p \in Procs : pc[p] \in LockedSteps <=> lock = p

\* A process past the choice of its system or id has one.
HasSystem == \A p \in Procs : pc[p] \in RequestSteps \cup {"admit", "number", "duplicate"}
                                => sys[p] \in Systems
HasId == \A p \in Procs : pc[p] \in RequestSteps \cup {"duplicate", "discard", "removed"}
                            => id[p] \in Ids

\* The duplicate check holds until the record is saved.
FreshId == \A p \in Procs : pc[p] = "save" => state[id[p]] = Absent

\* The room seen by the admission check is still there when the record is saved.
Room == \A p \in Procs : pc[p] \in {"number", "duplicate", "save"} =>
          /\ Cardinality(OccupyingIds) < MaxTotal
          /\ Cardinality(OccupyingOf(sys[p])) < Limit[sys[p]]

FinitelyMany == IsFiniteSet(OccupyingIds)

Shape == TypeOK /\ LockHeld /\ HasSystem /\ HasId
IInv == Shape /\ FreshId /\ FinitelyMany /\ Room /\ WithinLimits

\* What the definitions of most actions need.
USE NoneAssumption

------------------------------------------------------------------------------
LEMMA CanMoveStates ==
  ASSUME NEW s, NEW t, CanMove(s, t)
  PROVE  s \in States /\ s # "released" /\ t \in States /\ s # Absent /\ t # Absent
BY DEF CanMove, States, Absent

LEMMA InitShape == Init => Shape
<1> SUFFICES ASSUME Init PROVE Shape OBVIOUS
<1>1. TypeOK
  BY MaxNumberAssumption DEF Init, TypeOK, Steps, LockedSteps
<1>2. LockHeld /\ HasSystem /\ HasId
  BY DEF Init, LockHeld, HasSystem, HasId, RequestSteps, LockedSteps
<1> QED BY <1>1, <1>2 DEF Shape

LEMMA ShapeProcStep ==
  ASSUME Shape, NEW p \in Procs, ProcStep(p)
  PROVE  Shape'
<1> USE CanMoveStates DEF Shape, TypeOK, LockHeld, HasSystem, HasId, files, Steps, LockedSteps,
                          RequestSteps
<1>1. CASE Request(p)
  BY <1>1 DEF Request, Ids, Acquire, Goto
<1>2. CASE Admit(p)
  BY <1>2 DEF Admit, Goto
<1>3. CASE Refuse(p)
  BY <1>3 DEF Refuse, Quit
<1>4. CASE NextId(p)
  BY MaxNumberAssumption, <1>4 DEF NextId, CounterPast, Goto, Generated, Ids
<1>5. CASE CheckDuplicate(p)
  BY <1>5 DEF CheckDuplicate, Goto, Quit
<1>6. CASE SaveRequested(p)
  BY <1>6 DEF SaveRequested, Goto, States
<1>7. CASE SaveAllocated(p)
  BY <1>7 DEF SaveAllocated, Goto, Transition
<1>8. CASE SavePreparing(p)
  BY <1>8 DEF SavePreparing, Goto, Transition
<1>9. CASE Prepare(p)
  BY <1>9 DEF Prepare, Goto
<1>10. CASE Launch(p)
  BY <1>10 DEF Launch, Goto
<1>11. CASE Poll(p)
  BY <1>11 DEF Poll, Goto, Quit
<1>12. CASE Fail(p)
  BY <1>12 DEF Fail, Quit, Transition
<1>13. CASE ReleaseBegin(p)
  BY <1>13 DEF ReleaseBegin, Acquire, Goto, Transition
<1>14. CASE ReleaseRemove(p)
  BY <1>14 DEF ReleaseRemove, Goto
<1>15. CASE ReleaseDone(p)
  BY <1>15 DEF ReleaseDone, Quit, Transition
<1>16. CASE ReleaseFail(p)
  BY <1>16 DEF ReleaseFail, Quit, Transition
<1>17. CASE Crash(p)
  BY <1>17 DEF Crash, Quit
<1> QED
  BY <1>1, <1>2, <1>3, <1>4, <1>5, <1>6, <1>7, <1>8, <1>9, <1>10, <1>11, <1>12, <1>13, <1>14, <1>15, <1>16, <1>17 DEF ProcStep

LEMMA ShapeStep == Shape /\ [Next]_vars => Shape'
<1> SUFFICES ASSUME Shape, [Next]_vars PROVE Shape'
  OBVIOUS
<1> USE CanMoveStates DEF Shape, TypeOK, LockHeld, HasSystem, HasId, files, RequestSteps, LockedSteps
<1>1. CASE \E p \in Procs : ProcStep(p)
  BY <1>1, ShapeProcStep
<1>2. CASE \E j \in Ids : Reconcile(j)
  BY <1>2 DEF Reconcile, Transition, States
<1>3. CASE \E i \in Ids : SupervisorMove(i)
  BY <1>3 DEF SupervisorMove, Transition
<1>4. CASE \E s \in Systems, i \in Ids : ForeignPrepare(s, i)
  BY <1>4 DEF ForeignPrepare
<1>5. CASE UNCHANGED vars
  BY <1>5 DEF vars
<1> QED BY <1>1, <1>2, <1>3, <1>4, <1>5 DEF Next

\* Every variable keeps its type, whatever the processes do.
THEOREM TypeCorrect == Spec => []TypeOK
<1>1. Init => Shape
  BY InitShape
<1>2. Shape /\ [Next]_vars => Shape'
  BY ShapeStep
<1>3. Shape => TypeOK
  BY DEF Shape
<1> QED BY <1>1, <1>2, <1>3, PTL DEF Spec

------------------------------------------------------------------------------
(* Only SaveRequested adds an occupying record. *)

LEMMA NoGain ==
  ASSUME Shape, [Next]_vars, ~\E p \in Procs : SaveRequested(p)
  PROVE  OccupyingIds' \subseteq OccupyingIds /\ owner' = owner
<1> USE CanMoveStates DEF OccupyingIds, Occupying, files
<1>1. CASE \E p \in Procs : ProcStep(p)
  <2> SUFFICES ASSUME NEW p \in Procs, ProcStep(p)
               PROVE  OccupyingIds' \subseteq OccupyingIds /\ owner' = owner
    BY <1>1
  <2>1. CASE Request(p) \/ Admit(p) \/ Refuse(p) \/ NextId(p) \/ CheckDuplicate(p)
    BY <2>1 DEF Request, Admit, Refuse, NextId, CheckDuplicate
  <2>2. CASE SaveAllocated(p) \/ SavePreparing(p)
    BY <2>2 DEF Shape, TypeOK, SaveAllocated, SavePreparing, Transition
  <2>3. CASE Prepare(p) \/ Launch(p) \/ Poll(p) \/ Crash(p) \/ ReleaseRemove(p)
    BY <2>3 DEF Prepare, Launch, Poll, Crash, ReleaseRemove
  <2>4. CASE Fail(p) \/ ReleaseBegin(p) \/ ReleaseDone(p) \/ ReleaseFail(p)
    BY <2>4 DEF Shape, TypeOK, Fail, ReleaseBegin, ReleaseDone, ReleaseFail, Transition
  <2> QED BY <2>1, <2>2, <2>3, <2>4 DEF ProcStep
<1>2. CASE \E j \in Ids : Reconcile(j)
  BY <1>2 DEF Reconcile, Transition
<1>3. CASE \E i \in Ids : SupervisorMove(i)
  BY <1>3 DEF Shape, TypeOK, SupervisorMove, Transition
<1>4. CASE \E s \in Systems, i \in Ids : ForeignPrepare(s, i)
  BY <1>4 DEF ForeignPrepare
<1>5. CASE UNCHANGED vars
  BY <1>5 DEF vars
<1> QED BY <1>1, <1>2, <1>3, <1>4, <1>5 DEF Next

\* Fewer occupying records, fewer of each system.
LEMMA Shrink ==
  ASSUME FinitelyMany, OccupyingIds' \subseteq OccupyingIds, owner' = owner
  PROVE  /\ IsFiniteSet(OccupyingIds')
         /\ Cardinality(OccupyingIds) \in Nat /\ Cardinality(OccupyingIds') \in Nat
         /\ Cardinality(OccupyingIds') <= Cardinality(OccupyingIds)
         /\ \A s : /\ Cardinality(OccupyingOf(s)) \in Nat /\ Cardinality(OccupyingOf(s)') \in Nat
                  /\ Cardinality(OccupyingOf(s)') <= Cardinality(OccupyingOf(s))
<1>1. IsFiniteSet(OccupyingIds') /\ Cardinality(OccupyingIds') <= Cardinality(OccupyingIds)
  BY FS_Subset DEF FinitelyMany
<1>2. ASSUME NEW s
      PROVE  /\ IsFiniteSet(OccupyingOf(s)) /\ IsFiniteSet(OccupyingOf(s)')
             /\ Cardinality(OccupyingOf(s)') <= Cardinality(OccupyingOf(s))
  <2>1. OccupyingOf(s) \subseteq OccupyingIds
    BY DEF OccupyingOf
  <2>2. IsFiniteSet(OccupyingOf(s))
    BY <2>1, FS_Subset DEF FinitelyMany
  <2>3. OccupyingOf(s)' \subseteq OccupyingOf(s)
    BY DEF OccupyingOf
  <2> QED BY <2>2, <2>3, FS_Subset
<1> QED BY <1>1, <1>2, FS_CardinalityType DEF FinitelyMany

\* The new record is the one that is added.
LEMMA Gain ==
  ASSUME Shape, FreshId, FinitelyMany, NEW p \in Procs, SaveRequested(p)
  PROVE  /\ IsFiniteSet(OccupyingIds')
         /\ Cardinality(OccupyingIds') = Cardinality(OccupyingIds) + 1
         /\ Cardinality(OccupyingIds) \in Nat
         /\ \A s : /\ Cardinality(OccupyingOf(s)) \in Nat
                  /\ Cardinality(OccupyingOf(s)')
                       = Cardinality(OccupyingOf(s)) + (IF s = sys[p] THEN 1 ELSE 0)
<1> DEFINE i == id[p]
<1>1. i \in Ids /\ state[i] = Absent /\ i \notin OccupyingIds
  BY DEF Shape, HasId, FreshId, SaveRequested, RequestSteps, OccupyingIds, Occupying, States, Absent
<1>2. state' = [state EXCEPT ![i] = "requested"] /\ owner' = [owner EXCEPT ![i] = sys[p]]
  BY DEF SaveRequested
<1>3. OccupyingIds' = OccupyingIds \cup {i}
  BY <1>1, <1>2 DEF OccupyingIds, Occupying, States, Shape, TypeOK
<1>4. ASSUME NEW s
      PROVE  /\ Cardinality(OccupyingOf(s)) \in Nat
             /\ Cardinality(OccupyingOf(s)')
                  = Cardinality(OccupyingOf(s)) + (IF s = sys[p] THEN 1 ELSE 0)
  <2>1. OccupyingOf(s) \subseteq OccupyingIds /\ i \notin OccupyingOf(s)
    BY <1>1 DEF OccupyingOf
  <2>2. IsFiniteSet(OccupyingOf(s)) /\ Cardinality(OccupyingOf(s)) \in Nat
    BY <2>1, FS_Subset, FS_CardinalityType DEF FinitelyMany
  <2>3. OccupyingOf(s)' = {j \in OccupyingIds \cup {i} : owner'[j] = s}
    BY <1>3 DEF OccupyingOf
  <2>4. owner'[i] = sys[p] /\ \A j \in OccupyingIds : owner'[j] = owner[j]
    BY <1>1, <1>2 DEF OccupyingIds, Shape, TypeOK
  <2>5. CASE s = sys[p]
    <3>1. OccupyingOf(s)' = OccupyingOf(s) \cup {i}
      BY <2>3, <2>4, <2>5 DEF OccupyingOf
    <3> QED BY <3>1, <2>1, <2>2, <2>5, FS_AddElement
  <2>6. CASE s # sys[p]
    <3>1. OccupyingOf(s)' = OccupyingOf(s)
      BY <2>3, <2>4, <2>6 DEF OccupyingOf
    <3> QED BY <3>1, <2>2, <2>6
  <2> QED BY <2>5, <2>6
<1>5. IsFiniteSet(OccupyingIds) /\ Cardinality(OccupyingIds) \in Nat
  BY FS_CardinalityType DEF FinitelyMany
<1>6. IsFiniteSet(OccupyingIds') /\ Cardinality(OccupyingIds') = Cardinality(OccupyingIds) + 1
  BY <1>1, <1>3, <1>5, FS_AddElement
<1> QED BY <1>4, <1>5, <1>6

LEMMA FreshIdStep ==
  ASSUME Shape, FreshId, [Next]_vars
  PROVE  FreshId'
<1> USE CanMoveStates DEF Shape, TypeOK, LockHeld, HasId, FreshId, files, RequestSteps, LockedSteps
<1>1. CASE \E p \in Procs : ProcStep(p)
  <2> SUFFICES ASSUME NEW p \in Procs, ProcStep(p)
               PROVE  FreshId'
    BY <1>1
  <2>1. CASE Request(p) \/ Admit(p) \/ Refuse(p) \/ NextId(p)
    BY <2>1 DEF Request, Admit, Refuse, NextId, Acquire, Goto, Quit
  <2>2. CASE CheckDuplicate(p)
    BY <2>2 DEF CheckDuplicate, Taken, Goto, Quit
  <2>3. CASE SaveRequested(p)
    BY <2>3 DEF SaveRequested, Goto
  <2>4. CASE SaveAllocated(p) \/ SavePreparing(p)
    BY <2>4 DEF SaveAllocated, SavePreparing, Transition, Goto
  <2>5. CASE Prepare(p) \/ Launch(p) \/ Poll(p) \/ Crash(p) \/ ReleaseRemove(p)
    BY <2>5 DEF Prepare, Launch, Poll, Crash, ReleaseRemove, Goto, Quit
  <2>6. CASE Fail(p)
    BY <2>6 DEF Fail, Transition, Quit
  <2>7. CASE ReleaseBegin(p) \/ ReleaseDone(p) \/ ReleaseFail(p)
    BY <2>7 DEF ReleaseBegin, ReleaseDone, ReleaseFail, Transition, Acquire, Goto, Quit
  <2> QED BY <2>1, <2>2, <2>3, <2>4, <2>5, <2>6, <2>7 DEF ProcStep
<1>2. CASE \E j \in Ids : Reconcile(j)
  BY <1>2 DEF Reconcile, Transition, OccupyingIds, Occupying, States, Absent
<1>3. CASE \E i \in Ids : SupervisorMove(i)
  BY <1>3 DEF SupervisorMove, Transition
<1>4. CASE \E s \in Systems, i \in Ids : ForeignPrepare(s, i)
  BY <1>4 DEF ForeignPrepare
<1>5. CASE UNCHANGED vars
  BY <1>5 DEF vars
<1> QED BY <1>1, <1>2, <1>3, <1>4, <1>5 DEF Next

\* A process reaches the steps that rely on the room only through the check, and
\* keeps its system while it is in them.
LEMMA RoomSteps ==
  ASSUME Shape, [Next]_vars, NEW p \in Procs, pc'[p] \in {"number", "duplicate", "save"}
  PROVE  \/ pc[p] \in {"number", "duplicate"} /\ sys'[p] = sys[p] /\ sys[p] \in Systems
         \/ pc[p] = "save" /\ pc'[p] = "save" /\ sys'[p] = sys[p] /\ sys[p] \in Systems
         \/ Admit(p) /\ sys'[p] = sys[p] /\ sys[p] \in Systems
<1> USE DEF Shape, TypeOK, HasSystem, RequestSteps
<1>1. CASE \E q \in Procs : ProcStep(q)
  <2> PICK q \in Procs : ProcStep(q)
    BY <1>1
  <2>1. CASE Admit(q) \/ NextId(q) \/ CheckDuplicate(q) \/ SaveRequested(q)
    BY <2>1 DEF Admit, NextId, CheckDuplicate, SaveRequested, Goto, Quit
  <2>2. CASE Request(q) \/ Refuse(q) \/ SaveAllocated(q) \/ SavePreparing(q)
    BY <2>2 DEF Request, Refuse, SaveAllocated, SavePreparing, Goto, Quit
  <2>3. CASE Prepare(q) \/ Launch(q) \/ Poll(q) \/ Fail(q) \/ Crash(q)
    BY <2>3 DEF Prepare, Launch, Poll, Fail, Crash, Goto, Quit
  <2>4. CASE ReleaseBegin(q) \/ ReleaseRemove(q) \/ ReleaseDone(q) \/ ReleaseFail(q)
    BY <2>4 DEF ReleaseBegin, ReleaseRemove, ReleaseDone, ReleaseFail, Goto, Quit
  <2> QED BY <2>1, <2>2, <2>3, <2>4 DEF ProcStep
<1>2. CASE (\E i \in Ids : Reconcile(i) \/ SupervisorMove(i))
             \/ (\E s \in Systems, i \in Ids : ForeignPrepare(s, i)) \/ UNCHANGED vars
  BY <1>2 DEF Reconcile, SupervisorMove, ForeignPrepare, vars
<1> QED BY <1>1, <1>2 DEF Next

LEMMA AdmissionStep ==
  ASSUME IInv, [Next]_vars
  PROVE  FinitelyMany' /\ Room' /\ WithinLimits'
<1> USE MaxTotalAssumption, LimitAssumption DEF IInv
<1>1. Shape'
  BY ShapeStep
<1>2. CASE \E p \in Procs : SaveRequested(p)
  <2> PICK p \in Procs : SaveRequested(p)
    BY <1>2
  <2>1. sys[p] \in Systems /\ pc[p] = "save" /\ pc' = [pc EXCEPT ![p] = "allocate"]
    BY DEF Shape, HasSystem, RequestSteps, SaveRequested, Goto
  <2>2. Cardinality(OccupyingIds) < MaxTotal /\ Cardinality(OccupyingOf(sys[p])) < Limit[sys[p]]
    BY <2>1 DEF Room
  <2>3. FinitelyMany' /\ WithinLimits'
    BY <2>1, <2>2, Gain DEF WithinLimits, FinitelyMany
  <2>4. Room'
    BY <2>1 DEF Room, Shape, LockHeld, LockedSteps, TypeOK
  <2> QED BY <2>3, <2>4
<1>3. CASE ~\E p \in Procs : SaveRequested(p)
  <2>1. OccupyingIds' \subseteq OccupyingIds /\ owner' = owner
    BY <1>3, NoGain
  <2>2. FinitelyMany' /\ WithinLimits'
    BY <2>1, Shrink DEF WithinLimits, FinitelyMany
  <2>3. ASSUME NEW p \in Procs, pc'[p] \in {"number", "duplicate", "save"}
        PROVE  (Cardinality(OccupyingIds) < MaxTotal /\ Cardinality(OccupyingOf(sys[p])) < Limit[sys[p]])'
    <3> DEFINE s == sys[p]
    <3>1. sys'[p] = s /\ s \in Systems
      BY <2>3, RoomSteps
    <3>2. Cardinality(OccupyingIds) < MaxTotal /\ Cardinality(OccupyingOf(s)) < Limit[s]
      <4>1. CASE pc[p] \in {"number", "duplicate", "save"}
        BY <4>1 DEF Room
      <4>2. CASE Admit(p)
        BY <4>2, <2>1, <3>1, Shrink DEF Admit, Full
      <4> QED BY <4>1, <4>2, <2>3, RoomSteps
    <3>3. PICK r : r = s
      OBVIOUS
    <3>4. Cardinality(OccupyingIds') < MaxTotal /\ Cardinality(OccupyingOf(r)') < Limit[r]
      <4> HIDE DEF s
      <4>1. Limit[r] \in Nat
        BY <3>1, <3>3
      <4> QED BY <3>2, <3>3, <4>1, <2>1, Shrink
    <3>5. OccupyingOf(r)' = OccupyingOf(sys[p])'
      BY <3>1, <3>3 DEF OccupyingOf
    <3> QED BY <3>1, <3>3, <3>4, <3>5
  <2>4. Room'
    BY <2>3 DEF Room
  <2> QED BY <2>2, <2>4
<1> QED BY <1>2, <1>3

LEMMA InitIInv == Init => IInv
<1> SUFFICES ASSUME Init PROVE IInv
  OBVIOUS
<1>1. Shape
  BY InitShape
<1>2. OccupyingIds = {} /\ \A s : OccupyingOf(s) = {}
  BY DEF Init, OccupyingIds, OccupyingOf, Occupying, States, Absent
<1>3. FreshId /\ Room
  BY DEF Init, FreshId, Room
<1>4. FinitelyMany /\ WithinLimits
  BY <1>2, FS_EmptySet, MaxTotalAssumption, LimitAssumption DEF FinitelyMany, WithinLimits
<1> QED BY <1>1, <1>3, <1>4 DEF IInv

LEMMA IInvStep == IInv /\ [Next]_vars => IInv'
BY ShapeStep, FreshIdStep, AdmissionStep DEF IInv

LEMMA Invariance == Spec => []IInv
BY InitIInv, IInvStep, PTL DEF Spec

\* Admission never exceeds max_total_sessions or a system's limit, for any number
\* of concurrent, killed or repeated requests.
THEOREM AdmissionWithinLimits == Spec => []WithinLimits
<1>1. IInv => WithinLimits
  BY DEF IInv
<1> QED BY <1>1, Invariance, PTL

------------------------------------------------------------------------------
(* The records implement the lifecycle. *)

\* Lifecycle counts with the instance's copy of FiniteSets.
LEMMA SameCardinality == \A S : Records!Cardinality(S) = Cardinality(S)
BY DEF Cardinality, Records!Cardinality, IsFiniteSet, Records!IsFiniteSet

LEMMA RecordsStep == IInv /\ [Next]_vars => [Records!Next]_state
<1> SUFFICES ASSUME IInv, [Next]_vars PROVE [Records!Next]_state
  OBVIOUS
<1> USE DEF Shape, TypeOK
<1>1. CASE \E p \in Procs : SaveRequested(p)
  <2> PICK p \in Procs : SaveRequested(p)
    BY <1>1
  <2>1. id[p] \in Ids /\ state[id[p]] = Absent /\ Cardinality(OccupyingIds) < MaxTotal
    BY DEF IInv, HasId, FreshId, Room, SaveRequested, RequestSteps
  <2>2. Records!OccupyingSessions = OccupyingIds
    BY DEF Records!OccupyingSessions, OccupyingIds, Records!Occupying, Occupying, Records!States, States
  <2>3. Records!Admit(id[p])
    BY <2>1, <2>2, SameCardinality DEF SaveRequested, Records!Admit, Records!Absent, Absent
  <2> QED BY <2>1, <2>3 DEF Records!Next
<1>2. CASE ~\E p \in Procs : SaveRequested(p)
  <2>1. state' \in [Ids -> States \cup {Absent}]
    BY ShapeStep DEF IInv
  <2>2. \A i \in Ids : state'[i] = state[i] \/ CanMove(state[i], state'[i])
    <3>1. CASE \E p \in Procs : ProcStep(p)
      <4> PICK p \in Procs : ProcStep(p)
        BY <3>1
      <4>1. CASE Request(p) \/ Admit(p) \/ Refuse(p) \/ NextId(p) \/ CheckDuplicate(p) \/ Crash(p)
        BY <4>1 DEF Request, Admit, Refuse, NextId, CheckDuplicate, Crash, files
      <4>2. CASE SaveAllocated(p) \/ SavePreparing(p) \/ Fail(p)
        BY <4>2 DEF IInv, SaveAllocated, SavePreparing, Fail, Transition
      <4>3. CASE Prepare(p) \/ Launch(p) \/ Poll(p) \/ ReleaseRemove(p)
        BY <4>3 DEF Prepare, Launch, Poll, ReleaseRemove, files
      <4>4. CASE ReleaseBegin(p) \/ ReleaseDone(p) \/ ReleaseFail(p)
        BY <4>4 DEF IInv, ReleaseBegin, ReleaseDone, ReleaseFail, Transition
      <4> QED BY <4>1, <4>2, <4>3, <4>4, <1>2 DEF ProcStep
    <3>2. CASE \E j \in Ids : Reconcile(j)
      BY <3>2 DEF Reconcile, Transition, OccupyingIds, Occupying, CanMove, States
    <3>3. CASE \E i \in Ids : SupervisorMove(i)
      BY <3>3 DEF IInv, SupervisorMove, Transition
    <3>4. CASE (\E s \in Systems, i \in Ids : ForeignPrepare(s, i)) \/ UNCHANGED vars
      BY <3>4 DEF ForeignPrepare, vars, files
    <3> QED BY <3>1, <3>2, <3>3, <3>4 DEF Next
  <2>3. Records!Move
    BY <2>1, <2>2 DEF Records!Move, Records!CanMove, CanMove, Records!States, States,
                      Records!Absent, Absent
  <2> QED BY <2>3 DEF Records!Next
<1> QED BY <1>1, <1>2

\* The broker's records, whoever writes them, implement the abstract lifecycle:
\* they appear within the limit, follow TRANSITIONS and are never taken back.
THEOREM LifecycleImplemented == Spec => LifecycleKept
<1>1. Init => Records!Init
  BY DEF Init, Records!Init, Records!Absent, Absent
<1> QED BY <1>1, RecordsStep, Invariance, PTL DEF Spec, LifecycleKept, Records!Spec

------------------------------------------------------------------------------
(* The counter. *)

IssuedBelow == \A g \in issued : g[2] < counter

LEMMA IssuedStep ==
  ASSUME Shape, IssuedBelow, [Next]_vars
  PROVE  /\ IssuedBelow'
         /\ \A p \in Procs : NextId(p) => id'[p] \notin issued
<1> USE MaxNumberAssumption DEF Shape, TypeOK, IssuedBelow, Generated
<1>1. ASSUME NEW p \in Procs, NextId(p)
      PROVE  IssuedBelow' /\ id'[p] \notin issued
  BY <1>1 DEF NextId, CounterPast
<1>2. CASE ~\E p \in Procs : NextId(p)
  <2>1. issued' = issued /\ counter' = counter
    BY <1>2 DEF Next, ProcStep, Request, Admit, Refuse, CheckDuplicate, SaveRequested, SaveAllocated,
                SavePreparing, Prepare, Launch, Poll, Fail, ReleaseBegin, ReleaseRemove, ReleaseDone,
                ReleaseFail, Crash, Reconcile, SupervisorMove, ForeignPrepare, vars
  <2> QED BY <1>2, <2>1
<1> QED BY <1>1, <1>2

\* _next_id never returns an id again, for any interleaving of requests and kills.
THEOREM NumbersAreIssuedOnce == Spec => NumbersIssuedOnce
<1>1. Init => Shape /\ IssuedBelow
  BY InitShape DEF Init, IssuedBelow
<1>2. Shape /\ IssuedBelow /\ [Next]_vars => (Shape /\ IssuedBelow)'
  BY ShapeStep, IssuedStep
<1>3. Shape /\ IssuedBelow /\ [Next]_vars
        => [\A p \in Procs : NextId(p) => id'[p] \notin issued]_vars
  BY IssuedStep
<1> QED BY <1>1, <1>2, <1>3, PTL DEF Spec, NumbersIssuedOnce


------------------------------------------------------------------------------
(* Who prepares a session and whose disks a release removes.  The argument: a    *)
(* record is never taken back, so an id that has passed the duplicate check      *)
(* under the lock is that process's for good; a workspace is recorded only by    *)
(* the process that published it; and a release removes only a recorded          *)
(* workspace, of a record that its lock keeps in RESETTING.                      *)

Early == {Absent, "requested", "allocated"}
Saved == {"allocate", "prepare", "copy", "launch", "poll", "fail"}
Prepared == {"copy", "launch", "poll", "fail"}

\* A request that has saved its record owns it, and has taken it past ALLOCATED before
\* it prepares anything.
Ownership ==
  \A p \in Procs :
    /\ pc[p] \in Saved => state[id[p]] # Absent /\ owner[id[p]] = sys[p]
    /\ pc[p] \in Prepared => state[id[p]] \notin Early

\* A recorded workspace has been published by the broker, and its session has left
\* the admission section.
RecordedIsOurs == \A i \in recorded : state[i] \notin Early /\ <<owner[i], i>> \in ours

\* Nobody has recorded the workspace of a request that has yet to launch, and the
\* disks that it is about to record are there.
Unlaunched ==
  \A p \in Procs :
    /\ pc[p] \in {"save", "allocate", "prepare", "copy", "launch"} => id[p] \notin recorded
    /\ pc[p] = "launch" => <<sys[p], id[p]>> \in workspaces \cap ours

\* A release holds its record in RESETTING.
Releasing == \A p \in Procs : pc[p] \in {"discard", "removed"} => state[id[p]] = "resetting"

\* Running, or able to: a supervisor has been started for a record in PREPARING.
MayRun(i) ==
  state[i] \in {"starting", "ready", "active"} \/ (state[i] = "preparing" /\ i \in spawned)
DisksThere == \A i \in Ids : MayRun(i) => i \in recorded /\ <<owner[i], i>> \in workspaces

DInv == Shape /\ FreshId /\ Ownership /\ ExclusivePreparation /\ RecordedIsOurs /\ Unlaunched
        /\ spawned \subseteq recorded /\ Releasing /\ DisksThere /\ ForeignDisksKept

------------------------------------------------------------------------------
(* What no step does. *)

\* A record is not taken back, does not return to the admission section and does not
\* change its system; what has been recorded or published stays so.
Onward ==
  /\ \A i \in Ids : /\ state[i] # Absent => state'[i] # Absent /\ owner'[i] = owner[i]
                    /\ state[i] \notin Early => state'[i] \notin Early
  /\ recorded \subseteq recorded' /\ ours \subseteq ours' /\ spawned \subseteq spawned'

LEMMA MovesOnward ==
  ASSUME NEW s, NEW t, CanMove(s, t)
  PROVE  s # Absent /\ t # Absent /\ (s \notin Early => t \notin Early)
BY DEF CanMove, Early, Absent

LEMMA StepsGoOnward ==
  ASSUME Shape, FreshId, [Next]_vars
  PROVE  Onward
<1> USE MovesOnward DEF Shape, TypeOK, Onward, files
<1>1. CASE \E p \in Procs : ProcStep(p)
  <2> SUFFICES ASSUME NEW p \in Procs, ProcStep(p)
               PROVE  Onward
    BY <1>1
  <2>1. CASE Request(p) \/ Admit(p) \/ Refuse(p) \/ NextId(p) \/ CheckDuplicate(p) \/ Crash(p)
    BY <2>1 DEF Request, Admit, Refuse, NextId, CheckDuplicate, Crash
  <2>2. CASE SaveRequested(p)
    <3>1. id[p] \in Ids /\ state[id[p]] = Absent /\ Absent \in Early
      BY <2>2 DEF SaveRequested, FreshId, HasId, RequestSteps, Early
    <3> QED BY <2>2, <3>1 DEF SaveRequested
  <2>3. CASE SaveAllocated(p) \/ SavePreparing(p)
    BY <2>3 DEF SaveAllocated, SavePreparing, Transition
  <2>4. CASE Prepare(p) \/ Launch(p) \/ Poll(p) \/ ReleaseRemove(p)
    BY <2>4 DEF Prepare, Launch, Poll, ReleaseRemove
  <2>5. CASE Fail(p) \/ ReleaseBegin(p) \/ ReleaseDone(p) \/ ReleaseFail(p)
    BY <2>5 DEF Fail, ReleaseBegin, ReleaseDone, ReleaseFail, Transition
  <2> QED BY <2>1, <2>2, <2>3, <2>4, <2>5 DEF ProcStep
<1>2. CASE \E j \in Ids : Reconcile(j)
  BY <1>2 DEF Reconcile, Transition, Early, Absent
<1>3. CASE \E i \in Ids : SupervisorMove(i)
  BY <1>3 DEF SupervisorMove, Transition
<1>4. CASE (\E s \in Systems, i \in Ids : ForeignPrepare(s, i)) \/ UNCHANGED vars
  BY <1>4 DEF ForeignPrepare, vars
<1> QED BY <1>1, <1>2, <1>3, <1>4 DEF Next

\* How a process comes to stand where it stands after a step.
Enters(p) ==
  \/ pc'[p] = pc[p] /\ id'[p] = id[p] /\ sys'[p] = sys[p]
  \/ ProcStep(p)

LEMMA OthersStay ==
  ASSUME Shape, [Next]_vars, NEW p \in Procs
  PROVE  Enters(p)
<1> USE DEF Shape, TypeOK, Enters
<1>1. CASE \E q \in Procs : ProcStep(q) /\ q # p
  <2> PICK q \in Procs : ProcStep(q) /\ q # p
    BY <1>1
  <2>1. CASE Request(q) \/ Admit(q) \/ Refuse(q) \/ NextId(q) \/ CheckDuplicate(q)
    BY <2>1 DEF Request, Admit, Refuse, NextId, CheckDuplicate, Goto, Quit
  <2>2. CASE SaveRequested(q) \/ SaveAllocated(q) \/ SavePreparing(q) \/ Prepare(q) \/ Launch(q)
    BY <2>2 DEF SaveRequested, SaveAllocated, SavePreparing, Prepare, Launch, Goto
  <2>3. CASE Poll(q) \/ Fail(q) \/ Crash(q)
    BY <2>3 DEF Poll, Fail, Crash, Goto, Quit
  <2>4. CASE ReleaseBegin(q) \/ ReleaseRemove(q) \/ ReleaseDone(q) \/ ReleaseFail(q)
    BY <2>4 DEF ReleaseBegin, ReleaseRemove, ReleaseDone, ReleaseFail, Goto, Quit
  <2> QED BY <2>1, <2>2, <2>3, <2>4 DEF ProcStep
<1>2. CASE (\E i \in Ids : Reconcile(i) \/ SupervisorMove(i))
           \/ (\E s \in Systems, i \in Ids : ForeignPrepare(s, i)) \/ UNCHANGED vars
  BY <1>2 DEF Reconcile, SupervisorMove, ForeignPrepare, vars
<1> QED BY <1>1, <1>2 DEF Next

------------------------------------------------------------------------------
(* Requests. *)

\* A request is past the admission section only through it.
LEMMA OwnershipStep ==
  ASSUME Shape, FreshId, Ownership, [Next]_vars
  PROVE  Ownership'
<1>o. Onward /\ Shape'
  BY StepsGoOnward, ShapeStep
<1> SUFFICES ASSUME NEW p \in Procs
             PROVE  /\ pc'[p] \in Saved => state'[id'[p]] # Absent /\ owner'[id'[p]] = sys'[p]
                    /\ pc'[p] \in Prepared => state'[id'[p]] \notin Early
  BY DEF Ownership
<1> USE DEF Saved, Prepared
<1>i. pc[p] \in Saved => id[p] \in Ids
  BY DEF Shape, HasId, RequestSteps
<1>k. ASSUME id'[p] = id[p], sys'[p] = sys[p], pc[p] \in Saved, pc'[p] \in Prepared => pc[p] \in Prepared
      PROVE  /\ pc'[p] \in Saved => state'[id'[p]] # Absent /\ owner'[id'[p]] = sys'[p]
             /\ pc'[p] \in Prepared => state'[id'[p]] \notin Early
  BY <1>i, <1>k, <1>o DEF Ownership, Onward
<1>1. CASE pc'[p] = pc[p] /\ id'[p] = id[p] /\ sys'[p] = sys[p]
  BY <1>k, <1>1
<1>2. CASE ProcStep(p)
  <2> USE DEF Shape, TypeOK
  <2>1. CASE Request(p) \/ Admit(p) \/ NextId(p) \/ CheckDuplicate(p)
    BY <2>1 DEF Request, Admit, NextId, CheckDuplicate, Goto, Quit
  <2>2. CASE Refuse(p) \/ Crash(p) \/ Fail(p) \/ ReleaseDone(p) \/ ReleaseFail(p)
    BY <2>2 DEF Refuse, Crash, Fail, ReleaseDone, ReleaseFail, Quit
  <2>3. CASE SaveRequested(p)
    <3>1. id[p] \in Ids /\ pc'[p] = "allocate" /\ id'[p] = id[p] /\ sys'[p] = sys[p]
      BY <2>3 DEF SaveRequested, Goto, HasId, RequestSteps
    <3>2. state'[id[p]] = "requested" /\ owner'[id[p]] = sys[p]
      BY <2>3, <3>1 DEF SaveRequested
    <3> QED BY <3>1, <3>2 DEF Absent
  <2>4. CASE SaveAllocated(p)
    <3>1. pc[p] = "allocate" /\ pc'[p] = "prepare" /\ id'[p] = id[p] /\ sys'[p] = sys[p]
      BY <2>4 DEF SaveAllocated, Goto
    <3> QED BY <1>k, <3>1
  <2>5. CASE SavePreparing(p)
    <3>1. pc[p] = "prepare" /\ pc'[p] = "copy" /\ id'[p] = id[p] /\ sys'[p] = sys[p]
      BY <2>5 DEF SavePreparing, Goto
    <3>2. id[p] \in Ids /\ state'[id[p]] = "preparing" /\ owner' = owner
      BY <1>i, <2>5, <3>1 DEF SavePreparing, Transition
    <3> QED BY <3>1, <3>2 DEF Ownership, Early, Absent
  <2>6. CASE Prepare(p) \/ Launch(p)
    <3>1. pc[p] \in Prepared /\ pc'[p] \in Prepared /\ id'[p] = id[p] /\ sys'[p] = sys[p]
      BY <2>6 DEF Prepare, Launch, Goto
    <3> QED BY <1>k, <3>1
  <2>7. CASE Poll(p)
    <3>1. \/ pc'[p] = "idle"
          \/ pc[p] \in Prepared /\ pc'[p] = "fail" /\ id'[p] = id[p] /\ sys'[p] = sys[p]
      BY <2>7 DEF Poll, Goto, Quit
    <3> QED BY <1>k, <3>1
  <2>8. CASE ReleaseBegin(p) \/ ReleaseRemove(p)
    BY <2>8 DEF ReleaseBegin, ReleaseRemove, Goto
  <2> QED BY <1>2, <2>1, <2>2, <2>3, <2>4, <2>5, <2>6, <2>7, <2>8 DEF ProcStep
<1> QED BY <1>1, <1>2, OthersStay DEF Enters

\* A process is a request only if it was one, or has just passed the duplicate check.
LEMMA BecomesRequest ==
  ASSUME Shape, [Next]_vars, NEW p \in Procs, pc'[p] \in RequestSteps
  PROVE  \/ pc[p] \in RequestSteps /\ id'[p] = id[p]
         \/ CheckDuplicate(p) /\ id'[p] = id[p] /\ id[p] \in Ids /\ state[id[p]] = Absent /\ pc[p] = "duplicate"
<1> USE DEF Shape, TypeOK, RequestSteps
<1>1. CASE ProcStep(p)
  <2>1. CASE Request(p) \/ Admit(p) \/ NextId(p) \/ Refuse(p) \/ Crash(p)
    BY <2>1 DEF Request, Admit, NextId, Refuse, Crash, Goto, Quit
  <2>2. CASE CheckDuplicate(p)
    BY <2>2 DEF CheckDuplicate, Taken, Goto, Quit, HasId
  <2>3. CASE SaveRequested(p) \/ SaveAllocated(p) \/ SavePreparing(p) \/ Prepare(p) \/ Launch(p)
    BY <2>3 DEF SaveRequested, SaveAllocated, SavePreparing, Prepare, Launch, Goto
  <2>4. CASE Poll(p) \/ Fail(p)
    BY <2>4 DEF Poll, Fail, Goto, Quit
  <2>5. CASE ReleaseBegin(p) \/ ReleaseRemove(p) \/ ReleaseDone(p) \/ ReleaseFail(p)
    BY <2>5 DEF ReleaseBegin, ReleaseRemove, ReleaseDone, ReleaseFail, Goto, Quit
  <2> QED BY <1>1, <2>1, <2>2, <2>3, <2>4, <2>5 DEF ProcStep
<1> QED BY <1>1, OthersStay DEF Enters

LEMMA ExclusiveStep ==
  ASSUME Shape, FreshId, Ownership, ExclusivePreparation, [Next]_vars
  PROVE  ExclusivePreparation'
<1> SUFFICES ASSUME NEW p \in Procs, NEW q \in Procs, p # q,
                    pc'[p] \in RequestSteps, pc'[q] \in RequestSteps
             PROVE  id'[p] # id'[q]
  BY DEF ExclusivePreparation
\* Whoever passes the check holds the lock, and its id has no record.
<1>1. ASSUME NEW a \in Procs, NEW b \in Procs, a # b, CheckDuplicate(a), id[a] \in Ids,
             state[id[a]] = Absent, pc[b] \in RequestSteps
      PROVE  id[a] # id[b]
  <2>1. lock = a /\ pc[b] \notin LockedSteps
    BY <1>1 DEF CheckDuplicate, Shape, LockHeld, LockedSteps
  <2>2. pc[b] \in Saved
    BY <1>1, <2>1 DEF RequestSteps, LockedSteps, Saved
  <2> QED BY <1>1, <2>2 DEF Ownership
<1>2. ~(CheckDuplicate(p) /\ CheckDuplicate(q))
  BY DEF CheckDuplicate, Shape, LockHeld, LockedSteps
<1> QED BY <1>1, <1>2, BecomesRequest DEF ExclusivePreparation

------------------------------------------------------------------------------
(* Disks. *)

\* Everything but a launch leaves what is recorded and who has been started.
LEMMA OnlyLaunchRecords ==
  ASSUME [Next]_vars, ~\E p \in Procs : Launch(p)
  PROVE  UNCHANGED <<recorded, spawned>>
BY DEF Next, ProcStep, Request, Admit, Refuse, NextId, CheckDuplicate, SaveRequested, SaveAllocated,
       SavePreparing, Prepare, Poll, Fail, ReleaseBegin, ReleaseRemove, ReleaseDone, ReleaseFail,
       Crash, Reconcile, SupervisorMove, ForeignPrepare, vars, files

\* Only a release removes disks, those of its own recorded session.
LEMMA OnlyReleaseRemoves ==
  ASSUME [Next]_vars, ~\E p \in Procs : ReleaseRemove(p)
  PROVE  workspaces \subseteq workspaces'
BY DEF Next, ProcStep, Request, Admit, Refuse, NextId, CheckDuplicate, SaveRequested, SaveAllocated,
       SavePreparing, Prepare, Launch, Poll, Fail, ReleaseBegin, ReleaseDone, ReleaseFail,
       Crash, Reconcile, SupervisorMove, ForeignPrepare, vars, files

LEMMA RecordedStep ==
  ASSUME Shape, FreshId, Ownership, RecordedIsOurs, Unlaunched, spawned \subseteq recorded, [Next]_vars
  PROVE  RecordedIsOurs' /\ spawned' \subseteq recorded'
<1>o. Onward
  BY StepsGoOnward
<1>r. recorded \subseteq Ids
  BY DEF Shape, TypeOK
<1>k. ASSUME NEW i \in recorded
      PROVE  state'[i] \notin Early /\ <<owner'[i], i>> \in ours'
  <2>1. state[i] \notin Early /\ state[i] # Absent /\ <<owner[i], i>> \in ours
    BY DEF RecordedIsOurs, Early
  <2> QED BY <1>o, <1>r, <2>1 DEF Onward
<1>1. CASE \E p \in Procs : Launch(p)
  <2> PICK p \in Procs : Launch(p)
    BY <1>1
  <2>1. /\ recorded' = recorded \cup {id[p]} /\ spawned' \subseteq spawned \cup {id[p]}
        /\ pc[p] = "launch" /\ state' = state /\ owner' = owner /\ ours' = ours
    BY DEF Launch
  <2>2. state[id[p]] \notin Early /\ <<owner[id[p]], id[p]>> \in ours
    BY <2>1 DEF Ownership, Saved, Prepared, Unlaunched
  <2> QED BY <1>k, <2>1, <2>2 DEF RecordedIsOurs
<1>2. CASE ~\E p \in Procs : Launch(p)
  <2>1. recorded' = recorded /\ spawned' = spawned
    BY <1>2, OnlyLaunchRecords
  <2> QED BY <1>k, <2>1 DEF RecordedIsOurs
<1> QED BY <1>1, <1>2

\* How a process comes to be about to record disks.
LEMMA BecomesUnlaunched ==
  ASSUME Shape, [Next]_vars, NEW p \in Procs,
         pc'[p] \in {"save", "allocate", "prepare", "copy", "launch"}
  PROVE  /\ \/ pc[p] \in {"save", "allocate", "prepare", "copy", "launch"} /\ ~Launch(p)
            \/ pc[p] = "duplicate" /\ id[p] \in Ids /\ state[id[p]] = Absent
         /\ id'[p] = id[p] /\ sys'[p] = sys[p]
         /\ pc'[p] = "launch" => pc[p] = "launch" \/ Prepare(p)
<1> USE DEF Shape, TypeOK, RequestSteps
<1>1. CASE ProcStep(p)
  <2>1. CASE Request(p) \/ Admit(p) \/ NextId(p) \/ Refuse(p) \/ Crash(p)
    BY <2>1 DEF Request, Admit, NextId, Refuse, Crash, Goto, Quit
  <2>2. CASE CheckDuplicate(p)
    BY <2>2 DEF CheckDuplicate, Taken, Goto, Quit, HasId
  <2>3. CASE SaveRequested(p) \/ SaveAllocated(p) \/ SavePreparing(p)
    BY <2>3 DEF SaveRequested, SaveAllocated, SavePreparing, Goto, Launch
  <2>4. CASE Prepare(p)
    BY <2>4 DEF Prepare, Goto, Launch
  <2>5. CASE Launch(p) \/ Poll(p) \/ Fail(p)
    BY <2>5 DEF Launch, Poll, Fail, Goto, Quit
  <2>6. CASE ReleaseBegin(p) \/ ReleaseRemove(p) \/ ReleaseDone(p) \/ ReleaseFail(p)
    BY <2>6 DEF ReleaseBegin, ReleaseRemove, ReleaseDone, ReleaseFail, Goto, Quit
  <2> QED BY <1>1, <2>1, <2>2, <2>3, <2>4, <2>5, <2>6 DEF ProcStep
<1>2. CASE pc'[p] = pc[p] /\ id'[p] = id[p] /\ sys'[p] = sys[p] /\ ~Launch(p)
  BY <1>2
<1>3. Launch(p) => ProcStep(p)
  BY DEF ProcStep
<1> QED BY <1>1, <1>2, <1>3, OthersStay DEF Enters

LEMMA UnlaunchedStep ==
  ASSUME Shape, FreshId, Ownership, ExclusivePreparation, RecordedIsOurs, Unlaunched, [Next]_vars
  PROVE  Unlaunched'
<1> SUFFICES ASSUME NEW p \in Procs, pc'[p] \in {"save", "allocate", "prepare", "copy", "launch"}
             PROVE  /\ id'[p] \notin recorded'
                    /\ pc'[p] = "launch" => <<sys'[p], id'[p]>> \in workspaces' \cap ours'
  BY DEF Unlaunched
<1>o. Onward
  BY StepsGoOnward
<1>b. /\ \/ pc[p] \in {"save", "allocate", "prepare", "copy", "launch"} /\ ~Launch(p)
         \/ pc[p] = "duplicate" /\ id[p] \in Ids /\ state[id[p]] = Absent
      /\ id'[p] = id[p] /\ sys'[p] = sys[p]
      /\ pc'[p] = "launch" => pc[p] = "launch" \/ Prepare(p)
  BY BecomesUnlaunched
<1>1. id[p] \notin recorded
  BY <1>b DEF Unlaunched, RecordedIsOurs, Early
<1>2. id[p] \notin recorded'
  <2>1. ASSUME NEW q \in Procs, Launch(q)
        PROVE  id[p] \notin recorded'
    <3>1. recorded' = recorded \cup {id[q]} /\ pc[q] = "launch" /\ lock = None
      BY <2>1 DEF Launch
    <3>2. p # q /\ pc[p] \in RequestSteps
      <4>1. pc[p] # "duplicate"
        BY <3>1, NoneAssumption DEF Shape, LockHeld, LockedSteps
      <4>2. p # q
        BY <1>b, <2>1, <4>1
      <4> QED BY <1>b, <4>1, <4>2 DEF RequestSteps
    <3>3. id[p] # id[q]
      BY <3>1, <3>2 DEF ExclusivePreparation, RequestSteps
    <3> QED BY <1>1, <3>1, <3>3
  <2>2. CASE ~\E q \in Procs : Launch(q)
    BY <1>1, <2>2, OnlyLaunchRecords
  <2> QED BY <2>1, <2>2
<1>3. ASSUME pc'[p] = "launch"
      PROVE  <<sys[p], id[p]>> \in workspaces' \cap ours'
  <2>1. CASE Prepare(p)
    BY <1>3, <2>1 DEF Prepare, Goto, Shape, TypeOK
  <2>2. CASE pc[p] = "launch"
    <3>1. <<sys[p], id[p]>> \in workspaces \cap ours /\ <<sys[p], id[p]>> \in ours'
      BY <1>o, <2>2 DEF Unlaunched, Onward
    <3>2. ASSUME NEW q \in Procs, ReleaseRemove(q)
          PROVE  <<sys[p], id[p]>> \in workspaces'
      <4>1. workspaces' = workspaces \ Disks(q)
        BY <3>2 DEF ReleaseRemove
      <4>2. <<sys[p], id[p]>> \notin Disks(q)
        BY <1>1 DEF Disks
      <4> QED BY <3>1, <4>1, <4>2
    <3> QED BY <3>1, <3>2, OnlyReleaseRemoves
  <2> QED BY <1>3, <1>b, <2>1, <2>2
<1> QED BY <1>b, <1>2, <1>3

\* Nobody else changes a record while a release holds the lock.
LEMMA ReleasingStep ==
  ASSUME Shape, Releasing, [Next]_vars
  PROVE  Releasing'
<1> SUFFICES ASSUME NEW p \in Procs, pc'[p] \in {"discard", "removed"}
             PROVE  state'[id'[p]] = "resetting"
  BY DEF Releasing
<1> USE DEF Shape, TypeOK
<1>1. CASE ProcStep(p)
  <2>1. CASE Request(p) \/ Admit(p) \/ NextId(p) \/ Refuse(p) \/ Crash(p) \/ CheckDuplicate(p)
    BY <2>1 DEF Request, Admit, NextId, Refuse, Crash, CheckDuplicate, Goto, Quit
  <2>2. CASE SaveRequested(p) \/ SaveAllocated(p) \/ SavePreparing(p) \/ Prepare(p) \/ Launch(p)
    BY <2>2 DEF SaveRequested, SaveAllocated, SavePreparing, Prepare, Launch, Goto
  <2>3. CASE Poll(p) \/ Fail(p) \/ ReleaseDone(p) \/ ReleaseFail(p)
    BY <2>3 DEF Poll, Fail, ReleaseDone, ReleaseFail, Goto, Quit
  <2>4. CASE ReleaseBegin(p)
    <3>1. PICK i \in Ids : /\ \/ state[i] = "failed" /\ Transition(i, "resetting")
                              \/ state[i] = "resetting" /\ UNCHANGED state
                           /\ id' = [id EXCEPT ![p] = i]
      BY <2>4 DEF ReleaseBegin
    <3>2. state'[i] = "resetting" /\ id'[p] = i
      BY <3>1 DEF Transition
    <3> QED BY <3>2
  <2>5. CASE ReleaseRemove(p)
    BY <2>5 DEF ReleaseRemove, Releasing, Goto
  <2> QED BY <1>1, <2>1, <2>2, <2>3, <2>4, <2>5 DEF ProcStep
<1>2. CASE ~ProcStep(p)
  <2>1. pc'[p] = pc[p] /\ id'[p] = id[p]
    BY <1>2, OthersStay DEF Enters
  <2>2. lock = p /\ p # None
    BY <2>1, NoneAssumption DEF LockHeld, LockedSteps
  <2>3. ASSUME NEW q \in Procs, ProcStep(q), q # p
        PROVE  state' = state
    <3>1. pc[q] \notin LockedSteps
      BY <2>2, <2>3 DEF LockHeld
    <3> QED
      BY <2>2, <2>3, <3>1
      DEF LockedSteps, ProcStep, Request, Acquire, Admit, Refuse, NextId, CheckDuplicate, SaveRequested,
          SaveAllocated, SavePreparing, Prepare, Launch, Poll, Fail, ReleaseBegin, ReleaseRemove,
          ReleaseDone, ReleaseFail, Crash, files
  <2>4. state' = state
    BY <1>2, <2>2, <2>3 DEF Next, Reconcile, SupervisorMove, ForeignPrepare, vars, files
  <2> QED BY <2>1, <2>4 DEF Releasing
<1> QED BY <1>1, <1>2

\* A record comes to run through PREPARING, with a supervisor, and from running only.
LEMMA MayRunStep ==
  ASSUME Shape, FreshId, Ownership, RecordedIsOurs, spawned \subseteq recorded, [Next]_vars,
         NEW i \in Ids, MayRun(i)'
  PROVE  \/ MayRun(i)
         \/ \E p \in Procs : Launch(p) /\ id[p] = i
<1> USE DEF Shape, TypeOK, MayRun
<1>1. CASE \E p \in Procs : ProcStep(p)
  <2> PICK p \in Procs : ProcStep(p)
    BY <1>1
  <2>1. CASE Launch(p)
    BY <2>1 DEF Launch
  <2>2. CASE Request(p) \/ Admit(p) \/ NextId(p) \/ Refuse(p) \/ Crash(p) \/ CheckDuplicate(p)
             \/ Prepare(p) \/ Poll(p) \/ ReleaseRemove(p)
    BY <2>2 DEF Request, Admit, NextId, Refuse, Crash, CheckDuplicate, Prepare, Poll, ReleaseRemove, files
  <2>3. CASE SaveRequested(p) \/ SaveAllocated(p) \/ Fail(p)
    BY <2>3 DEF SaveRequested, SaveAllocated, Fail, Transition
  <2>4. CASE SavePreparing(p)
    <3>1. state' = [state EXCEPT ![id[p]] = "preparing"] /\ spawned' = spawned /\ pc[p] = "prepare"
          /\ state[id[p]] = "allocated"
      BY <2>4 DEF SavePreparing, Transition, CanMove
    <3>2. id[p] \notin spawned
      BY <3>1 DEF RecordedIsOurs, Early
    <3> QED BY <3>1, <3>2
  <2>5. CASE ReleaseBegin(p) \/ ReleaseDone(p) \/ ReleaseFail(p)
    BY <2>5 DEF ReleaseBegin, ReleaseDone, ReleaseFail, Transition
  <2> QED BY <2>1, <2>2, <2>3, <2>4, <2>5 DEF ProcStep
<1>2. CASE \E j \in Ids : Reconcile(j)
  BY <1>2 DEF Reconcile, Transition
<1>3. ASSUME NEW j \in Ids, SupervisorMove(j)
      PROVE  MayRun(i)
  <2>1. PICK t \in {"starting", "ready", "active", "stopping", "resetting", "failed"} :
          CanMove(state[j], t) /\ state' = [state EXCEPT ![j] = t]
    BY <1>3 DEF SupervisorMove, Transition
  <2>2. j \in spawned /\ spawned' = spawned
    BY <1>3 DEF SupervisorMove
  <2>3. CASE i # j
    BY <2>1, <2>2, <2>3
  <2>4. CASE i = j
    <3>1. t \in {"starting", "ready", "active"}
      BY <2>1, <2>4
    <3>2. state[j] \in {"preparing", "starting", "ready", "active"}
      BY <2>1, <3>1 DEF CanMove
    <3> QED BY <2>2, <2>4, <3>2
  <2> QED BY <2>3, <2>4
<1>4. CASE (\E s \in Systems, j \in Ids : ForeignPrepare(s, j)) \/ UNCHANGED vars
  BY <1>4 DEF ForeignPrepare, vars, files
<1> QED BY <1>1, <1>2, <1>3, <1>4 DEF Next

LEMMA DisksStep ==
  ASSUME Shape, FreshId, Ownership, RecordedIsOurs, Unlaunched, spawned \subseteq recorded, Releasing,
         DisksThere, [Next]_vars
  PROVE  DisksThere'
<1> SUFFICES ASSUME NEW i \in Ids, MayRun(i)'
             PROVE  i \in recorded' /\ <<owner'[i], i>> \in workspaces'
  BY DEF DisksThere
<1>o. Onward
  BY StepsGoOnward
<1>1. ASSUME NEW p \in Procs, Launch(p), id[p] = i
      PROVE  i \in recorded' /\ <<owner'[i], i>> \in workspaces'
  <2>1. pc[p] = "launch" /\ recorded' = recorded \cup {i} /\ owner' = owner /\ workspaces' = workspaces
    BY <1>1 DEF Launch
  <2> QED BY <1>1, <2>1 DEF Unlaunched, Ownership, Saved
<1>2. CASE MayRun(i)
  <2>1. i \in recorded /\ i \in recorded' /\ <<owner[i], i>> \in workspaces /\ owner'[i] = owner[i]
    <3>1. i \in recorded /\ <<owner[i], i>> \in workspaces /\ state[i] # Absent
      BY <1>2 DEF DisksThere, RecordedIsOurs, Early
    <3> QED BY <1>o, <3>1 DEF Onward
  <2>2. ASSUME NEW q \in Procs, ReleaseRemove(q)
        PROVE  <<owner[i], i>> \in workspaces'
    <3>1. workspaces' = workspaces \ Disks(q) /\ pc[q] = "discard"
      BY <2>2 DEF ReleaseRemove
    <3>2. id[q] # i
      BY <1>2, <3>1 DEF Releasing, MayRun
    <3> QED BY <2>1, <3>1, <3>2 DEF Disks
  <2> QED BY <2>1, <2>2, OnlyReleaseRemoves
<1> QED BY <1>1, <1>2, MayRunStep

LEMMA ForeignStep ==
  ASSUME Shape, FreshId, RecordedIsOurs, ForeignDisksKept, [Next]_vars
  PROVE  ForeignDisksKept'
<1>o. ours \subseteq ours'
  BY StepsGoOnward DEF Onward
<1>1. ASSUME NEW q \in Procs, ReleaseRemove(q)
      PROVE  ForeignDisksKept'
  <2>1. workspaces' = workspaces \ Disks(q) /\ foreign' = foreign /\ ours' = ours
    BY <1>1 DEF ReleaseRemove
  <2>2. Disks(q) \subseteq ours
    BY DEF Disks, RecordedIsOurs
  <2> QED BY <2>1, <2>2 DEF ForeignDisksKept
<1>2. ASSUME NEW s \in Systems, NEW i \in Ids, ForeignPrepare(s, i)
      PROVE  ForeignDisksKept'
  BY <1>o, <1>2 DEF ForeignPrepare, ForeignDisksKept
<1>3. CASE /\ ~\E q \in Procs : ReleaseRemove(q)
           /\ ~\E s \in Systems, i \in Ids : ForeignPrepare(s, i)
  <2>1. foreign' = foreign
    BY <1>3
    DEF Next, ProcStep, Request, Admit, Refuse, NextId, CheckDuplicate, SaveRequested, SaveAllocated,
        SavePreparing, Prepare, Launch, Poll, Fail, ReleaseBegin, ReleaseDone, ReleaseFail,
        Crash, Reconcile, SupervisorMove, vars, files
  <2> QED BY <1>o, <1>3, <2>1, OnlyReleaseRemoves DEF ForeignDisksKept
<1> QED BY <1>1, <1>2, <1>3

------------------------------------------------------------------------------
LEMMA InitialDisks == Init => DInv
<1> SUFFICES ASSUME Init PROVE DInv
  OBVIOUS
<1>1. Shape
  BY InitShape
<1>2. FreshId /\ Ownership /\ ExclusivePreparation /\ Unlaunched /\ Releasing
  BY DEF Init, FreshId, Ownership, ExclusivePreparation, Unlaunched, Releasing, Saved, Prepared, RequestSteps
<1>3. RecordedIsOurs /\ spawned \subseteq recorded /\ DisksThere /\ ForeignDisksKept
  BY DEF Init, RecordedIsOurs, DisksThere, MayRun, ForeignDisksKept, Absent
<1> QED BY <1>1, <1>2, <1>3 DEF DInv

LEMMA DisksInductive == DInv /\ [Next]_vars => DInv'
<1> SUFFICES ASSUME DInv, [Next]_vars PROVE DInv'
  OBVIOUS
<1> USE DEF DInv
<1>1. Shape' /\ FreshId'
  BY ShapeStep, FreshIdStep
<1>2. Ownership' /\ ExclusivePreparation'
  BY OwnershipStep, ExclusiveStep
<1>3. RecordedIsOurs' /\ spawned' \subseteq recorded' /\ Unlaunched'
  BY RecordedStep, UnlaunchedStep
<1>4. Releasing' /\ DisksThere' /\ ForeignDisksKept'
  BY ReleasingStep, DisksStep, ForeignStep
<1> QED BY <1>1, <1>2, <1>3, <1>4

LEMMA DisksInvariance == Spec => []DInv
BY InitialDisks, DisksInductive, PTL DEF Spec

\* No two requests prepare the same session, not even one for an explicit id that the
\* other's counter has just reached.
THEOREM PreparationIsExclusive == Spec => []ExclusivePreparation
BY DisksInvariance, PTL DEF DInv

\* A record that runs has its disks, whatever requests, releases, reconciles and kills
\* come between.
THEOREM RunningSessionsHaveDisks == Spec => []RunningHasDisks
<1>1. DInv => RunningHasDisks
  BY DEF DInv, DisksThere, MayRun, RunningHasDisks
<1> QED BY <1>1, DisksInvariance, PTL

\* A release removes disks that the broker has published, never another tool's.
THEOREM ForeignDisksAreKept == Spec => []ForeignDisksKept
BY DisksInvariance, PTL DEF DInv
==============================================================================
