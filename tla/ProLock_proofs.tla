---------------------------- MODULE ProLock_proofs ----------------------------
(***************************************************************************)
(* Proofs about ProLock, for every set of processes of every kind and      *)
(* every number of retries.                                                *)
(***************************************************************************)
EXTENDS ProLock, TLAPS

\* Types, with the bound on attempts that makes them inductive.
TypeInv == TypeOK /\ TriesLeft

\* The exclusion part: who owns the file, and who never takes it first.
LockInv == SectionOwnsLock /\ ReleaseIsNeverFirst

USE DEF Waiting, Finished

\* Wherever control goes, it goes to a label.
LEMMA LabelsOK ==
    ASSUME NEW p \in Procs, NEW e \in Errors
    PROVE  /\ Over(p) \in {"idle", "exited"}
           /\ AtMain(p, e) \in {"idle", "exited", "main"}
           /\ AtExcept(p, e) \in {"idle", "exited", "main", "clear"}
BY DEF Over, AtMain, AtExcept, Errors

LEMMA TypeInit == Init => TypeInv
<1> SUFFICES ASSUME Init PROVE TypeInv
  OBVIOUS
<1>1. TypeOK
  <2>1. nested \in [Procs -> BOOLEAN]
    BY DEF Init
  <2>2. tries \in [Procs -> 0 .. MaxRetries]
    BY RetriesAssumption DEF Init
  <2> QED
    BY <2>1, <2>2 DEF Init, TypeOK, Labels, Errors, Causes
<1>2. TriesLeft
  BY RetriesAssumption DEF Init, TriesLeft
<1> QED
  BY <1>1, <1>2 DEF TypeInv

LEMMA TypeStep == TypeInv /\ [Next]_vars => TypeInv'
<1> SUFFICES ASSUME TypeInv, [Next]_vars PROVE TypeInv'
  OBVIOUS
<1>1. CASE UNCHANGED vars
  BY <1>1 DEF vars, TypeInv, TypeOK, TriesLeft
<1>2. ASSUME NEW p \in Procs, Proceed(p) \/ Happen(p)
      PROVE  TypeInv'
  <2> USE RetriesAssumption, LabelsOK, <1>2 DEF TypeInv, TypeOK, TriesLeft, Labels, Goto, Blame, Causes, Errors
  <2>1. ReadLock(p) => TypeInv'
    BY DEF ReadLock, NoLock
  <2>2. LockHeld(p) => TypeInv'
    BY DEF LockHeld, Raise
  <2>3. FindStale(p) => TypeInv'
    BY DEF FindStale
  <2>4. RemoveStale(p) => TypeInv'
    BY DEF RemoveStale, NoLock
  <2>5. WakeUp(p) => TypeInv'
    BY DEF WakeUp
  <2>6. WriteLock(p) => TypeInv'
    BY DEF WriteLock
  <2>7. AddNotice(p) => TypeInv'
    BY DEF AddNotice
  <2>8. DeleteLock(p) => TypeInv'
    BY DEF DeleteLock
  <2>9. RemoveNotice(p) => TypeInv'
    <3> SUFFICES ASSUME RemoveNotice(p) PROVE TypeInv'
      OBVIOUS
    <3>1. CASE err[p] # "none"
      <4>1. AtExcept(p, err[p]) \in Labels \ {"check", "ps", "sleep"}
        BY DEF RemoveNotice
      <4> QED
        BY <3>1, <4>1 DEF RemoveNotice
    <3>2. CASE err[p] = "none"
      BY <3>2 DEF RemoveNotice
    <3> QED
      BY <3>1, <3>2
  <2>10. ClearOnError(p) => TypeInv'
    BY DEF ClearOnError
  <2>11. ClearInMain(p) => TypeInv'
    BY DEF ClearInMain
  <2>12. Start(p) => TypeInv'
    BY DEF Start
  <2>13. FailBeforeLock(p) => TypeInv'
    BY DEF FailBeforeLock
  <2>14. FailToGrab(p) => TypeInv'
    BY DEF FailToGrab, Raise
  <2>15. EndBody(p) => TypeInv'
    BY DEF EndBody
  <2>16. DetachInside(p) => TypeInv'
    BY DEF DetachInside
  <2>17. Interrupt(p) => TypeInv'
    BY DEF Interrupt
  <2>18. Kill(p) => TypeInv'
    BY DEF Kill
  <2> QED
    BY <2>1, <2>2, <2>3, <2>4, <2>5, <2>6, <2>7, <2>8, <2>9, <2>10, <2>11, <2>12,
       <2>13, <2>14, <2>15, <2>16, <2>17, <2>18, <1>2, Zenon DEF Proceed, Happen
<1> QED
  BY <1>1, <1>2 DEF Next

\* Every variable keeps its type, and no process counts more attempts than MaxRetries.
THEOREM TypeCorrect == Spec => []TypeOK
<1>1. TypeInv => TypeOK
  BY DEF TypeInv
<1> QED
  BY TypeInit, TypeStep, <1>1, PTL DEF Spec

-----------------------------------------------------------------------------
(* Exclusion. *)

LEMMA LockInit == Init => LockInv
BY DEF Init, LockInv, SectionOwnsLock, ReleaseIsNeverFirst

LEMMA LockStep == TypeInv /\ LockInv /\ [Next]_vars => LockInv'
<1> SUFFICES ASSUME TypeInv, LockInv, [Next]_vars PROVE LockInv'
  OBVIOUS
<1>1. CASE UNCHANGED vars
  BY <1>1 DEF vars, LockInv, SectionOwnsLock, ReleaseIsNeverFirst
<1>2. ASSUME NEW p \in Procs, Proceed(p) \/ Happen(p)
      PROVE  LockInv'
  <2> USE ProcsAssumption, LabelsOK, <1>2 DEF TypeInv, TypeOK, LockInv, SectionOwnsLock,
          ReleaseIsNeverFirst, Goto, Blame, Foreign, Dead, Causes, Errors
  <2>1. ReadLock(p) => LockInv'
    BY DEF ReadLock, NoLock
  <2>2. LockHeld(p) => LockInv'
    BY DEF LockHeld, Raise
  <2>3. FindStale(p) => LockInv'
    BY DEF FindStale
  <2>4. RemoveStale(p) => LockInv'
    BY DEF RemoveStale, NoLock
  <2>5. WakeUp(p) => LockInv'
    BY DEF WakeUp
  <2>6. WriteLock(p) => LockInv'
    BY DEF WriteLock
  <2>7. AddNotice(p) => LockInv'
    BY DEF AddNotice
  <2>8. DeleteLock(p) => LockInv'
    BY DEF DeleteLock
  <2>9. RemoveNotice(p) => LockInv'
    BY DEF RemoveNotice
  <2>10. ClearOnError(p) => LockInv'
    BY DEF ClearOnError
  <2>11. ClearInMain(p) => LockInv'
    BY DEF ClearInMain
  <2>12. Start(p) => LockInv'
    BY DEF Start
  <2>13. FailBeforeLock(p) => LockInv'
    BY DEF FailBeforeLock
  <2>14. FailToGrab(p) => LockInv'
    BY DEF FailToGrab, Raise
  <2>15. EndBody(p) => LockInv'
    BY DEF EndBody
  <2>16. DetachInside(p) => LockInv'
    BY DEF DetachInside
  <2>17. Interrupt(p) => LockInv'
    BY DEF Interrupt
  <2>18. Kill(p) => LockInv'
    BY DEF Kill
  <2> QED
    BY <2>1, <2>2, <2>3, <2>4, <2>5, <2>6, <2>7, <2>8, <2>9, <2>10, <2>11, <2>12,
       <2>13, <2>14, <2>15, <2>16, <2>17, <2>18, <1>2, Zenon DEF Proceed, Happen
<1> QED
  BY <1>1, <1>2 DEF Next

\* Two processes are never inside their sections before some step has taken the
\* lock file from a live process.
THEOREM Exclusion == Spec => []ExclusiveUntilBreached
<1>1. LockInv => ExclusiveUntilBreached
  BY DEF LockInv, SectionOwnsLock, ExclusiveUntilBreached, MutualExclusion, InSection
<1> QED
  BY TypeInit, TypeStep, LockInit, LockStep, <1>1, PTL DEF Spec

\* The unconditional delete of __exit__ is never the first such step.
THEOREM ReleaseInnocent == Spec => []ReleaseIsNeverFirst
<1>1. LockInv => ReleaseIsNeverFirst
  BY DEF LockInv
<1> QED
  BY TypeInit, TypeStep, LockInit, LockStep, <1>1, PTL DEF Spec

-----------------------------------------------------------------------------
(* What a section leaves behind. *)

\* After a failed write a process clears the lock or exits; no daemon lives on with it.
LEMMA FailureNotIdle ==
    ASSUME NEW p \in Procs
    PROVE  AtExcept(p, "error") \in {"clear", "main", "exited"}
BY DEF AtExcept, AtMain, Over

LEMMA SelfBlockStep == TypeInv /\ NoSelfBlock /\ [Next]_vars => NoSelfBlock'
<1> SUFFICES ASSUME TypeInv, NoSelfBlock, [Next]_vars PROVE NoSelfBlock'
  OBVIOUS
<1>1. CASE UNCHANGED vars
  BY <1>1 DEF vars, NoSelfBlock
<1>2. ASSUME NEW p \in Procs, Proceed(p) \/ Happen(p)
      PROVE  NoSelfBlock'
  <2> USE ProcsAssumption, LabelsOK, FailureNotIdle, <1>2 DEF TypeInv, TypeOK, NoSelfBlock,
          Goto, Errors
  <2>1. ReadLock(p) => NoSelfBlock'
    BY DEF ReadLock, NoLock
  <2>2. LockHeld(p) => NoSelfBlock'
    BY DEF LockHeld, Raise
  <2>3. FindStale(p) => NoSelfBlock'
    BY DEF FindStale
  <2>4. RemoveStale(p) => NoSelfBlock'
    BY DEF RemoveStale, NoLock
  <2>5. WakeUp(p) => NoSelfBlock'
    BY DEF WakeUp
  <2>6. WriteLock(p) => NoSelfBlock'
    BY DEF WriteLock
  <2>7. AddNotice(p) => NoSelfBlock'
    BY DEF AddNotice
  <2>8. DeleteLock(p) => NoSelfBlock'
    BY DEF DeleteLock
  <2>9. RemoveNotice(p) => NoSelfBlock'
    BY DEF RemoveNotice
  <2>10. ClearOnError(p) => NoSelfBlock'
    BY DEF ClearOnError
  <2>11. ClearInMain(p) => NoSelfBlock'
    BY DEF ClearInMain
  <2>12. Start(p) => NoSelfBlock'
    BY DEF Start
  <2>13. FailBeforeLock(p) => NoSelfBlock'
    BY DEF FailBeforeLock
  <2>14. FailToGrab(p) => NoSelfBlock'
    BY DEF FailToGrab, Raise
  <2>15. EndBody(p) => NoSelfBlock'
    BY DEF EndBody
  <2>16. DetachInside(p) => NoSelfBlock'
    BY DEF DetachInside
  <2>17. Interrupt(p) => NoSelfBlock'
    BY DEF Interrupt
  <2>18. Kill(p) => NoSelfBlock'
    BY DEF Kill
  <2> QED
    BY <2>1, <2>2, <2>3, <2>4, <2>5, <2>6, <2>7, <2>8, <2>9, <2>10, <2>11, <2>12,
       <2>13, <2>14, <2>15, <2>16, <2>17, <2>18, <1>2, Zenon DEF Proceed, Happen
<1> QED
  BY <1>1, <1>2 DEF Next

\* No process ever waits for a lock file that names itself.
THEOREM NeverSelfBlocked == Spec => []NoSelfBlock
<1>1. Init => NoSelfBlock
  BY ProcsAssumption DEF Init, NoSelfBlock
<1> QED
  BY TypeInit, TypeStep, SelfBlockStep, <1>1, PTL DEF Spec

LEMMA NoticeStep == TypeInv /\ NoticeHasOwner /\ [Next]_vars => NoticeHasOwner'
<1> SUFFICES ASSUME TypeInv, NoticeHasOwner, [Next]_vars PROVE NoticeHasOwner'
  OBVIOUS
<1>1. CASE UNCHANGED vars
  BY <1>1 DEF vars, NoticeHasOwner
<1>2. ASSUME NEW p \in Procs, Proceed(p) \/ Happen(p)
      PROVE  NoticeHasOwner'
  <2> USE LabelsOK, <1>2 DEF TypeInv, TypeOK, NoticeHasOwner, Goto, Errors
  <2>1. ReadLock(p) => NoticeHasOwner'
    BY DEF ReadLock, NoLock
  <2>2. LockHeld(p) => NoticeHasOwner'
    BY DEF LockHeld, Raise
  <2>3. FindStale(p) => NoticeHasOwner'
    BY DEF FindStale
  <2>4. RemoveStale(p) => NoticeHasOwner'
    BY DEF RemoveStale, NoLock
  <2>5. WakeUp(p) => NoticeHasOwner'
    BY DEF WakeUp
  <2>6. WriteLock(p) => NoticeHasOwner'
    BY DEF WriteLock
  <2>7. AddNotice(p) => NoticeHasOwner'
    BY DEF AddNotice
  <2>8. DeleteLock(p) => NoticeHasOwner'
    BY DEF DeleteLock
  <2>9. RemoveNotice(p) => NoticeHasOwner'
    BY DEF RemoveNotice
  <2>10. ClearOnError(p) => NoticeHasOwner'
    BY DEF ClearOnError
  <2>11. ClearInMain(p) => NoticeHasOwner'
    BY DEF ClearInMain
  <2>12. Start(p) => NoticeHasOwner'
    BY DEF Start
  <2>13. FailBeforeLock(p) => NoticeHasOwner'
    BY DEF FailBeforeLock
  <2>14. FailToGrab(p) => NoticeHasOwner'
    BY DEF FailToGrab, Raise
  <2>15. EndBody(p) => NoticeHasOwner'
    BY DEF EndBody
  <2>16. DetachInside(p) => NoticeHasOwner'
    BY DEF DetachInside
  <2>17. Interrupt(p) => NoticeHasOwner'
    BY DEF Interrupt
  <2>18. Kill(p) => NoticeHasOwner'
    BY DEF Kill
  <2> QED
    BY <2>1, <2>2, <2>3, <2>4, <2>5, <2>6, <2>7, <2>8, <2>9, <2>10, <2>11, <2>12,
       <2>13, <2>14, <2>15, <2>16, <2>17, <2>18, <1>2, Zenon DEF Proceed, Happen
<1> QED
  BY <1>1, <1>2 DEF Next

\* The notice of an operation in progress outlives every section only when a process
\* was killed.
THEOREM NoticeOwned == Spec => []NoticeHasOwner
<1>1. Init => NoticeHasOwner
  BY DEF Init, NoticeHasOwner
<1> QED
  BY TypeInit, TypeStep, NoticeStep, <1>1, PTL DEF Spec
=============================================================================
