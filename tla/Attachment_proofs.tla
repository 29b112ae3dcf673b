--------------------------- MODULE Attachment_proofs ---------------------------
(***************************************************************************)
(* Proofs about Attachment, for every set of processes.                    *)
(***************************************************************************)
EXTENDS Attachment, TLAPS

LEMMA TypeInit == Init => TypeOK
BY DEF Init, TypeOK, Labels, Tokens, FileNames

LEMMA TypeStep == TypeOK /\ [Next]_vars => TypeOK'
<1> SUFFICES ASSUME TypeOK, [Next]_vars PROVE TypeOK'
  OBVIOUS
<1>1. CASE UNCHANGED vars
  BY <1>1 DEF vars, TypeOK
<1>2. ASSUME NEW p \in Procs, Step(p)
      PROVE  TypeOK'
  <2> USE WorldsAssumption, SystemctlAssumption DEF TypeOK, Goto, tokenFiles, Labels, Tokens, FileNames
  <2>1. CheckUnattached(p) => TypeOK'
    BY DEF CheckUnattached, Load, Known
  <2>2. CheckAttached(p) => TypeOK'
    BY DEF CheckAttached, Load, Known
  <2>3. StartMetering(p) => TypeOK'
    BY DEF StartMetering, Load, Known
  <2>4. StartUnchecked(p) => TypeOK'
    BY DEF StartUnchecked
  <2>5. StartMessaging(p) => TypeOK'
    BY DEF StartMessaging, GoOn
  <2>6. Acquire(p) => TypeOK'
    BY DEF Acquire
  <2>7. FindExpired(p) => TypeOK'
    BY DEF FindExpired, Load, Known
  <2>8. GiveUp(p) => TypeOK'
    BY DEF GiveUp, Leave, GoOn
  <2>9. CheckInLock(p) => TypeOK'
    BY DEF CheckInLock, Load, Known
  <2>10. Unlock(p) => TypeOK'
    BY DEF Unlock, Leave, GoOn
  <2>11. AddMachine(p) => TypeOK'
    BY DEF AddMachine
  <2>12. WritePrivate(p) => TypeOK'
    BY DEF WritePrivate
  <2>13. WritePublic(p) => TypeOK'
    BY DEF WritePublic, Forget
  <2>14. CheckDirectives(p) => TypeOK'
    <3>1. Known(p) \in Tokens \cup {NoToken}
      BY DEF Known
    <3>2. CheckDirectives(p) => files' \subseteq FileNames /\ pc' \in [Procs -> Labels]
      BY DEF CheckDirectives
    <3> QED
      BY <3>1, <3>2 DEF CheckDirectives, Load
  <2>15. UndoPublic(p) => TypeOK'
    BY DEF UndoPublic
  <2>16. UndoPrivate(p) => TypeOK'
    BY DEF UndoPrivate, Forget
  <2>17. EnableDefaults(p) => TypeOK'
    BY DEF EnableDefaults, GoOn
  <2>18. StartTimer(p) => TypeOK'
    BY DEF StartTimer
  <2>19. UpdateMotd(p) => TypeOK'
    BY DEF UpdateMotd, Load, Known, Failed
  <2>20. AskServer(p) => TypeOK'
    BY DEF AskServer, Load, Known, GoOn, Failed
  <2>21. SavePrivate(p) => TypeOK'
    BY DEF SavePrivate
  <2>22. SavePublic(p) => TypeOK'
    BY DEF SavePublic, Forget
  <2>23. WriteMachineId(p) => TypeOK'
    BY DEF WriteMachineId
  <2>24. EnableService(p) => TypeOK'
    BY DEF EnableService
  <2>25. DisableServices(p) => TypeOK'
    BY DEF DisableServices
  <2>26. DeletePublic(p) => TypeOK'
    BY DEF DeletePublic
  <2>27. DeletePrivate(p) => TypeOK'
    BY DEF DeletePrivate, Forget, GoOn
  <2>28. DeleteState(p) => TypeOK'
    BY DEF DeleteState
  <2>29. StopTimer(p) => TypeOK'
    BY DEF StopTimer
  <2>30. Kill(p) => TypeOK'
    BY DEF Kill
  <2> QED
    BY <2>1, <2>2, <2>3, <2>4, <2>5, <2>6, <2>7, <2>8,
       <2>9, <2>10, <2>11, <2>12, <2>13, <2>14, <2>15, <2>16,
       <2>17, <2>18, <2>19, <2>20, <2>21, <2>22, <2>23, <2>24,
       <2>25, <2>26, <2>27, <2>28, <2>29, <2>30, <1>2, Zenon DEF Step
<1> QED
  BY <1>1, <1>2 DEF Next

\* Every variable keeps its type, whatever the processes do.
THEOREM TypeCorrect == Spec => []TypeOK
BY TypeInit, TypeStep, PTL DEF Spec

-----------------------------------------------------------------------------
(* Commands that decide under the lock. *)

\* Every process runs auto-attach, detach or refresh: the commands that look at the
\* token under the lock, or only delete it.
Locked == \A w \in Worlds : w \in [Procs -> LockedKinds]

\* The inductive invariant of such worlds.
WorkInv == HolderAtWork /\ PublicImpliesPrivate /\ \A p \in Procs : TokenInForce(p)

LEMMA WorkInit == Init /\ Locked => WorkInv
BY NamesAssumption DEF Init, WorkInv, HolderAtWork, PublicImpliesPrivate, TokenInForce, Outside, Locked

LEMMA WorkStep == TypeOK /\ Locked /\ WorkInv /\ [Next]_vars => WorkInv'
<1> SUFFICES ASSUME TypeOK, Locked, WorkInv, [Next]_vars PROVE WorkInv'
  OBVIOUS
<1>1. CASE UNCHANGED vars
  BY <1>1 DEF vars, WorkInv, HolderAtWork, PublicImpliesPrivate, TokenInForce
<1>2. ASSUME NEW p \in Procs, Step(p)
      PROVE  WorkInv'
  <2>0. kind \in [Procs -> LockedKinds]
    BY DEF TypeOK, Locked
  <2> USE NamesAssumption, <2>0 DEF TypeOK, Goto, tokenFiles, Tokens, WorkInv, HolderAtWork,
          PublicImpliesPrivate, TokenInForce, Outside, LockedKinds
  <2>1. CheckUnattached(p) => WorkInv'
    BY DEF CheckUnattached, Load, Known
  <2>2. CheckAttached(p) => WorkInv'
    BY DEF CheckAttached, Load, Known
  <2>3. StartMetering(p) => WorkInv'
    BY DEF StartMetering, Load, Known
  <2>4. StartUnchecked(p) => WorkInv'
    BY DEF StartUnchecked
  <2>5. StartMessaging(p) => WorkInv'
    BY DEF StartMessaging, GoOn
  <2>6. Acquire(p) => WorkInv'
    BY DEF Acquire
  <2>7. FindExpired(p) => WorkInv'
    BY DEF FindExpired, Load, Known
  <2>8. GiveUp(p) => WorkInv'
    BY DEF GiveUp, Leave, GoOn
  <2>9. CheckInLock(p) => WorkInv'
    BY DEF CheckInLock, Load, Known
  <2>10. Unlock(p) => WorkInv'
    BY DEF Unlock, Leave, GoOn
  <2>11. AddMachine(p) => WorkInv'
    BY DEF AddMachine
  <2>12. WritePrivate(p) => WorkInv'
    BY DEF WritePrivate
  <2>13. WritePublic(p) => WorkInv'
    BY DEF WritePublic, Forget
  <2>14. CheckDirectives(p) => WorkInv'
    BY DEF CheckDirectives, Load, Known
  <2>15. UndoPublic(p) => WorkInv'
    BY DEF UndoPublic
  <2>16. UndoPrivate(p) => WorkInv'
    BY DEF UndoPrivate, Forget
  <2>17. EnableDefaults(p) => WorkInv'
    BY DEF EnableDefaults, GoOn
  <2>18. StartTimer(p) => WorkInv'
    BY DEF StartTimer
  <2>19. UpdateMotd(p) => WorkInv'
    BY DEF UpdateMotd, Load, Known, Failed
  <2>20. AskServer(p) => WorkInv'
    BY DEF AskServer, Load, Known, GoOn, Failed
  <2>21. SavePrivate(p) => WorkInv'
    BY DEF SavePrivate
  <2>22. SavePublic(p) => WorkInv'
    BY DEF SavePublic, Forget
  <2>23. WriteMachineId(p) => WorkInv'
    BY DEF WriteMachineId
  <2>24. EnableService(p) => WorkInv'
    BY DEF EnableService
  <2>25. DisableServices(p) => WorkInv'
    BY DEF DisableServices
  <2>26. DeletePublic(p) => WorkInv'
    BY DEF DeletePublic
  <2>27. DeletePrivate(p) => WorkInv'
    BY DEF DeletePrivate, Forget, GoOn
  <2>28. DeleteState(p) => WorkInv'
    BY DEF DeleteState
  <2>29. StopTimer(p) => WorkInv'
    BY DEF StopTimer
  <2>30. Kill(p) => WorkInv'
    BY DEF Kill
  <2> QED
    BY <2>1, <2>2, <2>3, <2>4, <2>5, <2>6, <2>7, <2>8,
       <2>9, <2>10, <2>11, <2>12, <2>13, <2>14, <2>15, <2>16,
       <2>17, <2>18, <2>19, <2>20, <2>21, <2>22, <2>23, <2>24,
       <2>25, <2>26, <2>27, <2>28, <2>29, <2>30,
       <1>2, Zenon DEF Step
<1> QED
  BY <1>1, <1>2 DEF Next

-----------------------------------------------------------------------------
(* Nobody at work, nobody stopped halfway. *)

Consistent ==
    /\ private = public
    /\ ("machine_id" \in files) = (private # NoToken)
    /\ ("attachment_data" \in files) = (private # NoToken)
    /\ timer => private # NoToken \/ SystemctlFails
Clean == "machine_id" \notin files /\ "attachment_data" \notin files

\* What the files are like before each step of the one process at work.
FilesAt(p) ==
    /\ pc[p] \in {"check", "server", "write_private", "unlock", "disable_all", "enable"} => Consistent
    /\ pc[p] \in {"write_public", "unique", "undo_public", "undo_private"} =>
          Clean /\ (timer => SystemctlFails)
    /\ pc[p] = "unique" => public = private
    /\ pc[p] = "services" => private = public /\ private # NoToken /\ "machine_id" \in files
    /\ \/ pc[p] \in {"timer", "refresh", "activity", "save_private", "save_public", "machine_id"}
       \/ pc[p] = "motd" /\ after[p] # "stop"
       => Consistent /\ private # NoToken
    /\ \/ pc[p] = "stop"
       \/ pc[p] = "motd" /\ after[p] = "stop"
       \/ pc[p] \in {"del_public", "del_private"} /\ kind[p] # "detach_cli"
       => Clean

SettledInv ==
    (\A q \in Procs : pc[q] # "killed") =>
        (lock = NoProc => Consistent) /\ \A p \in Procs : FilesAt(p)

LEMMA SettledInit == Init => SettledInv
<1> SUFFICES ASSUME Init PROVE SettledInv
  OBVIOUS
<1>1. OldToken # NoToken /\ public = private
  BY NamesAssumption DEF Tokens, Init
<1>2. \/ private = NoToken /\ files = {} /\ timer = FALSE
      \/ private = OldToken /\ files = {"machine_id", "attachment_data"} /\ timer = TRUE
  BY DEF Init
<1>3. Consistent
  BY <1>1, <1>2 DEF Consistent
<1>4. \A p \in Procs : pc[p] = "start"
  BY DEF Init
<1> QED
  BY <1>3, <1>4 DEF SettledInv, FilesAt

LEMMA SettledStep == TypeOK /\ Locked /\ WorkInv /\ SettledInv /\ [Next]_vars => SettledInv'
<1> SUFFICES ASSUME TypeOK, Locked, WorkInv, SettledInv, [Next]_vars PROVE SettledInv'
  OBVIOUS
<1>1. CASE UNCHANGED vars
  BY <1>1 DEF vars, SettledInv, FilesAt, Consistent, Clean
<1>2. ASSUME NEW p \in Procs, Step(p)
      PROVE  SettledInv'
  <2>0. kind \in [Procs -> LockedKinds]
    BY DEF TypeOK, Locked
  <2> USE NamesAssumption, <2>0 DEF TypeOK, Goto, tokenFiles, Tokens, WorkInv, HolderAtWork,
          TokenInForce, Outside, LockedKinds, SettledInv, FilesAt, Consistent, Clean, FileNames
  <2>1. CheckUnattached(p) => SettledInv'
    BY DEF CheckUnattached, Load, Known
  <2>2. CheckAttached(p) => SettledInv'
    BY DEF CheckAttached, Load, Known
  <2>3. StartMetering(p) => SettledInv'
    BY DEF StartMetering, Load, Known
  <2>4. StartUnchecked(p) => SettledInv'
    BY DEF StartUnchecked
  <2>5. StartMessaging(p) => SettledInv'
    BY DEF StartMessaging, GoOn
  <2>6. Acquire(p) => SettledInv'
    BY DEF Acquire
  <2>7. FindExpired(p) => SettledInv'
    BY DEF FindExpired, Load, Known
  <2>8. GiveUp(p) => SettledInv'
    BY DEF GiveUp, Leave, GoOn
  <2>9. CheckInLock(p) => SettledInv'
    BY DEF CheckInLock, Load, Known
  <2>10. Unlock(p) => SettledInv'
    BY DEF Unlock, Leave, GoOn
  <2>11. AddMachine(p) => SettledInv'
    BY DEF AddMachine
  <2>12. WritePrivate(p) => SettledInv'
    BY DEF WritePrivate
  <2>13. WritePublic(p) => SettledInv'
    BY DEF WritePublic, Forget
  <2>14. CheckDirectives(p) => SettledInv'
    BY DEF CheckDirectives, Load, Known
  <2>15. UndoPublic(p) => SettledInv'
    BY DEF UndoPublic
  <2>16. UndoPrivate(p) => SettledInv'
    BY DEF UndoPrivate, Forget
  <2>17. EnableDefaults(p) => SettledInv'
    BY DEF EnableDefaults, GoOn
  <2>18. StartTimer(p) => SettledInv'
    BY DEF StartTimer
  <2>19. UpdateMotd(p) => SettledInv'
    BY DEF UpdateMotd, Load, Known, Failed
  <2>20. AskServer(p) => SettledInv'
    BY DEF AskServer, Load, Known, GoOn, Failed
  <2>21. SavePrivate(p) => SettledInv'
    BY DEF SavePrivate
  <2>22. SavePublic(p) => SettledInv'
    BY DEF SavePublic, Forget
  <2>23. WriteMachineId(p) => SettledInv'
    BY DEF WriteMachineId
  <2>24. EnableService(p) => SettledInv'
    BY DEF EnableService
  <2>25. DisableServices(p) => SettledInv'
    BY DEF DisableServices
  <2>26. DeletePublic(p) => SettledInv'
    BY DEF DeletePublic
  <2>27. DeletePrivate(p) => SettledInv'
    BY DEF DeletePrivate, Forget, GoOn
  <2>28. DeleteState(p) => SettledInv'
    BY DEF DeleteState
  <2>29. StopTimer(p) => SettledInv'
    <3> SUFFICES ASSUME StopTimer(p), \A q \in Procs : pc'[q] # "killed" PROVE SettledInv'
      OBVIOUS
    <3>1. /\ pc[p] = "stop" /\ pc' = [pc EXCEPT ![p] = "unlock"] /\ (timer' => SystemctlFails)
          /\ UNCHANGED <<private, public, files, lock, kind, cache, after>>
      BY DEF StopTimer
    <3>2. \A q \in Procs : pc[q] # "killed"
      BY <3>1
    <3>3. Clean /\ private = NoToken /\ public = NoToken /\ lock = p /\ p # NoProc
      BY <3>1, <3>2
    <3>4. Consistent'
      BY <3>1, <3>3
    <3>5. ASSUME NEW q \in Procs, q # p PROVE pc'[q] \in Outside
      BY <3>1, <3>3, <3>5
    <3>6. \A q \in Procs : FilesAt(q)'
      BY <3>1, <3>4, <3>5
    <3> QED
      BY <3>4, <3>6
  <2>30. Kill(p) => SettledInv'
    BY DEF Kill
  <2> QED
    BY <2>1, <2>2, <2>3, <2>4, <2>5, <2>6, <2>7, <2>8,
       <2>9, <2>10, <2>11, <2>12, <2>13, <2>14, <2>15, <2>16,
       <2>17, <2>18, <2>19, <2>20, <2>21, <2>22, <2>23, <2>24,
       <2>25, <2>26, <2>27, <2>28, <2>29, <2>30,
       <1>2, Zenon DEF Step
<1> QED
  BY <1>1, <1>2 DEF Next

\* For such commands, with nobody at work and nobody stopped halfway: the two copies of the
\* token agree, the files that go with an attachment are there exactly if there is one, and
\* the timer runs on no unattached machine.
THEOREM QuiescentIsConsistent == ASSUME Locked PROVE Spec => []QuiescentConsistent
<1>1. Init => TypeOK /\ WorkInv /\ SettledInv
  BY Locked, WorkInit, TypeInit, SettledInit
<1>2. TypeOK /\ WorkInv /\ SettledInv /\ [Next]_vars => (TypeOK /\ WorkInv /\ SettledInv)'
  BY Locked, WorkStep, TypeStep, SettledStep
<1>3. TypeOK /\ WorkInv /\ SettledInv => QuiescentConsistent
  BY DEF WorkInv, HolderAtWork, Outside, SettledInv, Consistent, Quiescent, QuiescentConsistent, TypeOK
<1> QED
  BY <1>1, <1>2, <1>3, PTL DEF Spec

\* For such commands the world-readable copy never shows a subscription that the
\* root-only file lacks, however many processes write and die.
THEOREM PublicNeverAlone == ASSUME Locked PROVE Spec => []PublicImpliesPrivate
<1>1. Init => TypeOK /\ WorkInv
  BY Locked, WorkInit, TypeInit
<1>2. TypeOK /\ WorkInv /\ [Next]_vars => (TypeOK /\ WorkInv)'
  BY Locked, WorkStep, TypeStep
<1>3. WorkInv => PublicImpliesPrivate
  BY DEF WorkInv
<1> QED
  BY <1>1, <1>2, <1>3, PTL DEF Spec

\* For such commands a detach that reaches its last step has left no token behind.
THEOREM DetachComplete == ASSUME Locked PROVE Spec => []DetachDetaches
<1>1. Init => TypeOK /\ WorkInv
  BY Locked, WorkInit, TypeInit
<1>2. TypeOK /\ WorkInv /\ [Next]_vars => (TypeOK /\ WorkInv)'
  BY Locked, WorkStep, TypeStep
<1>3. WorkInv => DetachDetaches
  BY DEF WorkInv, TokenInForce, DetachDetaches
<1> QED
  BY <1>1, <1>2, <1>3, PTL DEF Spec

\* What such a step does to the token: only attach_with_token's write brings one in.
LEMMA TokenStep ==
    ASSUME TypeOK, WorkInv, Next
    PROVE  \/ private' = private
           \/ private # NoToken /\ private' = NoToken
           \/ private = NoToken /\ private' \in Procs /\ \E p \in Procs : WritePrivate(p)
<1> SUFFICES ASSUME NEW p \in Procs, Step(p)
             PROVE  \/ private' = private
                    \/ private # NoToken /\ private' = NoToken
                    \/ private = NoToken /\ private' \in Procs /\ \E q \in Procs : WritePrivate(q)
  BY DEF Next
<1>1. CASE WritePrivate(p)
  <2>1. private = NoToken /\ private' = p
    BY <1>1 DEF WritePrivate, WorkInv, TokenInForce
  <2> QED
    BY <1>1, <2>1
<1>2. CASE SavePrivate(p)
  BY <1>2 DEF SavePrivate, WorkInv, TokenInForce
<1>3. CASE UndoPrivate(p) \/ DeletePrivate(p)
  BY <1>3 DEF UndoPrivate, DeletePrivate
<1>4. CASE UNCHANGED private
  BY <1>4
<1>5. UNCHANGED private \/ WritePrivate(p) \/ SavePrivate(p) \/ UndoPrivate(p) \/ DeletePrivate(p)
  BY DEF Step, tokenFiles, CheckUnattached, CheckAttached, StartMetering, StartUnchecked,
         StartMessaging, Acquire, FindExpired, GiveUp, CheckInLock, Unlock, AddMachine,
         WritePublic, CheckDirectives, UndoPublic, EnableDefaults, StartTimer, UpdateMotd,
         AskServer, SavePublic, WriteMachineId, EnableService, DisableServices,
         DeletePublic, DeleteState, StopTimer, Kill
<1> QED
  BY <1>1, <1>2, <1>3, <1>4, <1>5

\* For such commands the two token files, with all their writers and crashes, implement
\* the subscription: attach only when unattached, and keep it until a detach.
THEOREM Implements == ASSUME Locked PROVE Spec => SubscriptionSpec
<1>1. Init => TypeOK /\ WorkInv /\ Sub!Init
  BY Locked, WorkInit, TypeInit DEF Init, Sub!Init, Tokens
<1>2. TypeOK /\ WorkInv /\ [Next]_vars => (TypeOK /\ WorkInv)'
  BY Locked, WorkStep, TypeStep
<1>3. TypeOK /\ WorkInv /\ [Next]_vars => [Sub!Attach \/ Sub!Detach]_private
  <2>1. CASE UNCHANGED vars
    BY <2>1 DEF vars
  <2>2. ASSUME TypeOK, WorkInv, Next
        PROVE  [Sub!Attach \/ Sub!Detach]_private
    BY <2>2, TokenStep DEF Sub!Attach, Sub!Detach, Tokens
  <2> QED
    BY <2>1, <2>2
<1> QED
  BY <1>1, <1>2, <1>3, PTL DEF Spec, SubscriptionSpec, Sub!Spec

\* For such commands an unattached machine becomes attached only by an attach; with the
\* jobs of ua-timer or "pro disable" at work it may be attached again behind a detach.
THEOREM AttachAttaches == ASSUME Locked PROVE Spec => OnlyAttachAttaches
<1>1. Init => TypeOK /\ WorkInv
  BY Locked, WorkInit, TypeInit
<1>2. TypeOK /\ WorkInv /\ [Next]_vars => (TypeOK /\ WorkInv)'
  BY Locked, WorkStep, TypeStep
<1>3. TypeOK /\ WorkInv /\ [Next]_vars =>
        [private = NoToken /\ private' # NoToken => \E p \in Procs : WritePrivate(p)]_vars
  BY TokenStep
<1> QED
  BY <1>1, <1>2, <1>3, PTL DEF Spec, OnlyAttachAttaches

=============================================================================
