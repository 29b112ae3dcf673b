------------------------------- MODULE ProLock -------------------------------
(***************************************************************************)
(* The lock file of the client (uaclient/lock.py) with every kind of       *)
(* process that takes, inspects or clears it.  The lock is a file naming   *)
(* the pid and the command of its holder; it is looked at, found stale,    *)
(* removed, written and deleted in separate system calls, so each of these *)
(* is a step of its own here.  A process stands for its pid.               *)
(***************************************************************************)
EXTENDS Naturals

CONSTANTS
    Procs,       \* the processes of the client
    NoPid,       \* the content of an absent lock file
    MaxRetries,  \* RetryLock.max_retries
    ApiCallers,  \* wrap the section in "except Exception: clear_lock_file_if_present()"
    CliCallers,  \* run under main_error_handler
    Detachers,   \* lib/reboot_cmds.py: may detach from inside its own section
    Daemons,     \* take the lock again and again during one life
    Viewers      \* "pro status" as root: inspect the lock, never take it

ASSUME ProcsAssumption == NoPid \notin Procs
ASSUME RetriesAssumption == MaxRetries \in Nat \ {0}
ASSUME KindsAssumption ==
    /\ ApiCallers \subseteq Procs /\ CliCallers \subseteq Procs
    /\ Detachers \subseteq Procs \ (ApiCallers \cup CliCallers \cup Viewers)
    /\ Daemons \subseteq Procs /\ Viewers \subseteq Procs

VARIABLES
    lock,    \* the pid in the lock file, or NoPid
    notice,  \* whether the OPERATION_IN_PROGRESS notice file exists
    pc,      \* what each process is about to do
    seen,    \* the pid each process read from the lock file last
    tries,   \* RetryLock.__enter__'s count of failed attempts
    err,     \* the exception that is leaving the section
    nested,  \* TRUE while detach() runs inside the section of a Detacher
    breach   \* history: the first step that took the lock from a live process

vars == <<lock, notice, pc, seen, tries, err, nested, breach>>

Waiting == {"check", "ps", "remove", "sleep"}
Finished == {"exited", "killed"}
Labels == {"idle", "write", "notice", "body", "delete", "unnotice", "clear", "main"}
              \cup Waiting \cup Finished
Errors == {"none", "held", "error", "interrupt"}
Causes == {"none", "overwrite", "stale_removal", "error_clear", "detach_clear", "release"}

\* "ps <pid>" finds no process.
Dead(q) == q # NoPid /\ pc[q] \in Finished

\* The lock file names a live process other than p.
Foreign(p) == lock \notin {NoPid, p} /\ ~Dead(lock)

Blame(cause, cond) == breach' = IF breach = "none" /\ cond THEN cause ELSE breach

Init ==
    /\ lock = NoPid /\ notice = FALSE /\ breach = "none"
    /\ pc = [p \in Procs |-> "idle"]
    /\ seen = [p \in Procs |-> NoPid]
    /\ tries = [p \in Procs |-> 0]
    /\ err = [p \in Procs |-> "none"]
    /\ nested = [p \in Procs |-> FALSE]

-----------------------------------------------------------------------------
(* Where control goes. *)

Goto(p, label) == pc' = [pc EXCEPT ![p] = label]

\* The command is over: a daemon goes on, any other process exits.
Over(p) == IF p \in Daemons THEN "idle" ELSE "exited"

\* Exception e leaves main_error_handler's try: only LockHeldError spares the lock.
AtMain(p, e) == IF p \in CliCallers /\ e # "held" THEN "main"
                ELSE IF e = "error" /\ p \notin ApiCallers THEN "exited" ELSE Over(p)

\* Mutant of AtExcept: the API calls clear up only after errors of the client's own.
AtExceptNarrow(p, e) == IF (p \in ApiCallers \/ nested[p]) /\ e = "held"
                        THEN "clear" ELSE AtMain(p, e)

\* Exception e leaves the with statement (or RetryLock.__enter__).
AtExcept(p, e) == IF (p \in ApiCallers \/ nested[p]) /\ e # "interrupt"
                  THEN "clear" ELSE AtMain(p, e)

Raise(p, e) == err' = [err EXCEPT ![p] = e] /\ Goto(p, AtExcept(p, e))

-----------------------------------------------------------------------------
(* The steps. *)

\* A command reaches the point where it looks at the lock.
Start(p) ==
    /\ pc[p] = "idle"
    /\ Goto(p, "check")
    /\ tries' = [tries EXCEPT ![p] = 0]
    /\ err' = [err EXCEPT ![p] = "none"]
    /\ UNCHANGED <<lock, notice, seen, nested, breach>>

\* A CLI command fails before it takes the lock, or never takes it: "attach" on an
\* attached machine, "detach" on an unattached one, "status" without a network, ...
FailBeforeLock(p) ==
    /\ pc[p] = "idle" /\ p \in CliCallers
    /\ Goto(p, "main")
    /\ err' = [err EXCEPT ![p] = "error"]
    /\ UNCHANGED <<lock, notice, seen, tries, nested, breach>>

\* check_lock_info found no active lock.
NoLock(p) == Goto(p, IF p \in Viewers THEN Over(p) ELSE "write")

\* check_lock_info reads the lock file ...
ReadLock(p) ==
    /\ pc[p] = "check"
    /\ IF lock = NoPid THEN NoLock(p) ELSE Goto(p, "ps")
    /\ seen' = [seen EXCEPT ![p] = lock]
    /\ UNCHANGED <<lock, notice, tries, err, nested, breach>>

\* ... looks for the process it names ...
LockHeld(p) ==
    /\ pc[p] = "ps" /\ ~Dead(seen[p])
    /\ \/ /\ p \in Viewers
          /\ Goto(p, Over(p))
          /\ UNCHANGED <<tries, err>>
       \/ /\ p \notin Viewers
          /\ tries' = [tries EXCEPT ![p] = @ + 1]
          /\ IF tries'[p] >= MaxRetries
             THEN Raise(p, "held")
             ELSE Goto(p, "sleep") /\ UNCHANGED err
    /\ UNCHANGED <<lock, notice, seen, nested, breach>>

\* Mutant of FindStale: a file that names no process counts as held.
FindStaleHeld(p) ==
    /\ pc[p] = "ps" /\ Dead(seen[p])
    /\ tries' = [tries EXCEPT ![p] = @ + 1]
    /\ IF tries'[p] >= MaxRetries
       THEN Raise(p, "held")
       ELSE Goto(p, "sleep") /\ UNCHANGED err
    /\ UNCHANGED <<lock, notice, seen, nested, breach>>

\* ... and decides that the file is stale.  It is removed by a later system call,
\* whatever it contains by then.
FindStale(p) ==
    /\ pc[p] = "ps" /\ Dead(seen[p])
    /\ Goto(p, "remove")
    /\ UNCHANGED <<lock, notice, seen, tries, err, nested, breach>>

RemoveStale(p) ==
    /\ pc[p] = "remove"
    /\ lock' = NoPid
    /\ Blame("stale_removal", Foreign(p))
    /\ NoLock(p)
    /\ UNCHANGED <<notice, seen, tries, err, nested>>

\* Mutant of WakeUp: the count starts again with every attempt.
WakeUpAfresh(p) ==
    /\ pc[p] = "sleep"
    /\ Goto(p, "check")
    /\ tries' = [tries EXCEPT ![p] = 0]
    /\ UNCHANGED <<lock, notice, seen, err, nested, breach>>

\* time.sleep(sleep_time) is over: the next attempt of RetryLock.__enter__.
WakeUp(p) ==
    /\ pc[p] = "sleep"
    /\ Goto(p, "check")
    /\ UNCHANGED <<lock, notice, seen, tries, err, nested, breach>>

\* Mutant of WriteLock: an exclusive create whose failure goes unnoticed.
WriteLockIfAbsent(p) ==
    /\ pc[p] = "write"
    /\ lock' = IF lock = NoPid THEN p ELSE lock
    /\ Goto(p, "notice")
    /\ UNCHANGED <<notice, seen, tries, err, nested, breach>>

\* grab_lock writes its own pid, whatever the file contains by now.
WriteLock(p) ==
    /\ pc[p] = "write"
    /\ lock' = p
    /\ Blame("overwrite", Foreign(p))
    /\ Goto(p, "notice")
    /\ UNCHANGED <<notice, seen, tries, err, nested>>

\* grab_lock adds the notice; the body of the with statement comes next.
AddNotice(p) ==
    /\ pc[p] = "notice"
    /\ notice' = TRUE
    /\ Goto(p, "body")
    /\ UNCHANGED <<lock, seen, tries, err, nested, breach>>

\* Mutant of FailToGrab: __exit__ runs although __enter__ failed.
FailToGrabExits(p) ==
    /\ pc[p] \in {"write", "notice"}
    /\ err' = [err EXCEPT ![p] = "error"]
    /\ Goto(p, "delete")
    /\ UNCHANGED <<lock, notice, seen, tries, nested, breach>>

\* The disk refuses grab_lock's write or the notice: __enter__ raises, so __exit__ never runs.
FailToGrab(p) ==
    /\ pc[p] \in {"write", "notice"}
    /\ Raise(p, "error")
    /\ UNCHANGED <<lock, notice, seen, tries, nested, breach>>

\* The body returns or raises; either way __exit__ runs.
EndBody(p) ==
    /\ pc[p] = "body"
    /\ \E e \in {"none", "error"} : err' = [err EXCEPT ![p] = e]
    /\ Goto(p, "delete")
    /\ UNCHANGED <<lock, notice, seen, tries, nested, breach>>

\* validate_release_series clears the lock its own process holds, so that detach()
\* can take it.
DetachInside(p) ==
    /\ pc[p] = "body" /\ p \in Detachers /\ ~nested[p]
    /\ lock' = NoPid
    /\ Blame("detach_clear", lock # NoPid /\ ~Dead(lock))
    /\ nested' = [nested EXCEPT ![p] = TRUE]
    /\ tries' = [tries EXCEPT ![p] = 0]
    /\ Goto(p, "check")
    /\ UNCHANGED <<notice, seen, err>>

\* RetryLock.__exit__: delete the file, whoever it names ...
DeleteLock(p) ==
    /\ pc[p] = "delete"
    /\ lock' = NoPid
    /\ Blame("release", Foreign(p))
    /\ Goto(p, "unnotice")
    /\ UNCHANGED <<notice, seen, tries, err, nested>>

\* Mutant of RemoveNotice: an exception leaves the notice behind.
RemoveNoticeOnSuccess(p) ==
    /\ pc[p] = "unnotice"
    /\ notice' = (notice /\ err[p] # "none")
    /\ IF err[p] # "none"
       THEN Goto(p, AtExcept(p, err[p])) /\ UNCHANGED nested
       ELSE /\ Goto(p, IF nested[p] THEN "body" ELSE Over(p))
            /\ nested' = [nested EXCEPT ![p] = FALSE]
    /\ UNCHANGED <<lock, seen, tries, err, breach>>

\* ... and then the notice.  The section of a nested detach() returns into the outer body.
RemoveNotice(p) ==
    /\ pc[p] = "unnotice"
    /\ notice' = FALSE
    /\ IF err[p] # "none"
       THEN Goto(p, AtExcept(p, err[p])) /\ UNCHANGED nested
       ELSE /\ Goto(p, IF nested[p] THEN "body" ELSE Over(p))
            /\ nested' = [nested EXCEPT ![p] = FALSE]
    /\ UNCHANGED <<lock, seen, tries, err, breach>>

\* "except Exception: lock.clear_lock_file_if_present(); raise".  Inside a Detacher the
\* exception goes on to the outer with statement.
ClearOnError(p) ==
    /\ pc[p] = "clear"
    /\ lock' = NoPid
    /\ Blame("error_clear", Foreign(p))
    /\ Goto(p, IF nested[p] THEN "delete" ELSE AtMain(p, err[p]))
    /\ nested' = [nested EXCEPT ![p] = FALSE]
    /\ UNCHANGED <<notice, seen, tries, err>>

\* main_error_handler clears the lock and exits.
ClearInMain(p) ==
    /\ pc[p] = "main"
    /\ lock' = NoPid
    /\ Blame("error_clear", Foreign(p))
    /\ Goto(p, Over(p))
    /\ UNCHANGED <<notice, seen, tries, err, nested>>

\* Ctrl-C at one of the points where a CLI command blocks.
Interrupt(p) ==
    /\ p \in CliCallers /\ pc[p] \in {"ps", "sleep", "body"}
    /\ err' = [err EXCEPT ![p] = "interrupt"]
    /\ Goto(p, IF pc[p] = "body" THEN "delete" ELSE "main")
    /\ UNCHANGED <<lock, notice, seen, tries, nested, breach>>

\* SIGKILL or a crash: nothing runs any more, the files stay.
Kill(p) ==
    /\ pc[p] \notin Finished
    /\ Goto(p, "killed")
    /\ UNCHANGED <<lock, notice, seen, tries, err, nested, breach>>

-----------------------------------------------------------------------------

\* Steps that follow at once or after a bounded sleep.
Proceed(p) ==
    \/ ReadLock(p) \/ LockHeld(p) \/ FindStale(p) \/ RemoveStale(p) \/ WakeUp(p)
    \/ WriteLock(p) \/ AddNotice(p) \/ DeleteLock(p) \/ RemoveNotice(p)
    \/ ClearOnError(p) \/ ClearInMain(p)

\* Steps nothing forces: commands given, failures, and the end of a body that may
\* talk to a server or wait for a user.
Happen(p) ==
    \/ Start(p) \/ FailBeforeLock(p) \/ FailToGrab(p) \/ EndBody(p)
    \/ DetachInside(p) \/ Interrupt(p) \/ Kill(p)

Next == \E p \in Procs : Proceed(p) \/ Happen(p)

Spec == Init /\ [][Next]_vars

FairSpec == Spec /\ \A p \in Procs : WF_vars(Proceed(p))

-----------------------------------------------------------------------------
(* Properties. *)

\* The types of the variables; a process never counts more than MaxRetries attempts.
TypeOK ==
    /\ lock \in Procs \cup {NoPid}
    /\ notice \in BOOLEAN
    /\ pc \in [Procs -> Labels]
    /\ seen \in [Procs -> Procs \cup {NoPid}]
    /\ tries \in [Procs -> 0 .. MaxRetries]
    /\ err \in [Procs -> Errors]
    /\ nested \in [Procs -> BOOLEAN]
    /\ breach \in Causes

\* p runs code the lock is meant to protect; a nested detach() is part of its outer section.
InSection(p) == pc[p] = "body" \/ (nested[p] /\ pc[p] \notin Finished)

\* The strengthening of the two properties below: as long as no live process has lost
\* the lock, a process between grab_lock's write and __exit__'s delete is the one the
\* file names, and attempts are counted up to the limit only.
SectionOwnsLock ==
    breach = "none" => \A p \in Procs :
        /\ pc[p] \in {"notice", "body", "delete"} => lock = p
        /\ ~nested[p]
TriesLeft ==
    \A p \in Procs : pc[p] \in {"check", "ps", "sleep"} => tries[p] < MaxRetries

\* RetryLock is a "context manager for gaining exclusive access": no two processes
\* are inside their sections.  The code does not achieve it.
MutualExclusion == \A p, q \in Procs : InSection(p) /\ InSection(q) => p = q

\* What the code achieves: sections overlap only after some step took the lock file
\* from a live process -- a write or a stale removal decided on an old reading, or
\* one of the unconditional clears.  Nothing else breaks the exclusion.
ExclusiveUntilBreached == breach = "none" => MutualExclusion

\* __exit__ deletes a file it has not looked at; that is never what takes the lock
\* from a live process first: some other step had broken the exclusion already.
ReleaseIsNeverFirst == breach # "release"

\* A process that has left its section and lives on never finds its own pid in the
\* lock file, where it would wait for itself until it gives up: the file names a
\* process that is still to release it, or a dead one, which check_lock_info removes.
NoSelfBlock ==
    \A p \in Procs : lock = p =>
        pc[p] \in {"notice", "body", "delete", "clear", "main"} \cup Finished

\* Unless a process is killed in its section, the OPERATION_IN_PROGRESS notice is
\* gone when every section is over, whatever exceptions ended them.
NoticeHasOwner ==
    notice => \E p \in Procs :
        pc[p] \in {"body", "delete", "unnotice", "killed"} \/ nested[p]

\* An error path, of a pro command or of an API call, takes the lock only from its own
\* process: "Only clear the lock if it is ours." (uaclient/cli/__init__.py).  The code
\* does not achieve it.
OnlyOwnLockCleared ==
    [][\A p \in Procs : ClearInMain(p) \/ ClearOnError(p) => ~Foreign(p)]_vars

\* Every attempt to take the lock ends, in the section or with an error, even if
\* the holder never lets go of it.
AcquireEnds ==
    \A p \in Procs : pc[p] \in Waiting ~> pc[p] \notin Waiting

\* A lock left by a dead process does not survive a process that waits for it: it
\* is removed or taken over, unless the waiting process is killed as well.
StaleLockReclaimed ==
    \A p, q \in Procs :
        (lock = p /\ Dead(p) /\ pc[q] = "sleep") ~> (lock # p \/ pc[q] = "killed")

=============================================================================
