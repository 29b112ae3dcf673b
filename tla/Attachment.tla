------------------------------ MODULE Attachment ------------------------------
(***************************************************************************)
(* The files that make a machine attached, and the processes that write    *)
(* them: attach, detach, refresh, enable, disable and the two jobs of      *)
(* ua-timer.  Each process keeps the machine token it read in a cache that *)
(* only its own writes clear (uaclient/files/machine_token.py); the root-  *)
(* only copy of the token is written before the world-readable one and     *)
(* deleted after it.                                                       *)
(*                                                                         *)
(* The lock is the one RetryLock means to be: ProLock says when it is not. *)
(* A token is named after the process whose attach obtained it; refreshes  *)
(* and updates of its expiry and activity data keep its name.              *)
(***************************************************************************)
EXTENDS Naturals

CONSTANTS
    Procs,    \* processes, each running one command or job
    NoToken,  \* no token in a file or a cache
    OldToken, \* the token of a machine that was attached before these processes started
    NoProc,   \* nobody holds the lock
    Worlds,   \* the assignments of a command to each process to consider
    Expiring, \* whether the contract is close to, or past, its end
    SystemctlFails  \* whether "systemctl start" and "stop" may fail or time out

Kinds == {"attach", "auto_attach", "detach_cli", "detach_api", "refresh", "disable",
          "enable", "metering", "messaging"}

Tokens == Procs \cup {OldToken}

ASSUME NamesAssumption == NoToken \notin Tokens /\ NoProc \notin Procs
ASSUME WorldsAssumption == Worlds \subseteq [Procs -> Kinds] /\ Expiring \in BOOLEAN
ASSUME SystemctlAssumption == SystemctlFails \in BOOLEAN

VARIABLES
    private,  \* /var/lib/ubuntu-advantage/private/machine-token.json
    public,   \* /var/lib/ubuntu-advantage/machine-token.json
    files,    \* which of the other state files exist
    timer,    \* whether ua-timer.timer is active
    lock,     \* the process inside RetryLock
    kind,     \* the command each process runs
    cache,    \* MachineTokenFile._machine_token of each process
    pc,       \* what each process does next
    after     \* where a process goes on after it has rewritten the token

vars == <<private, public, files, timer, lock, kind, cache, pc, after>>

FileNames == {"machine_id", "attachment_data", "only_series_marker", "limited_notice"}

Labels == {"start", "wait", "check", "server", "write_private", "write_public", "unique",
           "undo_public", "undo_private", "services", "timer", "motd", "refresh",
           "activity", "save_private", "save_public", "machine_id", "enable", "disable_all",
           "del_public", "del_private", "del_state", "stop", "unlock", "done", "killed"}

Init ==
    /\ \/ private = NoToken /\ files = {} /\ timer = FALSE
       \/ private = OldToken /\ files = {"machine_id", "attachment_data"} /\ timer = TRUE
    /\ public = private
    /\ lock = NoProc
    /\ kind \in Worlds
    /\ cache = [p \in Procs |-> NoToken]
    /\ pc = [p \in Procs |-> "start"]
    /\ after = [p \in Procs |-> "done"]

tokenFiles == <<private, public>>

Goto(p, label) == pc' = [pc EXCEPT ![p] = label]
GoOn(p, label) == after' = [after EXCEPT ![p] = label]

\* What follows the section: enable reports the activity without the lock, and the
\* timer runs the messaging job if that is due as well.
Leave(p) ==
    /\ GoOn(p, "done")
    /\ \E next \in CASE kind[p] = "enable" -> {"activity"}
                      [] kind[p] = "metering" -> {"motd", "done"}
                      [] OTHER -> {"done"} : Goto(p, next)

\* MachineTokenFile.machine_token: what the cache holds, else what the file says.
Known(p) == IF cache[p] = NoToken THEN private ELSE cache[p]
Load(p) == cache' = [cache EXCEPT ![p] = Known(p)]
Forget(p) == cache' = [cache EXCEPT ![p] = NoToken]

-----------------------------------------------------------------------------
(* Before and around the lock. *)

\* attach checks that the machine is not attached, and then waits for the lock.
CheckUnattached(p) ==
    /\ pc[p] = "start" /\ kind[p] = "attach"
    /\ Load(p)
    /\ Goto(p, IF Known(p) = NoToken THEN "wait" ELSE "done")
    /\ UNCHANGED <<tokenFiles, files, timer, lock, kind, after>>

\* The other commands check that it is attached; enable refreshes the contract at once.
CheckAttached(p) ==
    /\ pc[p] = "start" /\ kind[p] \in {"detach_cli", "disable", "enable"}
    /\ Load(p)
    /\ Goto(p, IF Known(p) = NoToken THEN "done"
               ELSE IF kind[p] = "enable" THEN "refresh" ELSE "wait")
    /\ UNCHANGED <<tokenFiles, files, timer, lock, kind, after>>

\* ua-timer.service, with metering due: TimedJob.run reads activityPingInterval from the
\* token before it calls the job.
StartMetering(p) ==
    /\ pc[p] = "start" /\ kind[p] = "metering"
    /\ Load(p)
    /\ Goto(p, "wait")
    /\ UNCHANGED <<tokenFiles, files, timer, lock, kind, after>>

\* These take the lock first and check afterwards.
StartUnchecked(p) ==
    /\ pc[p] = "start" /\ kind[p] \in {"auto_attach", "detach_api", "refresh"}
    /\ Goto(p, "wait")
    /\ UNCHANGED <<tokenFiles, files, timer, lock, kind, cache, after>>

\* ua-timer.service, with only the messaging job due, which does not take the lock.
StartMessaging(p) ==
    /\ pc[p] = "start" /\ kind[p] = "messaging"
    /\ Goto(p, "motd") /\ GoOn(p, "done")
    /\ UNCHANGED <<tokenFiles, files, timer, lock, kind, cache>>

Acquire(p) ==
    /\ pc[p] = "wait" /\ lock = NoProc
    /\ lock' = p
    /\ Goto(p, CASE kind[p] = "attach" -> "server"
                 [] kind[p] = "detach_cli" -> "disable_all"
                 [] kind[p] = "disable" -> "activity"
                 [] kind[p] = "enable" -> "enable"
                 [] OTHER -> "check")
    /\ UNCHANGED <<tokenFiles, files, timer, kind, cache, after>>

\* enable finds, with or without a refresh, that the contract has expired.
FindExpired(p) ==
    /\ pc[p] = "wait" /\ kind[p] = "enable"
    /\ Load(p)
    /\ Goto(p, "done")
    /\ UNCHANGED <<tokenFiles, files, timer, lock, kind, after>>

\* LockHeldError; enable reports it for the service, the timer logs it, and both go on.
GiveUp(p) ==
    /\ pc[p] = "wait" /\ lock # NoProc
    /\ Leave(p)
    /\ UNCHANGED <<tokenFiles, files, timer, lock, kind, cache>>

\* Mutant of CheckInLock: full_auto_attach relies on its caller's check.
CheckInLockTrusting(p) ==
    /\ pc[p] = "check"
    /\ Load(p)
    /\ LET attached == Known(p) # NoToken IN
       Goto(p, CASE kind[p] = "auto_attach" -> "server"
                 [] kind[p] = "detach_api" /\ attached -> "disable_all"
                 [] kind[p] = "refresh" /\ attached -> "refresh"
                 [] kind[p] = "metering" /\ attached -> "activity"
                 [] OTHER -> "unlock")
    /\ UNCHANGED <<tokenFiles, files, timer, lock, kind, after>>

\* _is_attached inside the lock.
CheckInLock(p) ==
    /\ pc[p] = "check"
    /\ Load(p)
    /\ LET attached == Known(p) # NoToken IN
       Goto(p, CASE kind[p] = "auto_attach" /\ ~attached -> "server"
                 [] kind[p] = "detach_api" /\ attached -> "disable_all"
                 [] kind[p] = "refresh" /\ attached -> "refresh"
                 [] kind[p] = "metering" /\ attached -> "activity"
                 [] OTHER -> "unlock")
    /\ UNCHANGED <<tokenFiles, files, timer, lock, kind, after>>

Unlock(p) ==
    /\ pc[p] = "unlock"
    /\ lock' = NoProc
    /\ Leave(p)
    /\ UNCHANGED <<tokenFiles, files, timer, kind, cache>>

\* Where an exception leads: out of the lock, if there is one; a refresh that fails
\* does not stop enable.
Failed(p) == IF lock = p THEN "unlock"
             ELSE IF pc[p] = "refresh" THEN "wait" ELSE "done"

-----------------------------------------------------------------------------
(* attach_with_token. *)

\* Mutant of AddMachine: the marker gets another name than the one detach deletes.
AddMachineMisnamed(p) ==
    /\ pc[p] = "server"
    /\ Goto(p, "write_private")
    /\ files' \in {files, files \cup {"limited_notice", "marker_only_series"}}
    /\ UNCHANGED <<tokenFiles, timer, lock, kind, cache, after>>

\* add_contract_machine; a contract limited to some releases may refuse this one, or
\* leaves a notice and a marker.
AddMachine(p) ==
    /\ pc[p] = "server"
    /\ \/ Goto(p, "unlock") /\ UNCHANGED files
       \/ /\ Goto(p, "write_private")
          /\ files' \in {files, files \cup {"limited_notice", "only_series_marker"}}
    /\ UNCHANGED <<tokenFiles, timer, lock, kind, cache, after>>

WritePrivate(p) ==
    /\ pc[p] = "write_private"
    /\ private' = p
    /\ Goto(p, "write_public")
    /\ UNCHANGED <<public, files, timer, lock, kind, cache, after>>

WritePublic(p) ==
    /\ pc[p] = "write_public"
    /\ public' = p
    /\ Forget(p)
    /\ Goto(p, "unique")
    /\ UNCHANGED <<private, files, timer, lock, kind, after>>

\* check_entitlement_apt_directives_are_unique reads the token back; if it objects the
\* token is deleted again, but not the notice and the marker.
CheckDirectives(p) ==
    /\ pc[p] = "unique"
    /\ Load(p)
    /\ \/ Goto(p, "undo_public") /\ UNCHANGED files
       \/ Goto(p, "services") /\ files' = files \cup {"machine_id"}
    /\ UNCHANGED <<tokenFiles, timer, lock, kind, after>>

\* Mutant of UndoPublic: only the root-only file is deleted.
UndoPublicKept(p) ==
    /\ pc[p] = "undo_public"
    /\ Goto(p, "undo_private")
    /\ UNCHANGED <<tokenFiles, files, timer, lock, kind, cache, after>>

UndoPublic(p) ==
    /\ pc[p] = "undo_public"
    /\ public' = NoToken
    /\ Goto(p, "undo_private")
    /\ UNCHANGED <<private, files, timer, lock, kind, cache, after>>

UndoPrivate(p) ==
    /\ pc[p] = "undo_private"
    /\ private' = NoToken
    /\ Forget(p)
    /\ Goto(p, "unlock")
    /\ UNCHANGED <<public, files, timer, lock, kind, after>>

\* Enabling the default services may fail; that attach is partial, and goes past
\* timer.start.  Either way the attachment is recorded and the messages updated.
EnableDefaults(p) ==
    /\ pc[p] = "services"
    /\ files' = files \cup {"attachment_data"}
    /\ \E next \in {"timer", "activity"} : GoOn(p, next)
    /\ Goto(p, "motd")
    /\ UNCHANGED <<tokenFiles, timer, lock, kind, cache>>

\* timer.start, which ignores failures; attach and full_auto_attach then report the
\* activity, full_token_attach is done.
StartTimer(p) ==
    /\ pc[p] = "timer"
    /\ timer' \in {TRUE} \cup IF SystemctlFails THEN {timer} ELSE {}
    /\ \E next \in {"activity", "unlock"} : Goto(p, next)
    /\ UNCHANGED <<tokenFiles, files, lock, kind, cache, after>>

-----------------------------------------------------------------------------
(* Rewriting the token: read it, ask the server, write what was read. *)

\* update_motd_messages; it rewrites the token only if the server has a new expiry date
\* for a contract that is about to end.
UpdateMotd(p) ==
    /\ pc[p] = "motd"
    /\ Load(p)
    /\ \/ Goto(p, after[p])
       \/ /\ Expiring /\ Known(p) # NoToken
          /\ \E next \in {"save_private", Failed(p)} : Goto(p, next)
    /\ UNCHANGED <<tokenFiles, files, timer, lock, kind, after>>

\* contract.refresh and update_activity_token; both fail if there is no token, or no server.
AskServer(p) ==
    /\ pc[p] \in {"refresh", "activity"}
    /\ Load(p)
    /\ GoOn(p, IF pc[p] = "refresh" THEN "machine_id"
               ELSE IF lock = p THEN "unlock" ELSE "done")
    /\ \/ Goto(p, Failed(p))
       \/ Known(p) # NoToken /\ Goto(p, "save_private")
    /\ UNCHANGED <<tokenFiles, files, timer, lock, kind>>

SavePrivate(p) ==
    /\ pc[p] = "save_private"
    /\ private' = cache[p]
    /\ Goto(p, "save_public")
    /\ UNCHANGED <<public, files, timer, lock, kind, cache, after>>

SavePublic(p) ==
    /\ pc[p] = "save_public"
    /\ public' = cache[p]
    /\ Forget(p)
    /\ Goto(p, after[p])
    /\ UNCHANGED <<private, files, timer, lock, kind, after>>

\* refresh writes the machine id too; enable goes on to the lock.
WriteMachineId(p) ==
    /\ pc[p] = "machine_id"
    /\ files' = files \cup {"machine_id"}
    /\ Goto(p, IF kind[p] = "enable" THEN "wait" ELSE "unlock")
    /\ UNCHANGED <<tokenFiles, timer, lock, kind, cache, after>>

\* The services themselves are another matter; the command stays in the lock meanwhile.
EnableService(p) ==
    /\ pc[p] = "enable"
    /\ Goto(p, "unlock")
    /\ UNCHANGED <<tokenFiles, files, timer, lock, kind, cache, after>>

-----------------------------------------------------------------------------
(* Detach: the command deletes the token first, the API the other files. *)

\* Services are disabled; a user may refuse the command here, and an exception of a
\* service ends either kind of detach.
DisableServices(p) ==
    /\ pc[p] = "disable_all"
    /\ \/ Goto(p, "unlock")
       \/ kind[p] = "detach_cli" /\ Goto(p, "del_public")
       \/ kind[p] = "detach_api" /\ Goto(p, "del_state")
    /\ UNCHANGED <<tokenFiles, files, timer, lock, kind, cache, after>>

DeletePublic(p) ==
    /\ pc[p] = "del_public"
    /\ public' = NoToken
    /\ Goto(p, "del_private")
    /\ UNCHANGED <<private, files, timer, lock, kind, cache, after>>

\* Mutant of DeletePrivate: the cache survives the files.
DeletePrivateCached(p) ==
    /\ pc[p] = "del_private"
    /\ private' = NoToken
    /\ GoOn(p, "stop")
    /\ Goto(p, IF kind[p] = "detach_cli" THEN "del_state" ELSE "motd")
    /\ UNCHANGED <<public, files, timer, lock, kind, cache>>

DeletePrivate(p) ==
    /\ pc[p] = "del_private"
    /\ private' = NoToken
    /\ Forget(p)
    /\ GoOn(p, "stop")
    /\ Goto(p, IF kind[p] = "detach_cli" THEN "del_state" ELSE "motd")
    /\ UNCHANGED <<public, files, timer, lock, kind>>

\* Mutant of DeleteState: the machine id stays.
DeleteStateNotId(p) ==
    /\ pc[p] = "del_state"
    /\ files' = files \ ({"attachment_data", "only_series_marker"} \cup
                         IF kind[p] = "detach_api" THEN {"limited_notice"} ELSE {})
    /\ Goto(p, IF kind[p] = "detach_cli" THEN "motd" ELSE "del_public")
    /\ UNCHANGED <<tokenFiles, timer, lock, kind, cache, after>>

\* delete_state_files; only the API removes the notice.
DeleteState(p) ==
    /\ pc[p] = "del_state"
    /\ files' = files \ ({"machine_id", "attachment_data", "only_series_marker"} \cup
                         IF kind[p] = "detach_api" THEN {"limited_notice"} ELSE {})
    /\ Goto(p, IF kind[p] = "detach_cli" THEN "motd" ELSE "del_public")
    /\ UNCHANGED <<tokenFiles, timer, lock, kind, cache, after>>

\* daemon.start and timer.stop.
StopTimer(p) ==
    /\ pc[p] = "stop"
    /\ timer' \in {FALSE} \cup IF SystemctlFails THEN {timer} ELSE {}
    /\ Goto(p, "unlock")
    /\ UNCHANGED <<tokenFiles, files, lock, kind, cache, after>>

-----------------------------------------------------------------------------

\* A process dies; the lock it held is found stale by the next one.
Kill(p) ==
    /\ pc[p] \notin {"start", "done", "killed"}
    /\ Goto(p, "killed")
    /\ lock' = IF lock = p THEN NoProc ELSE lock
    /\ UNCHANGED <<tokenFiles, files, timer, kind, cache, after>>

Step(p) ==
    \/ CheckUnattached(p) \/ CheckAttached(p) \/ StartMetering(p) \/ StartUnchecked(p)
    \/ StartMessaging(p) \/ Acquire(p) \/ FindExpired(p) \/ GiveUp(p) \/ CheckInLock(p)
    \/ Unlock(p)
    \/ AddMachine(p) \/ WritePrivate(p) \/ WritePublic(p) \/ CheckDirectives(p)
    \/ UndoPublic(p) \/ UndoPrivate(p) \/ EnableDefaults(p) \/ StartTimer(p)
    \/ UpdateMotd(p) \/ AskServer(p) \/ SavePrivate(p) \/ SavePublic(p)
    \/ WriteMachineId(p) \/ EnableService(p) \/ DisableServices(p)
    \/ DeletePublic(p) \/ DeletePrivate(p) \/ DeleteState(p) \/ StopTimer(p) \/ Kill(p)

Next == \E p \in Procs : Step(p)

Spec == Init /\ [][Next]_vars

-----------------------------------------------------------------------------
(* Properties. *)

TypeOK ==
    /\ private \in Tokens \cup {NoToken} /\ public \in Tokens \cup {NoToken}
    /\ files \subseteq FileNames
    /\ timer \in BOOLEAN
    /\ lock \in Procs \cup {NoProc}
    /\ kind \in Worlds
    /\ cache \in [Procs -> Tokens \cup {NoToken}]
    /\ pc \in [Procs -> Labels]
    /\ after \in [Procs -> Labels]

\* No user is shown a subscription the root-only file does not have, not even when a
\* process died halfway: the write and the delete use opposite orders for that.
PublicImpliesPrivate == public # NoToken => private = public

\* The strengthening of the property above for commands that decide under the lock: the
\* holder is the one process at work, its cache agrees with the root-only file where it
\* will be written back, and the files are as far as its next step says.
LockedKinds == {"auto_attach", "detach_api", "detach_cli", "refresh"}
Outside == {"start", "wait", "done", "killed"}
HolderAtWork == \A p \in Procs : lock = p <=> pc[p] \notin Outside
TokenInForce(p) ==
    /\ pc[p] \in {"start", "wait"} /\ kind[p] # "detach_cli" => cache[p] = NoToken
    /\ pc[p] \in {"check", "server", "write_private", "unique"} => cache[p] = NoToken
    /\ pc[p] \in {"services", "timer", "motd", "refresh", "activity", "machine_id"} =>
          cache[p] \in {NoToken, private}
    /\ pc[p] \in {"save_private", "save_public"} => cache[p] = private
    /\ pc[p] \in {"server", "write_private"} => private = NoToken
    /\ pc[p] \in {"write_public", "unique"} => private = p
    /\ pc[p] \in {"undo_private", "del_private"} => public = NoToken
    /\ (pc[p] = "del_state" /\ kind[p] = "detach_cli") \/ pc[p] = "stop" =>
          private = NoToken /\ public = NoToken /\ cache[p] = NoToken
    /\ pc[p] \in {"motd", "save_private", "save_public"} =>
          /\ after[p] \in {"timer", "activity", "machine_id", "unlock", "stop"}
          /\ after[p] = "stop" => private = NoToken /\ public = NoToken /\ pc[p] = "motd"
    /\ pc[p] = "del_state" => after[p] = "stop" \/ kind[p] # "detach_cli"

\* Nobody is at work, and nobody was stopped halfway.
Quiescent == \A p \in Procs : pc[p] \in {"start", "done"}

\* With nobody at work the two copies agree, the files that go with an attachment
\* exist exactly if there is one, and the timer never runs on an unattached machine,
\* provided that systemctl does what it is told.
QuiescentConsistent ==
    Quiescent =>
        /\ private = public
        /\ ("machine_id" \in files) = (private # NoToken)
        /\ ("attachment_data" \in files) = (private # NoToken)
        /\ timer => private # NoToken \/ SystemctlFails

\* A detach that gets as far as stopping the timer leaves the machine unattached.
DetachDetaches == \A p \in Procs : pc[p] = "stop" => private = NoToken /\ public = NoToken

\* An unattached machine becomes attached only by an attach.
OnlyAttachAttaches ==
    [][private = NoToken /\ private' # NoToken => \E p \in Procs : WritePrivate(p)]_vars

\* The token files implement a subscription.
Sub == INSTANCE Subscription WITH sub <- private
SubscriptionSpec == Sub!Spec

=============================================================================
