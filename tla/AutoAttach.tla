------------------------------ MODULE AutoAttach ------------------------------
(***************************************************************************)
(* Attaching without a user: ua-auto-attach.service at boot, the daemon     *)
(* that polls the cloud for a Pro licence and retries a failed attach for a *)
(* month, and the commands that attach, detach and restart around them.     *)
(* What they share is on disk: the token, the flag file under /run that     *)
(* means "retry", the file that remembers how far the retries are, and what *)
(* the user is told (the MOTD file and two notices).  The lock is exclusive *)
(* here (its flaws are ProLock's subject), and the steps of an attach are   *)
(* one action with every outcome (they are Attachment's).                   *)
(***************************************************************************)
EXTENDS Naturals

CONSTANTS Intervals,   \* the length of RETRY_INTERVALS (18 in the code)
          MaxReboots,  \* bound: how often the machine reboots
          Settings     \* the machines considered: what cloud, which commands are used

ASSUME IntervalsAssumption == Intervals \in Nat \ {0}
ASSUME MaxRebootsAssumption == MaxReboots \in Nat

VARIABLES
    setting,   \* [cloud, image (has ua-auto-attach.service), polls (poll_for_pro_license), ops]
    attached,  \* machine-token.json is there
    flag,      \* /run/ubuntu-advantage/flags/auto-attach-failed
    saved,     \* interval_index in retry-auto-attach-state.json, or NoState
    motd,      \* what motd-auto-attach-status says
    full,      \* AUTO_ATTACH_RETRY_FULL_NOTICE, under /run
    total,     \* AUTO_ATTACH_RETRY_TOTAL_FAILURE, permanent
    lock,      \* who holds the lock
    boot,      \* where ua-auto-attach.service is
    started,   \* whether systemd has started ubuntu-advantage.service since the boot
    daemon,    \* where ubuntu-advantage.service is
    index,     \* its offset + index
    etag,      \* the etag it has of the licences: none, or whether it is still right
    changed,   \* the metadata server has an answer for the long poll
    licence,   \* the instance has a Pro licence
    op, at,    \* the command the user runs, and where it is
    reboots,
    failed,    \* history: failed attempts on this machine, as far as Intervals
    tidy       \* history: pro attach or pro auto-attach completed, and no detach since;
               \* or it has failed to stop the daemon

disk == <<attached, saved, motd, total>>
run == <<flag, full>>
cloud == <<etag, changed, licence>>
user == <<op, at>>
history == <<failed, tidy>>
autoVars == <<setting, disk, run, lock, boot, started, daemon, index, cloud, user, reboots, history>>

NoState == Intervals + 1
Polled == {"gce", "azure", "lxd"}
Commands == {"attach", "auto_attach", "attach_api", "detach", "status", "restart", "configure"}
Polling == {"ask", "waiting", "answer", "delay"}
Retrying == {"begin", "save", "announce", "notice", "sleep", "wake", "try", "retry",
             "cleanup", "verdict", "give_up", "give_notice"}

AutoTypeOK ==
    /\ setting \in Settings
    /\ attached \in BOOLEAN /\ flag \in BOOLEAN /\ full \in BOOLEAN /\ total \in BOOLEAN
    /\ saved \in 0..Intervals \cup {NoState} /\ index \in 0..Intervals
    /\ motd \in {"none", "running", "retrying", "failed"}
    /\ lock \in {"free", "boot", "daemon", "user"}
    /\ boot \in {"off", "start", "try", "attach", "failed", "raise", "save", "done"}
    /\ daemon \in {"off", "look", "attempt", "attach", "leave"} \cup Polling \cup Retrying
    /\ started \in BOOLEAN /\ changed \in BOOLEAN /\ licence \in BOOLEAN
    /\ etag \in {"none", "right", "wrong"}
    /\ op \in Commands \cup {"none"} /\ at \in {"lock", "in", "stop", "cleanup", "status", "start"}
    /\ reboots \in 0..MaxReboots /\ tidy \in {"no", "yes", "unstopped"}
    /\ failed \in 0..Intervals
    \* whoever is inside an attach holds the lock, and nobody else
    /\ (lock = "daemon") = (daemon \in {"attach", "retry"})
    /\ (lock = "boot") = (boot = "attach")
    /\ (lock = "user") = (op \notin {"none", "restart"} /\ at # "lock" /\ ~(op = "auto_attach" /\ at # "in"))

AutoInit ==
    /\ setting \in Settings
    /\ attached = FALSE /\ flag = FALSE /\ full = FALSE /\ total = FALSE
    /\ saved = NoState /\ index = 0 /\ motd = "none" /\ lock = "free"
    /\ boot = (IF setting.image THEN "start" ELSE "off")
    /\ started = FALSE /\ daemon = "off"
    /\ etag = "none" /\ changed = FALSE /\ licence \in BOOLEAN
    /\ op = "none" /\ at = "lock" /\ reboots = 0
    /\ failed = 0 /\ tidy = "no"

-----------------------------------------------------------------------------
(* One attempt to attach, in the lock. *)

\* full_auto_attach refuses an attached machine or a disabled auto-attach; an attach may
\* leave services off (EntitlementsNotEnabledError) or raise after it wrote the token.
Outcomes == {"ok", "partial", "late", "failed"}
FullAutoAttach == IF attached THEN {"already"} ELSE {"disabled"} \cup Outcomes
Write(outcome) == attached' = (attached \/ outcome \in {"ok", "partial", "late"})

OneMore(n) == IF n < Intervals THEN n + 1 ELSE n
NoteFailure == failed' = OneMore(failed) /\ UNCHANGED tidy

-----------------------------------------------------------------------------
(* ua-auto-attach.service: uaclient lib/auto_attach.py. *)

\* systemd skips the unit on an attached machine; user data for cloud-init or an AWS
\* instance that is not Pro end it at once.
BootSkip ==
    /\ boot = "start" /\ boot' = "off"
    /\ UNCHANGED <<setting, disk, run, lock, started, daemon, index, cloud, user, reboots, history>>
BootStart ==
    /\ boot = "start" /\ ~attached
    /\ boot' = "try" /\ motd' = "running"
    /\ UNCHANGED <<setting, attached, saved, total, run, lock, started, daemon, index, cloud, user, reboots, history>>
BootLock ==
    /\ boot = "try" /\ lock = "free"
    /\ boot' = "attach" /\ lock' = "boot"
    /\ UNCHANGED <<setting, disk, run, started, daemon, index, cloud, user, reboots, history>>
BootHeld ==
    /\ boot = "try" /\ lock # "free" /\ boot' = "failed"
    /\ UNCHANGED <<setting, disk, run, lock, started, daemon, index, cloud, user, reboots, history>>
BootAttach ==
    /\ boot = "attach" /\ lock' = "free"
    /\ \E outcome \in FullAutoAttach :
         /\ Write(outcome)
         /\ boot' = IF outcome \in {"late", "failed"} THEN "failed" ELSE "done"
    /\ UNCHANGED <<setting, saved, motd, total, run, started, daemon, index, cloud, user, reboots, history>>

\* Anything but a success, a refusal or services left off triggers the retries.
BootFailed ==
    /\ boot = "failed" /\ boot' = "raise" /\ motd' = "none" /\ NoteFailure
    /\ UNCHANGED <<setting, attached, saved, total, run, lock, started, daemon, index, cloud, user, reboots>>
BootRaises ==
    /\ boot = "raise" /\ boot' = "save" /\ flag' = TRUE
    /\ UNCHANGED <<setting, disk, full, lock, started, daemon, index, cloud, user, reboots, history>>
BootSaves ==
    /\ boot = "save" /\ boot' = "off" /\ saved' = 0
    /\ UNCHANGED <<setting, attached, motd, total, run, lock, started, daemon, index, cloud, user, reboots, history>>
BootDone ==
    /\ boot = "done" /\ boot' = "off" /\ motd' = "none"
    /\ UNCHANGED <<setting, attached, saved, total, run, lock, started, daemon, index, cloud, user, reboots, history>>

BootNext == \/ BootSkip \/ BootStart \/ BootLock \/ BootHeld \/ BootAttach \/ BootDone
            \/ BootFailed \/ BootRaises \/ BootSaves

-----------------------------------------------------------------------------
(* ubuntu-advantage.service: main of lib/daemon.py. *)

\* The unit's conditions, and the mode main() chooses.
MayStart == ~attached /\ (setting.cloud \in Polled \/ flag)
Started == IF MayStart
           THEN daemon' = (IF flag THEN "begin" ELSE "look") /\ etag' = "none"
           ELSE daemon' = "off" /\ UNCHANGED etag

DaemonBoot ==
    /\ ~started /\ boot = "off" /\ daemon = "off"
    /\ started' = TRUE /\ Started /\ changed' = FALSE
    /\ UNCHANGED <<setting, disk, run, lock, boot, index, licence, user, reboots, history>>

\* main looks for the flag after the polling, because the polling may have raised it.
FlagCheck ==
    /\ daemon = "leave" /\ daemon' = IF flag THEN "begin" ELSE "off"
    /\ UNCHANGED <<setting, disk, run, lock, boot, started, index, cloud, user, reboots, history>>

-----------------------------------------------------------------------------
(* Polling: daemon/poll_for_pro_license.py. *)

\* The first look does not wait.  Only gce asks again after an error; a connection error
\* there is not caught and ends the daemon.
Look ==
    /\ daemon = "look"
    /\ \/ attached /\ daemon' = "leave" /\ UNCHANGED etag
       \/ ~attached /\ licence /\ daemon' = "attempt" /\ etag' = "right"
       \/ /\ ~attached /\ ~licence /\ etag' = "right"
          /\ daemon' = IF setting.polls THEN "ask" ELSE "leave"
       \/ /\ ~attached /\ setting.cloud = "gce" /\ UNCHANGED etag
          /\ daemon' \in {IF setting.polls THEN "ask" ELSE "leave", "off"}
       \/ ~attached /\ daemon' = "leave" /\ UNCHANGED etag    \* unsupported, or cancelled
    /\ UNCHANGED <<setting, disk, run, lock, boot, started, index, changed, licence, user, reboots, history>>

\* Mutant of Ask: the last etag is not sent.
AskNoEtag ==
    /\ daemon = "ask"
    /\ IF setting.cloud = "gce"
       THEN daemon' = "waiting" /\ changed' = FALSE
       ELSE daemon' = "leave" /\ UNCHANGED changed
    /\ UNCHANGED <<setting, disk, run, lock, boot, started, index, etag, licence, user, reboots, history>>

\* wait_for_change: the server answers at once if the etag it is given is not right; azure
\* and lxd cannot wait.
Ask ==
    /\ daemon = "ask"
    /\ IF setting.cloud = "gce"
       THEN daemon' = "waiting" /\ changed' = (etag = "wrong")
       ELSE daemon' = "leave" /\ UNCHANGED changed
    /\ UNCHANGED <<setting, disk, run, lock, boot, started, index, etag, licence, user, reboots, history>>

\* The answer is what the licences are when it is sent; a licence that is there sends the
\* daemon on to attach, unless the machine was attached meanwhile.
PollAnswer ==
    /\ daemon = "waiting" /\ changed
    /\ etag' = "right" /\ changed' = FALSE
    /\ daemon' = IF attached THEN "leave" ELSE IF licence THEN "attempt" ELSE "delay"
    /\ UNCHANGED <<setting, disk, run, lock, boot, started, index, licence, user, reboots, history>>

\* Delay-, Cancel- and connection errors.
PollError ==
    /\ daemon = "waiting"
    /\ daemon' \in {"delay", "leave", "off"} /\ changed' = FALSE
    /\ UNCHANGED <<setting, disk, run, lock, boot, started, index, etag, licence, user, reboots, history>>
PollAgain ==
    /\ daemon = "delay" /\ daemon' = "ask"
    /\ UNCHANGED <<setting, disk, run, lock, boot, started, index, cloud, user, reboots, history>>

\* attempt_auto_attach: attached is not looked at again in the lock, and any exception
\* raises the flag.
AttemptLock ==
    /\ daemon = "attempt" /\ lock = "free"
    /\ daemon' = "attach" /\ lock' = "daemon"
    /\ UNCHANGED <<setting, disk, run, boot, started, index, cloud, user, reboots, history>>
AttemptHeld ==
    /\ daemon = "attempt" /\ lock # "free"
    /\ daemon' = "leave" /\ flag' = TRUE /\ NoteFailure
    /\ UNCHANGED <<setting, disk, full, lock, boot, started, index, cloud, user, reboots>>
Attempt ==
    /\ daemon = "attach" /\ daemon' = "leave" /\ lock' = "free"
    /\ \E outcome \in Outcomes :
         /\ Write(outcome)
         /\ IF outcome = "ok" THEN UNCHANGED <<flag, history>> ELSE flag' = TRUE /\ NoteFailure
    /\ UNCHANGED <<setting, saved, motd, total, full, boot, started, index, cloud, user, reboots>>

Poll == Look \/ Ask \/ PollAnswer \/ PollError \/ PollAgain \/ AttemptLock \/ AttemptHeld \/ Attempt

-----------------------------------------------------------------------------
(* Retrying: daemon/retry_auto_attach.py. *)

\* Mutant of Resume: the interval that was under way is skipped.
ResumeNext ==
    /\ daemon = "begin"
    /\ IF attached THEN daemon' = "off" /\ UNCHANGED index
       ELSE /\ index' = IF saved = NoState THEN 0 ELSE OneMore(saved)
            /\ daemon' = IF index' < Intervals THEN "save" ELSE "cleanup"
    /\ UNCHANGED <<setting, disk, run, lock, boot, started, cloud, user, reboots, history>>

\* "pick up where we left off".
Resume ==
    /\ daemon = "begin"
    /\ IF attached THEN daemon' = "off" /\ UNCHANGED index
       ELSE /\ index' = IF saved = NoState THEN 0 ELSE saved
            /\ daemon' = IF index' < Intervals THEN "save" ELSE "cleanup"
    /\ UNCHANGED <<setting, disk, run, lock, boot, started, cloud, user, reboots, history>>

Save ==
    /\ daemon = "save" /\ daemon' = "announce" /\ saved' = index
    /\ UNCHANGED <<setting, attached, motd, total, run, lock, boot, started, index, cloud, user, reboots, history>>
Announce ==
    /\ daemon = "announce" /\ daemon' = "notice" /\ motd' = "retrying"
    /\ UNCHANGED <<setting, attached, saved, total, run, lock, boot, started, index, cloud, user, reboots, history>>

\* The notice is added in the lock, and left out if the lock is held.
AddNotice ==
    /\ daemon = "notice" /\ daemon' = "sleep"
    /\ full' = (full \/ lock = "free")
    /\ UNCHANGED <<setting, disk, flag, lock, boot, started, index, cloud, user, reboots, history>>
Wake ==
    /\ daemon = "sleep" /\ daemon' = IF attached THEN "cleanup" ELSE "try"
    /\ UNCHANGED <<setting, disk, run, lock, boot, started, index, cloud, user, reboots, history>>

Again == /\ index' = OneMore(index)
         /\ daemon' = IF index' < Intervals THEN "save" ELSE "cleanup"
         /\ failed' = OneMore(failed) /\ UNCHANGED tidy

\* Mutant of RetryHeld: a lock that is held does not use up the interval.
RetryHeldSame ==
    /\ daemon = "try" /\ lock # "free"
    /\ daemon' = "save" /\ UNCHANGED <<index, history>>
    /\ UNCHANGED <<setting, disk, run, lock, boot, started, cloud, user, reboots>>

RetryLock ==
    /\ daemon = "try" /\ lock = "free"
    /\ daemon' = "retry" /\ lock' = "daemon"
    /\ UNCHANGED <<setting, disk, run, boot, started, index, cloud, user, reboots, history>>
RetryHeld ==
    /\ daemon = "try" /\ lock # "free"
    /\ Again
    /\ UNCHANGED <<setting, disk, run, lock, boot, started, cloud, user, reboots>>
Retry ==
    /\ daemon = "retry" /\ lock' = "free"
    /\ \E outcome \in FullAutoAttach :
         /\ Write(outcome)
         /\ IF outcome \in {"ok", "partial", "already"}
            THEN daemon' = "cleanup" /\ UNCHANGED <<index, history>>
            ELSE Again
    /\ UNCHANGED <<setting, saved, motd, total, run, boot, started, cloud, user, reboots>>

\* cleanup, by the daemon or by a command that attached the machine.
Tidy == saved' = NoState /\ motd' = "none" /\ full' = FALSE /\ total' = FALSE

Cleanup ==
    /\ daemon = "cleanup" /\ daemon' = "verdict" /\ Tidy
    /\ UNCHANGED <<setting, attached, flag, lock, boot, started, index, cloud, user, reboots, history>>
Verdict ==
    /\ daemon = "verdict"
    /\ IF attached THEN daemon' = "off" /\ UNCHANGED saved
       ELSE daemon' = "give_up" /\ saved' = Intervals
    /\ UNCHANGED <<setting, attached, motd, total, run, lock, boot, started, index, cloud, user, reboots, history>>
GiveUp ==
    /\ daemon = "give_up" /\ daemon' = "give_notice" /\ motd' = "failed"
    /\ UNCHANGED <<setting, attached, saved, total, run, lock, boot, started, index, cloud, user, reboots, history>>
GiveNotice ==
    /\ daemon = "give_notice" /\ daemon' = "off" /\ total' = TRUE
    /\ UNCHANGED <<setting, attached, saved, motd, run, lock, boot, started, index, cloud, user, reboots, history>>

RetryStep == \/ Resume \/ Save \/ Announce \/ AddNotice \/ Wake \/ RetryLock \/ RetryHeld \/ Retry
             \/ Cleanup \/ Verdict \/ GiveUp \/ GiveNotice

DaemonNext == DaemonBoot \/ FlagCheck \/ Poll \/ RetryStep

-----------------------------------------------------------------------------
(* The user's commands, one at a time. *)

Attaches == {"attach", "auto_attach", "attach_api"}
End == op' = "none" /\ at' = "lock"

\* assert_attached and assert_not_attached come before the lock.
Begin ==
    /\ op = "none"
    /\ op' \in setting.ops \cap (Attaches \cup {"detach"}) /\ UNCHANGED at
    /\ op' \in {"attach", "attach_api"} => ~attached
    /\ op' = "detach" => attached
    /\ UNCHANGED <<setting, disk, run, lock, boot, started, daemon, index, cloud, reboots, history>>
Enter ==
    /\ op # "none" /\ at = "lock"
    /\ IF lock = "free" THEN lock' = "user" /\ at' = "in" /\ UNCHANGED op ELSE End /\ UNCHANGED lock
    /\ UNCHANGED <<setting, disk, run, boot, started, daemon, index, cloud, reboots, history>>

\* Only a success of a pro command goes on to post_cli_attach; pro auto-attach has let go
\* of the lock by then.
Attach ==
    /\ at = "in" /\ op \in Attaches
    /\ \E outcome \in IF op = "auto_attach" THEN FullAutoAttach ELSE Outcomes :
         /\ Write(outcome)
         /\ IF outcome = "ok" /\ op # "attach_api" THEN at' = "stop" /\ UNCHANGED op ELSE End
         /\ lock' = IF outcome = "ok" /\ op = "attach" THEN "user" ELSE "free"
    /\ UNCHANGED <<setting, saved, motd, total, run, boot, started, daemon, index, cloud, reboots, history>>

\* systemctl stop: the daemon is killed where it is.
Killed == daemon' = "off" /\ lock' = IF lock = "daemon" THEN "free" ELSE lock

\* Mutant of StopDaemon: the daemon goes on, as it does if it is only told of the cleanup.
StopNothing ==
    /\ at = "stop" /\ at' = "cleanup"
    /\ UNCHANGED <<setting, disk, run, lock, boot, started, daemon, index, cloud, op, reboots, history>>

\* If systemctl fails there is a warning in the log.
StopDaemon ==
    /\ at = "stop" /\ at' = "cleanup"
    /\ \/ Killed /\ UNCHANGED tidy
       \/ tidy' = "unstopped" /\ UNCHANGED <<daemon, lock>>
    /\ UNCHANGED <<setting, disk, run, boot, started, index, cloud, op, reboots, failed>>

PostAttach ==
    /\ at = "cleanup" /\ at' = "status" /\ Tidy
    /\ UNCHANGED <<setting, attached, flag, lock, boot, started, daemon, index, cloud, op, reboots, history>>

\* The status shown at the end, and pro status as root: the notices go, the MOTD stays.
Status ==
    /\ \/ at = "status" /\ End /\ tidy' = IF tidy = "unstopped" THEN tidy ELSE "yes"
       \/ op = "none" /\ "status" \in setting.ops /\ attached /\ UNCHANGED <<user, tidy>>
    /\ full' = FALSE /\ total' = FALSE
    /\ lock' = IF lock = "user" THEN "free" ELSE lock
    /\ UNCHANGED <<setting, attached, saved, motd, flag, boot, started, daemon, index, cloud, reboots, failed>>

Detach ==
    /\ at = "in" /\ op = "detach"
    /\ attached' = FALSE /\ tidy' = "no" /\ at' = "start"
    /\ UNCHANGED <<setting, saved, motd, total, run, lock, boot, started, daemon, index, cloud, op, reboots, failed>>

\* daemon.start() has no effect on a daemon that runs.
StartDaemon ==
    /\ at = "start" /\ End /\ lock' = IF lock = "user" THEN "free" ELSE lock
    /\ IF daemon = "off" THEN Started /\ changed' = FALSE ELSE UNCHANGED <<daemon, etag, changed>>
    /\ UNCHANGED <<setting, disk, run, boot, started, index, licence, reboots, history>>

\* systemctl restart by the administrator: StopDaemon, and then StartDaemon.
Restart ==
    /\ op = "none" /\ "restart" \in setting.ops /\ daemon # "off"
    /\ op' = "restart" /\ at' = "start" /\ Killed
    /\ UNCHANGED <<setting, disk, run, boot, started, index, cloud, reboots, history>>

\* configure_retry_service: called by whoever failed to attach the machine otherwise.
ConfigureRetryService ==
    /\ op = "none" /\ "configure" \in setting.ops /\ flag' = TRUE
    /\ UNCHANGED <<setting, disk, full, lock, boot, started, daemon, index, cloud, user, reboots, history>>

UserNext == \/ Begin \/ Enter \/ Attach \/ StopDaemon \/ PostAttach \/ Status \/ Detach \/ StartDaemon
            \/ Restart \/ ConfigureRetryService

-----------------------------------------------------------------------------
(* The machine and its cloud. *)

\* /run is empty after a reboot; the file of the state, the MOTD and the permanent notice
\* are not.
Reboot ==
    /\ reboots < MaxReboots /\ reboots' = reboots + 1
    /\ flag' = FALSE /\ full' = FALSE /\ lock' = "free"
    /\ boot' = (IF setting.image THEN "start" ELSE "off")
    /\ started' = FALSE /\ daemon' = "off" /\ changed' = FALSE /\ End
    /\ UNCHANGED <<setting, disk, index, etag, licence, history>>

ChangeLicence ==
    /\ licence' = ~licence
    /\ etag' = IF etag = "none" THEN "none" ELSE "wrong"
    /\ changed' = (daemon = "waiting")
    /\ UNCHANGED <<setting, disk, run, lock, boot, started, daemon, index, user, reboots, history>>

AutoNext == BootNext \/ DaemonNext \/ UserNext \/ Reboot \/ ChangeLicence

\* systemd runs the services, time passes for a sleeping daemon, and the metadata server
\* answers a long poll that has an answer, if not at the first attempt.
AutoFairness ==
    /\ WF_autoVars(BootNext) /\ WF_autoVars(FlagCheck \/ RetryStep)
    /\ WF_autoVars(Look \/ Ask \/ PollAgain \/ AttemptLock \/ AttemptHeld \/ Attempt)
    /\ SF_autoVars(PollAnswer)

AutoSpec == AutoInit /\ [][AutoNext]_autoVars /\ AutoFairness

-----------------------------------------------------------------------------
(* Properties. *)

\* Once pro attach or pro auto-attach has succeeded, nothing tells the user that attaching
\* failed, whatever the daemon and the boot service were doing meanwhile ("to remove any
\* ... notices", the purpose of daemon.stop and daemon.cleanup in cli_util.post_cli_attach),
\* unless systemctl could not stop the daemon.
NoFalseAlarm == tidy = "yes" => attached /\ motd \notin {"retrying", "failed"} /\ ~full /\ ~total

\* The number of attempts the user is told ("Failed to automatically attach ... N time(s)",
\* N = saved + 1) is not more than were made, over restarts, reboots and attempts that
\* found the lock held -- unless a detach comes between a daemon that leaves its loop and
\* its last look at the machine, which then counts as total failure.
CountedAttempts ==
    "detach" \notin setting.ops => saved = NoState \/ saved <= failed

\* A month of retries ends, one way or another.
RetryEnds == daemon = "begin" ~> daemon = "off"

\* A licence that is added for good does not go unnoticed by a daemon that polls and has
\* once had an answer.
PollNotices == ~<>[](daemon \in Polling /\ licence /\ etag # "none")

=============================================================================
