-------------------------- MODULE Background_proofs ---------------------------
(* Theorems of what runs without a command of the user: the daemon and the boot service,
   the timer jobs, and the wait of a magic attach. *)
EXTENDS AutoAttach, TimerJobs, MagicAttach, TLAPS

-------------------------------------------------------------------------------
(* AutoAttach, for every list of retry intervals, every number of reboots and every set of
   machines. *)

(* Types, and whoever is inside an attach holds the lock. *)

\* AutoTypeOK in parts: the switches, the other ranges, who holds the lock, and where each
\* command is, which the third part needs.
Switches ==
    /\ attached \in BOOLEAN /\ flag \in BOOLEAN /\ full \in BOOLEAN /\ total \in BOOLEAN
    /\ started \in BOOLEAN /\ changed \in BOOLEAN /\ licence \in BOOLEAN
Ranges ==
    /\ setting \in Settings
    /\ saved \in 0..Intervals \cup {NoState} /\ index \in 0..Intervals
    /\ motd \in {"none", "running", "retrying", "failed"}
    /\ lock \in {"free", "boot", "daemon", "user"}
    /\ boot \in {"off", "start", "try", "attach", "failed", "raise", "save", "done"}
    /\ daemon \in {"off", "look", "attempt", "attach", "leave"} \cup Polling \cup Retrying
    /\ etag \in {"none", "right", "wrong"}
    /\ op \in Commands \cup {"none"} /\ at \in {"lock", "in", "stop", "cleanup", "status", "start"}
    /\ reboots \in 0..MaxReboots /\ tidy \in {"no", "yes", "unstopped"}
    /\ failed \in 0..Intervals
Holders ==
    /\ lock = "daemon" <=> daemon \in {"attach", "retry"}
    /\ lock = "boot" <=> boot = "attach"
    /\ lock = "user" <=> op \notin {"none", "restart"} /\ at # "lock" /\ ~(op = "auto_attach" /\ at # "in")
Course ==
    /\ op = "none" => at = "lock"
    /\ op = "restart" => at = "start"
    /\ at = "start" => op \in {"detach", "restart"}
    /\ at \in {"stop", "cleanup", "status"} => op \in {"attach", "auto_attach"}

LEMMA TypeParts == AutoTypeOK <=> Switches /\ Ranges /\ Holders
BY DEF AutoTypeOK, Switches, Ranges, Holders

LEMMA TypePartsInit == AutoInit => Switches /\ Ranges /\ Holders /\ Course
<1> SUFFICES ASSUME AutoInit PROVE Switches /\ Ranges /\ Holders /\ Course
  OBVIOUS
<1>1. Switches
  BY DEF AutoInit, Switches
<1>2. Ranges
  BY IntervalsAssumption, MaxRebootsAssumption DEF AutoInit, Ranges, NoState, Commands
<1>3. Holders /\ Course
  BY DEF AutoInit, Holders, Course, Polling, Retrying
<1> QED
  BY <1>1, <1>2, <1>3

LEMMA SwitchesStep == Switches /\ [AutoNext]_autoVars => Switches'
<1> SUFFICES ASSUME Switches, [AutoNext]_autoVars PROVE Switches'
  OBVIOUS
<1> USE DEF Switches, disk, run, cloud, user, history
<1>1. CASE BootNext
  BY <1>1 DEF BootNext, BootSkip, BootStart, BootLock, BootHeld, BootAttach, BootFailed,
              BootRaises, BootSaves, BootDone, Write, NoteFailure
<1>2. CASE DaemonBoot \/ FlagCheck
  BY <1>2 DEF DaemonBoot, Started, FlagCheck
<1>3. CASE Poll
  BY <1>3 DEF Poll, Look, Ask, PollAnswer, PollError, PollAgain, AttemptLock,
              AttemptHeld, Attempt, Write, NoteFailure
<1>4. CASE RetryStep
  BY <1>4 DEF RetryStep, Resume, Save, Announce, AddNotice, Wake, RetryLock, RetryHeld,
              Retry, Cleanup, Verdict, GiveUp, GiveNotice, Again, Write, Tidy
<1>5. CASE UserNext
  BY <1>5 DEF UserNext, Begin, Enter, Attach, StopDaemon, PostAttach, Status, Detach,
              StartDaemon, Restart, ConfigureRetryService, Attaches, End, Write, Killed,
              Tidy, Started
<1>6. CASE Reboot \/ ChangeLicence
  BY <1>6 DEF Reboot, End, ChangeLicence
<1>7. CASE UNCHANGED autoVars
  BY <1>7 DEF autoVars
<1> QED
  BY <1>1, <1>2, <1>3, <1>4, <1>5, <1>6, <1>7 DEF AutoNext, DaemonNext

LEMMA RangesStep == Ranges /\ [AutoNext]_autoVars => Ranges'
<1> SUFFICES ASSUME Ranges, [AutoNext]_autoVars PROVE Ranges'
  OBVIOUS
<1> USE IntervalsAssumption, MaxRebootsAssumption
    DEF Ranges, NoState, Commands, Polling, Retrying, OneMore, disk, run, cloud, user, history
<1>1. CASE BootNext
  BY <1>1 DEF BootNext, BootSkip, BootStart, BootLock, BootHeld, BootAttach, BootFailed,
              BootRaises, BootSaves, BootDone, Write, NoteFailure
<1>2. CASE DaemonBoot \/ FlagCheck
  BY <1>2 DEF DaemonBoot, Started, FlagCheck
<1>3. CASE Poll
  BY <1>3 DEF Poll, Look, Ask, PollAnswer, PollError, PollAgain, AttemptLock,
              AttemptHeld, Attempt, Write, NoteFailure
<1>4. CASE RetryStep
  BY <1>4 DEF RetryStep, Resume, Save, Announce, AddNotice, Wake, RetryLock, RetryHeld,
              Retry, Cleanup, Verdict, GiveUp, GiveNotice, Again, Write, Tidy
<1>5. CASE UserNext
  BY <1>5 DEF UserNext, Begin, Enter, Attach, StopDaemon, PostAttach, Status, Detach,
              StartDaemon, Restart, ConfigureRetryService, Attaches, End, Write, Killed,
              Tidy, Started
<1>6. CASE Reboot \/ ChangeLicence
  BY <1>6 DEF Reboot, End, ChangeLicence
<1>7. CASE UNCHANGED autoVars
  BY <1>7 DEF autoVars
<1> QED
  BY <1>1, <1>2, <1>3, <1>4, <1>5, <1>6, <1>7 DEF AutoNext, DaemonNext

LEMMA HoldersStep == Ranges /\ Holders /\ Course /\ [AutoNext]_autoVars => Holders' /\ Course'
<1> SUFFICES ASSUME Ranges, Holders, Course, [AutoNext]_autoVars PROVE Holders' /\ Course'
  OBVIOUS
<1> USE DEF Ranges, Holders, Course, Commands, Polling, Retrying, disk, run, cloud, user, history
<1>1. CASE BootNext
  <2>1. CASE BootSkip
    BY <2>1 DEF BootSkip
  <2>2. CASE BootStart
    BY <2>2 DEF BootStart
  <2>3. CASE BootLock
    BY <2>3 DEF BootLock
  <2>4. CASE BootHeld
    BY <2>4 DEF BootHeld
  <2>5. CASE BootAttach
    BY <2>5 DEF BootAttach, Write
  <2>6. CASE BootFailed
    BY <2>6 DEF BootFailed, NoteFailure
  <2>7. CASE BootDone \/ BootRaises \/ BootSaves
    BY <2>7 DEF BootDone, BootRaises, BootSaves
  <2> QED
    BY <1>1, <2>1, <2>2, <2>3, <2>4, <2>5, <2>6, <2>7 DEF BootNext
<1>2. CASE DaemonBoot
  BY <1>2 DEF DaemonBoot, Started
<1>3. CASE FlagCheck
  BY <1>3 DEF FlagCheck
<1>4. CASE Poll
  <2>1. CASE Look
    BY <2>1 DEF Look
  <2>2. CASE Ask
    BY <2>2 DEF Ask
  <2>3. CASE PollAnswer
    BY <2>3 DEF PollAnswer
  <2>4. CASE PollError
    BY <2>4 DEF PollError
  <2>5. CASE PollAgain
    BY <2>5 DEF PollAgain
  <2>6. CASE AttemptLock
    BY <2>6 DEF AttemptLock
  <2>7. CASE AttemptHeld
    BY <2>7 DEF AttemptHeld, NoteFailure
  <2>8. CASE Attempt
    BY <2>8 DEF Attempt, Write, NoteFailure
  <2> QED
    BY <1>4, <2>1, <2>2, <2>3, <2>4, <2>5, <2>6, <2>7, <2>8 DEF Poll
<1>5. CASE RetryStep
  <2>1. CASE Resume
    BY <2>1 DEF Resume
  <2>2. CASE Save
    BY <2>2 DEF Save
  <2>3. CASE Announce
    BY <2>3 DEF Announce
  <2>4. CASE AddNotice
    BY <2>4 DEF AddNotice
  <2>5. CASE Wake
    BY <2>5 DEF Wake
  <2>6. CASE RetryLock
    BY <2>6 DEF RetryLock
  <2>7. CASE RetryHeld
    BY <2>7 DEF RetryHeld, Again
  <2>8. CASE Retry
    BY <2>8 DEF Retry, Write, Again
  <2>9. CASE Cleanup
    BY <2>9 DEF Cleanup, Tidy
  <2>10. CASE Verdict
    BY <2>10 DEF Verdict
  <2>11. CASE GiveUp
    BY <2>11 DEF GiveUp
  <2>12. CASE GiveNotice
    BY <2>12 DEF GiveNotice
  <2> QED
    BY <1>5, <2>1, <2>2, <2>3, <2>4, <2>5, <2>6, <2>7, <2>8, <2>9, <2>10, <2>11, <2>12 DEF RetryStep
<1>6. CASE UserNext
  <2>1. CASE Begin
    BY <2>1 DEF Begin, Attaches
  <2>2. CASE Enter
    BY <2>2 DEF Enter, End
  <2>3. CASE Attach
    BY <2>3 DEF Attach, Attaches, End, Write
  <2>4. CASE StopDaemon
    BY <2>4 DEF StopDaemon, Killed
  <2>5. CASE PostAttach
    BY <2>5 DEF PostAttach, Tidy
  <2>6. CASE Status
    BY <2>6 DEF Status, End
  <2>7. CASE Detach
    BY <2>7 DEF Detach
  <2>8. CASE StartDaemon
    BY <2>8 DEF StartDaemon, Started, End
  <2>9. CASE Restart
    BY <2>9 DEF Restart, Killed
  <2>10. CASE ConfigureRetryService
    BY <2>10 DEF ConfigureRetryService
  <2> QED
    BY <1>6, <2>1, <2>2, <2>3, <2>4, <2>5, <2>6, <2>7, <2>8, <2>9, <2>10 DEF UserNext
<1>7. CASE Reboot
  BY <1>7 DEF Reboot, End
<1>8. CASE ChangeLicence
  BY <1>8 DEF ChangeLicence
<1>9. CASE UNCHANGED autoVars
  BY <1>9 DEF autoVars
<1> QED
  BY <1>1, <1>2, <1>3, <1>4, <1>5, <1>6, <1>7, <1>8, <1>9 DEF AutoNext, DaemonNext

\* All variables keep their types, and of the boot service, the daemon and the commands only
\* the one that holds the lock is inside an attach or a detach, whoever is killed or stopped.
THEOREM AutoTypeCorrect == AutoSpec => []AutoTypeOK
<1>1. Switches /\ Ranges /\ Holders /\ Course /\ [AutoNext]_autoVars
      => (Switches /\ Ranges /\ Holders /\ Course)'
  BY SwitchesStep, RangesStep, HoldersStep
<1> QED
  BY TypePartsInit, TypeParts, <1>1, PTL DEF AutoSpec

-----------------------------------------------------------------------------
(* After an attach: nothing says that it failed. *)

\* What a pro command that has attached the machine may rely on until its end, and what
\* stays: the daemon, once stopped, is not started again on an attached machine.
Quiet ==
    /\ at \in {"stop", "cleanup", "status"} => attached
    /\ (at \in {"cleanup", "status"} /\ tidy # "unstopped") \/ tidy = "yes" => daemon = "off"
    /\ tidy = "yes" => attached
    /\ (at = "status" /\ tidy # "unstopped") \/ tidy = "yes" =>
          motd \notin {"retrying", "failed"} /\ ~full /\ ~total

quietVars == <<attached, motd, total, full, daemon, at, tidy>>

LEMMA QuietInit == AutoInit => Quiet
BY DEF AutoInit, Quiet

LEMMA QuietStep == Quiet /\ [AutoNext]_autoVars => Quiet'
<1> SUFFICES ASSUME Quiet, [AutoNext]_autoVars PROVE Quiet'
  OBVIOUS
<1> USE DEF Quiet, disk, run, cloud, user, history
<1>0. CASE UNCHANGED quietVars
  BY <1>0 DEF quietVars
<1>1. CASE BootNext
  <2>1. CASE BootSkip
    BY <2>1, <1>0 DEF BootSkip, quietVars
  <2>2. CASE BootStart
    BY <2>2 DEF BootStart
  <2>3. CASE BootLock \/ BootHeld
    BY <2>3, <1>0 DEF BootLock, BootHeld, quietVars
  <2>4. CASE BootAttach
    BY <2>4 DEF BootAttach, Write
  <2>5. CASE BootFailed
    BY <2>5 DEF BootFailed, NoteFailure
  <2>6. CASE BootDone \/ BootRaises \/ BootSaves
    BY <2>6 DEF BootDone, BootRaises, BootSaves
  <2> QED
    BY <1>1, <2>1, <2>2, <2>3, <2>4, <2>5, <2>6 DEF BootNext
<1>2. CASE DaemonBoot
  BY <1>2 DEF DaemonBoot, Started, MayStart
<1>3. CASE FlagCheck
  BY <1>3 DEF FlagCheck
<1>4. CASE Poll
  <2>1. CASE Look \/ Ask \/ PollAnswer \/ PollError \/ PollAgain
    BY <2>1 DEF Look, Ask, PollAnswer, PollError, PollAgain
  <2>2. CASE AttemptLock
    BY <2>2 DEF AttemptLock
  <2>3. CASE AttemptHeld
    BY <2>3 DEF AttemptHeld, NoteFailure
  <2>4. CASE Attempt
    BY <2>4 DEF Attempt, Write, NoteFailure
  <2> QED
    BY <1>4, <2>1, <2>2, <2>3, <2>4 DEF Poll
<1>5. CASE RetryStep
  <2>1. daemon # "off"
    BY <1>5 DEF RetryStep, Resume, Save, Announce, AddNotice, Wake, RetryLock, RetryHeld, Retry,
                Cleanup, Verdict, GiveUp, GiveNotice
  <2>2. ~(at \in {"cleanup", "status"} /\ tidy # "unstopped") /\ tidy # "yes"
    BY <2>1
  <2>3. UNCHANGED <<at, tidy>> /\ (attached => attached')
    BY <1>5 DEF RetryStep, Resume, Save, Announce, AddNotice, Wake, RetryLock, RetryHeld, Retry,
                Cleanup, Verdict, GiveUp, GiveNotice, Again, Write
  <2> QED
    BY <2>2, <2>3
<1>6. CASE UserNext
  <2>1. CASE Begin
    BY <2>1, <1>0 DEF Begin, quietVars
  <2>2. CASE Enter
    BY <2>2 DEF Enter, End
  <2>3. CASE Attach
    <3>1. at = "in" /\ at' \in {"stop", "lock"} /\ (at' = "stop" => attached')
      BY <2>3 DEF Attach, End, Write
    <3>2. UNCHANGED <<daemon, motd, full, total, tidy>> /\ (attached => attached')
      BY <2>3 DEF Attach, Write
    <3> QED
      BY <3>1, <3>2
  <2>4. CASE StopDaemon
    BY <2>4 DEF StopDaemon, Killed
  <2>5. CASE PostAttach
    BY <2>5 DEF PostAttach, Tidy
  <2>6. CASE Status
    BY <2>6 DEF Status, End
  <2>7. CASE Detach
    BY <2>7 DEF Detach
  <2>8. CASE StartDaemon
    BY <2>8 DEF StartDaemon, Started, MayStart, End
  <2>9. CASE Restart
    BY <2>9 DEF Restart, Killed
  <2>10. CASE ConfigureRetryService
    BY <2>10, <1>0 DEF ConfigureRetryService, quietVars
  <2> QED
    BY <1>6, <2>1, <2>2, <2>3, <2>4, <2>5, <2>6, <2>7, <2>8, <2>9, <2>10 DEF UserNext
<1>7. CASE Reboot
  BY <1>7 DEF Reboot, End
<1>8. CASE ChangeLicence
  BY <1>8, <1>0 DEF ChangeLicence, quietVars
<1>9. CASE UNCHANGED autoVars
  BY <1>9, <1>0 DEF autoVars, quietVars
<1> QED
  BY <1>1, <1>2, <1>3, <1>4, <1>5, <1>6, <1>7, <1>8, <1>9 DEF AutoNext, DaemonNext

\* Whatever the daemon and the boot service are doing when a pro command has attached the
\* machine, nothing tells the user afterwards that attaching failed (post_cli_attach).
THEOREM AttachQuiet == AutoSpec => []NoFalseAlarm
<1>1. Quiet => NoFalseAlarm
  BY DEF Quiet, NoFalseAlarm
<1> QED
  BY QuietInit, QuietStep, <1>1, PTL DEF AutoSpec

-----------------------------------------------------------------------------
(* The count of attempts. *)

Loop == {"save", "announce", "notice", "sleep", "try", "retry"}

\* The position, on disk or in the daemon, is not ahead of the attempts made; and without a
\* detach the daemon leaves its loop only attached or at the end of the list.
Counted ==
    /\ failed \in 0..Intervals /\ index \in 0..Intervals
    /\ saved \in 0..Intervals \cup {NoState}
    /\ "detach" \notin setting.ops =>
        /\ op # "detach"
        /\ saved = NoState \/ saved <= failed
        /\ daemon \in Loop => index <= failed
        /\ daemon \in {"cleanup", "verdict"} => attached \/ failed = Intervals

countVars == <<setting, attached, saved, daemon, index, op, failed>>

LEMMA CountedInit == AutoInit => Counted
BY IntervalsAssumption DEF AutoInit, Counted, NoState, Loop

LEMMA OneMoreBounds ==
    ASSUME NEW n \in 0..Intervals
    PROVE  OneMore(n) \in 0..Intervals /\ OneMore(n) >= n
BY IntervalsAssumption DEF OneMore

LEMMA CountedStep == Counted /\ [AutoNext]_autoVars => Counted'
<1> SUFFICES ASSUME Counted, [AutoNext]_autoVars PROVE Counted'
  OBVIOUS
<1> USE IntervalsAssumption DEF Counted, NoState, Loop, disk, run, cloud, user, history
<1>0. CASE UNCHANGED countVars
  BY <1>0 DEF countVars
<1>a. failed' = OneMore(failed) => failed' \in 0..Intervals /\ failed' >= failed
  BY OneMoreBounds
<1>1. CASE BootNext
  <2>1. CASE BootSkip \/ BootStart \/ BootLock \/ BootHeld \/ BootDone \/ BootRaises
    BY <2>1, <1>0 DEF BootSkip, BootStart, BootLock, BootHeld, BootDone, BootRaises, countVars
  <2>2. CASE BootAttach
    BY <2>2 DEF BootAttach, Write
  <2>3. CASE BootFailed
    <3>1. failed' = OneMore(failed)
      BY <2>3 DEF BootFailed, NoteFailure
    <3>2. UNCHANGED <<setting, attached, saved, daemon, index, op>>
      BY <2>3 DEF BootFailed
    <3> QED
      BY <3>1, <3>2, <1>a
  <2>4. CASE BootSaves
    BY <2>4 DEF BootSaves
  <2> QED
    BY <1>1, <2>1, <2>2, <2>3, <2>4 DEF BootNext
<1>2. CASE DaemonBoot
  BY <1>2 DEF DaemonBoot, Started
<1>3. CASE FlagCheck
  BY <1>3 DEF FlagCheck
<1>4. CASE Poll
  <2>1. /\ daemon' \in {"leave", "attempt", "ask", "off", "waiting", "delay", "attach"}
        /\ UNCHANGED <<setting, saved, index, op>>
    <3>1. CASE Look \/ Ask \/ PollAnswer \/ PollError \/ PollAgain
      BY <3>1 DEF Look, Ask, PollAnswer, PollError, PollAgain
    <3>2. CASE AttemptLock \/ AttemptHeld \/ Attempt
      BY <3>2 DEF AttemptLock, AttemptHeld, Attempt
    <3> QED
      BY <1>4, <3>1, <3>2 DEF Poll
  <2>2. failed' = failed \/ failed' = OneMore(failed)
    BY <1>4 DEF Poll, Look, Ask, PollAnswer, PollError, PollAgain, AttemptLock, AttemptHeld,
                Attempt, NoteFailure
  <2> QED
    BY <2>1, <2>2, <1>a
<1>5. CASE RetryStep
  <2>1. CASE Resume
    BY <2>1 DEF Resume
  <2>2. CASE Save
    BY <2>2 DEF Save
  <2>3. CASE Announce \/ AddNotice \/ RetryLock
    BY <2>3 DEF Announce, AddNotice, RetryLock
  <2>4. CASE Wake
    BY <2>4 DEF Wake
  <2>5. ASSUME Again, daemon \in Loop, UNCHANGED <<setting, saved, op>>, attached => attached'
        PROVE  Counted'
    <3>1. /\ index' = OneMore(index) /\ failed' = OneMore(failed)
          /\ daemon' = IF index' < Intervals THEN "save" ELSE "cleanup"
      BY <2>5 DEF Again
    <3>2. index <= failed => index' <= failed'
      BY <3>1 DEF OneMore
    <3>3. index' \in 0..Intervals
      BY <3>1, OneMoreBounds
    <3> QED
      BY <3>1, <3>2, <3>3, <2>5, <1>a
  <2>6. CASE RetryHeld
    BY <2>6, <2>5 DEF RetryHeld
  <2>7. CASE Retry
    <3>1. PICK outcome \in FullAutoAttach :
            /\ Write(outcome)
            /\ IF outcome \in {"ok", "partial", "already"}
               THEN daemon' = "cleanup" /\ UNCHANGED <<index, history>>
               ELSE Again
      BY <2>7 DEF Retry
    <3>2. UNCHANGED <<setting, saved, op>> /\ daemon = "retry" /\ (attached => attached')
      BY <2>7, <3>1 DEF Retry, Write
    <3>3. CASE outcome \in {"ok", "partial", "already"}
      <4>1. attached'
        BY <3>1, <3>3 DEF Write, FullAutoAttach, Outcomes
      <4> QED
        BY <3>1, <3>2, <3>3, <4>1
    <3>4. CASE outcome \notin {"ok", "partial", "already"}
      BY <3>1, <3>2, <3>4, <2>5
    <3> QED
      BY <3>3, <3>4
  <2>8. CASE Cleanup
    BY <2>8 DEF Cleanup, Tidy
  <2>9. CASE Verdict
    BY <2>9 DEF Verdict
  <2>10. CASE GiveUp \/ GiveNotice
    BY <2>10 DEF GiveUp, GiveNotice
  <2> QED
    BY <1>5, <2>1, <2>2, <2>3, <2>4, <2>6, <2>7, <2>8, <2>9, <2>10 DEF RetryStep
<1>6. CASE UserNext
  <2>1. CASE Begin
    BY <2>1 DEF Begin, Attaches
  <2>2. CASE Enter
    BY <2>2 DEF Enter, End
  <2>3. CASE Attach
    BY <2>3 DEF Attach, End, Write
  <2>4. CASE StopDaemon
    BY <2>4 DEF StopDaemon, Killed
  <2>5. CASE PostAttach
    BY <2>5 DEF PostAttach, Tidy
  <2>6. CASE Status
    BY <2>6 DEF Status, End
  <2>7. CASE Detach
    BY <2>7 DEF Detach
  <2>8. CASE StartDaemon
    BY <2>8 DEF StartDaemon, Started, End
  <2>9. CASE Restart
    BY <2>9 DEF Restart, Killed
  <2>10. CASE ConfigureRetryService
    BY <2>10, <1>0 DEF ConfigureRetryService, countVars
  <2> QED
    BY <1>6, <2>1, <2>2, <2>3, <2>4, <2>5, <2>6, <2>7, <2>8, <2>9, <2>10 DEF UserNext
<1>7. CASE Reboot
  BY <1>7 DEF Reboot, End
<1>8. CASE ChangeLicence
  BY <1>8, <1>0 DEF ChangeLicence, countVars
<1>9. CASE UNCHANGED autoVars
  BY <1>9, <1>0 DEF autoVars, countVars
<1> QED
  BY <1>1, <1>2, <1>3, <1>4, <1>5, <1>6, <1>7, <1>8, <1>9 DEF AutoNext, DaemonNext

\* The user is never told of more attempts than were made, over restarts, reboots and
\* attempts that found the lock held, on a machine nobody detaches (retry_auto_attach.py).
THEOREM AttemptsCounted == AutoSpec => []CountedAttempts
<1>1. Counted => CountedAttempts
  BY DEF Counted, CountedAttempts
<1> QED
  BY CountedInit, CountedStep, <1>1, PTL DEF AutoSpec

-------------------------------------------------------------------------------
(* TimerJobs, for every interval the server asks for and every length of the stages of an
   expiry. *)

\* A job that succeeded is due no earlier than the server asked: the record on disk says so
\* between two runs, the one in memory during a run.
Paced ==
    /\ now \in Nat /\ today \in Nat /\ interval \in Nat /\ pinged \in Nat \cup {Never}
    /\ jobs \in [metering : Int, messaging : Int] /\ mem \in [metering : Int, messaging : Int]
    /\ timer = "off" /\ pinged # Never => jobs = Corrupt \/ jobs.metering >= pinged + Ping
    /\ timer # "off" /\ pinged # Never => mem.metering >= pinged + Ping

\* The server knows of a renewal first.
Ahead ==
    /\ effectiveTo \in Int /\ renewed \in Int
    /\ effectiveTo <= renewed /\ renewed <= LastDay + Soon

LEMMA Widths == LastDay \in Nat /\ Soon \in Nat /\ Grace \in Nat /\ Ping \in Nat
BY TimerAssumption

LEMMA Interval ==
    ASSUME interval \in Nat
    PROVE  /\ MeteringInterval \in Nat
           /\ MeteringInterval # 0 => MeteringInterval >= Ping
BY Widths DEF MeteringInterval, Most

LEMMA PacedStep == ASSUME Paced, [TimerNext]_timerVars PROVE Paced'
<1> USE Widths DEF Paced, Never
<1>1. CASE UNCHANGED timerVars
  BY <1>1 DEF timerVars
<1>2. CASE Fire
  BY <1>2 DEF Fire, Unset
<1>3. CASE Metering
  <2>1. CASE UNCHANGED <<mem, pinged>>
    BY <1>3, <2>1 DEF Metering
  <2>2. CASE /\ MeteringInterval # 0 /\ pinged' = today
             /\ mem' = [mem EXCEPT !.metering = today + MeteringInterval]
    BY <1>3, <2>2, Interval DEF Metering
  <2> QED
    BY <1>3, <2>1, <2>2 DEF Metering
<1>4. CASE Messaging
  BY <1>4 DEF Messaging
<1>5. CASE Record
  BY <1>5 DEF Record, Exit, Unset
<1>6. CASE TimerKilled
  BY <1>6 DEF TimerKilled, Exit, Unset
<1>7. CASE NextDay \/ ClockBack \/ SetInterval
  BY <1>7 DEF NextDay, ClockBack, SetInterval
<1>8. CASE Renew
  BY <1>8 DEF Renew
<1>9. CASE Garble
  BY <1>9 DEF Garble, Corrupt
<1> QED
  BY <1>1, <1>2, <1>3, <1>4, <1>5, <1>6, <1>7, <1>8, <1>9 DEF TimerNext

LEMMA AheadStep == ASSUME Ahead, [TimerNext]_timerVars PROVE Ahead'
<1> USE Widths DEF Ahead
<1>1. CASE UNCHANGED <<effectiveTo, renewed>>
  BY <1>1
<1>2. CASE Messaging
  BY <1>2 DEF Messaging, contract
<1>3. CASE Renew
  BY <1>3 DEF Renew
<1> QED
  BY <1>1, <1>2, <1>3
  DEF TimerNext, timerVars, contract, Fire, Metering, Record, TimerKilled, NextDay, ClockBack,
      SetInterval, Garble

LEMMA StartPaced == TimerInit => Paced /\ Ahead
<1> SUFFICES ASSUME TimerInit PROVE Paced /\ Ahead
  OBVIOUS
<1>1. Paced
  BY Widths DEF TimerInit, Paced, Unset, Never
<1>2. Ahead
  BY Widths DEF TimerInit, Ahead
<1> QED
  BY <1>1, <1>2

\* A ping is only made when the last one's successor is due.
LEMMA PingsApart ==
    ASSUME Paced, [TimerNext]_timerVars, pinged # Never, pinged' \notin {pinged, Never}
    PROVE  pinged' - pinged >= Ping
<1>1. Metering
  BY DEF TimerNext, timerVars, Fire, Messaging, Record, TimerKilled, NextDay, ClockBack, Renew,
         SetInterval, Garble
<1>2. pinged' = today /\ mem.metering <= today /\ timer # "off"
  BY <1>1 DEF Metering, Due
<1> QED
  BY <1>2, Widths DEF Paced, Never

\* What is stored when the job ends is what the server knows, or of the same stage.
LEMMA StageShown ==
    ASSUME Ahead, Paced, Messaging, mem' # mem
    PROVE  message' = Stage(renewed) /\ expired' = (message' = "expired")
<1>1. /\ effectiveTo' = (IF Stage(effectiveTo) = "none" THEN effectiveTo ELSE renewed)
      /\ Show(Stage(effectiveTo'))
  BY DEF Messaging
<1>2. message' = Stage(effectiveTo') /\ expired' = (message' = "expired")
  BY <1>1 DEF Show
<1>3. CASE Stage(effectiveTo) = "none"
  <2>1. effectiveTo - now > Soon
    BY <1>3 DEF Stage
  <2>2. renewed - now > Soon
    BY <2>1, Widths DEF Ahead, Paced
  <2>3. Stage(renewed) = "none"
    BY <2>2 DEF Stage
  <2> QED
    BY <1>1, <1>2, <1>3, <2>3
<1>4. CASE Stage(effectiveTo) # "none"
  BY <1>1, <1>2, <1>4
<1> QED
  BY <1>3, <1>4

\* Metering does not reach the server more often than the server asked, whatever the user
\* configures and however the clock moves, unless its record was lost; and a run of the
\* messaging job tells what the server says of the contract.  (run_job, update_motd_messages)
THEOREM JobsPaced == TimerSpec => JobsInTime
<1> DEFINE Inv == Paced /\ Ahead
<1>1. TimerInit => Inv
  BY StartPaced
<1>2. Inv /\ [TimerNext]_timerVars => Inv'
  BY PacedStep, AheadStep
<1>3. Inv /\ [TimerNext]_timerVars =>
        [/\ pinged # Never /\ pinged' \notin {pinged, Never} => pinged' - pinged >= Ping
         /\ Messaging /\ mem' # mem => /\ message' = Stage(renewed)
                                        /\ expired' = (message' = "expired")]_timerVars
  BY PingsApart, StageShown
<1> HIDE DEF Inv
<1> QED
  BY <1>1, <1>2, <1>3, PTL DEF TimerSpec, JobsInTime

-------------------------------------------------------------------------------
(* MagicAttach, for every limit on attempts and errors. *)

\* The parts of MagicTypeOK.  The attempts stay within the limit because the loop is left when
\* it is reached.
Places ==
    /\ token \in Tokens /\ result \in Results
    /\ client \in {"initiate", "poll", "sleep", "revoke", "end"}
Counts ==
    /\ attempts \in 0..MaxAttempts /\ errors \in 0..Tolerated /\ down \in 0..(Tolerated + 1)
    /\ client \in {"initiate", "poll", "sleep"} => attempts < MaxAttempts
Pace == slow \in BOOLEAN

LEMMA MagicTypeInit == MagicInit => Places /\ Counts /\ Pace
<1> SUFFICES ASSUME MagicInit PROVE Places /\ Counts /\ Pace
  OBVIOUS
<1>1. Places
  BY DEF MagicInit, Places, Tokens, Results
<1>2. Counts
  <2>1. attempts = 0 /\ errors = 0 /\ down = 0
    BY DEF MagicInit
  <2> QED
    BY <2>1, MaxAttemptsAssumption, ToleratedAssumption DEF Counts
<1>3. Pace
  BY DEF MagicInit, Pace
<1> QED
  BY <1>1, <1>2, <1>3

LEMMA MagicParts == Places /\ Counts /\ Pace => MagicTypeOK
BY DEF Places, Counts, Pace, MagicTypeOK

LEMMA PlacesStep == Places /\ [MagicNext]_magicVars => Places'
BY DEF Places, Tokens, Results, MagicNext, magicVars, Client, Initiate, PollAnswered, PollRefused,
       PollUnavailable, PollBroken, PollDown, Slept, Revoke, Server, Confirm, Expire,
       RevokeElsewhere, Finish, Nap

LEMMA PaceStep == Pace /\ [MagicNext]_magicVars => Pace'
BY DEF Pace, MagicNext, magicVars, Client, Initiate, PollAnswered, PollRefused,
       PollUnavailable, PollBroken, PollDown, Slept, Revoke, Server

LEMMA CountsStep == Counts /\ [MagicNext]_magicVars => Counts'
<1> SUFFICES ASSUME Counts, [MagicNext]_magicVars PROVE Counts'
  OBVIOUS
<1> USE MaxAttemptsAssumption, ToleratedAssumption DEF Counts
<1>1. CASE UNCHANGED <<client, attempts, errors, down>>
  BY <1>1
<1>2. CASE client = "initiate" /\ UNCHANGED <<attempts, errors, down>>
  BY <1>2
<1>3. CASE client \in {"poll", "revoke"} /\ UNCHANGED <<attempts, errors, down>>
           /\ (client' = "sleep" => client = "poll") /\ client' \in {"sleep", "revoke", "end"}
  BY <1>3
<1>4. CASE PollAnswered
  <2>1. errors' = 0 /\ down' = 0 /\ attempts' = attempts /\ client = "poll"
    BY <1>4 DEF PollAnswered
  <2> QED
    BY <2>1
<1>5. CASE PollDown
  <2>1. /\ client = "poll" /\ attempts' = attempts
        /\ down' = (IF down > Tolerated THEN down ELSE down + 1)
        /\ IF errors < Tolerated THEN errors' = errors + 1 ELSE errors' = errors
    BY <1>5 DEF PollDown
  <2> QED
    BY <2>1
<1>6. CASE Slept
  <2>1. /\ client = "sleep" /\ attempts' = attempts + 1 /\ errors' = errors /\ down' = down
        /\ client' = IF attempts' < MaxAttempts THEN "poll" ELSE "revoke"
    BY <1>6 DEF Slept
  <2> QED
    BY <2>1
<1>7. [Initiate \/ PollRefused \/ PollUnavailable \/ PollBroken \/ Revoke \/ Server]_magicVars
      => \/ UNCHANGED <<client, attempts, errors, down>>
         \/ client = "initiate" /\ UNCHANGED <<attempts, errors, down>>
         \/ /\ client \in {"poll", "revoke"} /\ UNCHANGED <<attempts, errors, down>>
            /\ client' = "sleep" => client = "poll"
            /\ client' \in {"sleep", "revoke", "end"}
  BY DEF magicVars, Initiate, PollRefused, PollUnavailable, PollBroken, Revoke, Server, Finish, Nap
<1> QED
  BY <1>1, <1>2, <1>3, <1>4, <1>5, <1>6, <1>7 DEF MagicNext, Client

\* All variables keep their types; wait() makes no more attempts than it may.  (_wait)
THEOREM MagicTypeCorrect == MagicSpec => []MagicTypeOK
BY MagicTypeInit, MagicParts, PlacesStep, CountsStep, PaceStep, PTL DEF MagicSpec

\* Until the client ends it was told nothing, and its streak of errors is no longer than that
\* of the failed connections.
Honest ==
    /\ client # "end" => result = "none" /\ errors <= down
    /\ ToldTheTruth

LEMMA HonestStep == Honest /\ Counts /\ Counts' /\ [MagicNext]_magicVars => Honest'
<1> SUFFICES ASSUME Honest, Counts, Counts', [MagicNext]_magicVars PROVE Honest'
  OBVIOUS
<1>0. errors \in Nat /\ down \in Nat /\ errors <= Tolerated /\ Tolerated \in Nat
  <2>1. errors \in 0..Tolerated /\ down \in 0..(Tolerated + 1)
    BY DEF Counts
  <2> QED
    BY <2>1, ToleratedAssumption
<1> USE DEF Honest, ToldTheTruth
<1>1. CASE UNCHANGED magicVars
  <2>1. UNCHANGED <<token, client, errors, result, down>>
    BY <1>1 DEF magicVars
  <2> QED
    BY <2>1
<1>2. CASE Initiate \/ PollRefused \/ PollUnavailable \/ PollBroken \/ Slept
  <2>1. /\ client # "end" /\ errors' = errors /\ down' = down
        /\ \/ result' = result
           \/ client' = "end" /\ result' \in {"unavailable", "api", "connectivity"}
    BY <1>2 DEF Initiate, PollRefused, PollUnavailable, PollBroken, Slept, Finish, Nap
  <2> QED
    BY <2>1
<1>3. CASE PollAnswered
  <2>1. /\ client = "poll" /\ errors' = 0 /\ down' = 0
        /\ \/ client' = "end" /\ result' = "token"
           \/ result' = result
    BY <1>3 DEF PollAnswered, Finish, Nap
  <2>2. errors' <= down'
    BY <2>1
  <2>3. result = "none"
    BY <2>1
  <2> QED
    BY <2>1, <2>2, <2>3
\* Giving up takes errors = Tolerated, and one failed connection more.
<1>4. CASE PollDown
  <2>1. down' = IF down > Tolerated THEN down ELSE down + 1
    BY <1>4 DEF PollDown
  <2>2. client = "poll" /\ result = "none" /\ errors <= down
    BY <1>4 DEF PollDown
  <2>3. errors \in Nat /\ down \in Nat /\ errors <= Tolerated /\ Tolerated \in Nat
    BY <1>0
  <2>4. CASE errors < Tolerated
    <3>1. errors' = errors + 1 /\ result' = result
      BY <1>4, <2>4 DEF PollDown, Nap
    <3>2. errors' <= down'
      BY <2>1, <2>2, <2>3, <2>4, <3>1
    <3> QED
      BY <2>2, <3>1, <3>2
  <2>5. CASE ~(errors < Tolerated)
    <3>1. client' = "end" /\ result' = "gave up"
      BY <1>4, <2>5 DEF PollDown, Finish
    <3>2. down' > Tolerated
      BY <2>1, <2>2, <2>3, <2>5
    <3> QED
      BY <3>1, <3>2
  <2> QED
    BY <2>4, <2>5
\* Only a token that is open can be revoked, and only one that is not known is refused.
<1>5. CASE Revoke
  <2>1. /\ client' = "end" /\ result' # "gave up"
        /\ result' = "invalid" => token' \in {"expired", "revoked"}
    BY <1>5 DEF Revoke, Finish
  <2> QED
    BY <2>1
\* The server changes only a token that is open.
<1>6. CASE Server
  <2>1. /\ token = "open" /\ UNCHANGED <<client, errors, result, down>>
    BY <1>6 DEF Server, Confirm, Expire, RevokeElsewhere
  <2> QED
    BY <2>1
<1> QED
  BY <1>1, <1>2, <1>3, <1>4, <1>5, <1>6 DEF MagicNext, Client

\* A user who confirmed the code is never told that it was invalid, whatever the browser, the
\* server's clock and another client do; and a wait is given up for want of a connection only
\* after Tolerated + 1 failures in a row.  (_wait, _magic_attach)
THEOREM MagicTruthful == MagicSpec => []ToldTheTruth
<1>1. MagicInit => Honest
  <2> SUFFICES ASSUME MagicInit PROVE Honest
    OBVIOUS
  <2>1. client = "initiate" /\ result = "none" /\ errors = 0 /\ down = 0
    BY DEF MagicInit
  <2> QED
    BY <2>1 DEF Honest, ToldTheTruth
<1>2. Honest => ToldTheTruth
  BY DEF Honest
<1> QED
  BY <1>1, <1>2, MagicTypeInit, CountsStep, HonestStep, PTL DEF MagicSpec

===============================================================================
