------------------------------- MODULE TimerJobs -------------------------------
(***************************************************************************)
(* The jobs of ua-timer on an attached machine: metering and the messages   *)
(* about the contract's expiry, the file in which they remember when to run *)
(* next, and the answers of the contract server.  Time is in days, coarse   *)
(* enough for a job's interval and fine enough for the stages of an expiry. *)
(***************************************************************************)
EXTENDS Integers

CONSTANTS LastDay,     \* bound: how far the clock goes
          Soon, Grace, \* CONTRACT_EXPIRY_PENDING_DAYS and ..._GRACE_PERIOD_DAYS (20 and 14)
          Ping         \* activityPingInterval, from the server

ASSUME TimerAssumption == {LastDay, Soon, Grace, Ping} \subseteq Nat

VARIABLES
    now,       \* the clock, which may be set back
    interval,  \* metering_timer in the configuration; 0 disables the job
    jobs,      \* jobs-status.json: Corrupt, or when each job is to run next
    timer,     \* where timer.py is
    mem,       \* the contents of jobs-status.json it works on
    today,     \* its current_time
    effectiveTo, \* the expiry in the machine token
    renewed,   \* the expiry the contract server knows
    message,   \* the message about the contract in the MOTD
    expired,   \* the CONTRACT_EXPIRED notice
    pinged     \* history: when metering last succeeded, or Never if its record was lost

timerVars == <<now, interval, jobs, timer, mem, today, effectiveTo, renewed, message, expired, pinged>>
contract == <<effectiveTo, renewed, message, expired>>

Never == -1
Unset == [metering |-> Never, messaging |-> Never]
Corrupt == [metering |-> -2, messaging |-> -2]
Days == 0..LastDay
Expiries == {LastDay - Grace - 1, LastDay + Soon}

Most(a, b) == IF a > b THEN a ELSE b

\* The record holds times up to an interval after the last day.
Times == Never..(LastDay + Ping + 1)
TimerTypeOK ==
    /\ now \in Days /\ today \in Days /\ interval \in {0, 1, Ping + 1}
    /\ jobs \in {Corrupt} \cup [metering : Times, messaging : Times]
    /\ mem \in [metering : Times, messaging : Times]
    /\ timer \in {"off", "metering", "messaging", "write"}
    /\ effectiveTo \in Expiries /\ renewed \in Expiries /\ effectiveTo <= renewed
    /\ message \in {"none", "soon", "grace", "expired"} /\ expired \in BOOLEAN
    /\ pinged \in Days \cup {Never}

TimerInit ==
    /\ now = 0 /\ today = 0 /\ interval \in {1, Ping + 1} /\ jobs = Unset /\ mem = Unset
    /\ timer = "off" /\ effectiveTo = LastDay - Grace - 1 /\ renewed = effectiveTo
    /\ message = "none" /\ expired = FALSE /\ pinged = Never

\* is_attached: the stage of a contract that ends on the given day.
Stage(end) ==
    IF end - now > Soon THEN "none"
    ELSE IF end - now >= 0 THEN "soon"
    ELSE IF end - now >= -Grace THEN "grace" ELSE "expired"

-----------------------------------------------------------------------------
\* run_jobs: a file that cannot be read is deleted; if it cannot be deleted, nothing runs
\* (no step here).  A missing file is Unset.
Fire ==
    /\ timer = "off" /\ timer' = "metering" /\ today' = now
    /\ \/ jobs # Corrupt /\ mem' = jobs /\ UNCHANGED <<jobs, pinged>>
       \/ jobs = Corrupt /\ mem' = Unset /\ jobs' = Unset /\ pinged' = Never
    /\ UNCHANGED <<now, interval, contract>>

\* Mutant of MeteringInterval: the configuration alone decides.
MeteringIntervalConfigured == interval

\* The interval of the job, and whether it runs now.
MeteringInterval == IF interval = 0 THEN 0 ELSE Most(Ping, interval)
Due(job) == mem[job] <= today

\* run_job: a job that fails -- the lock is held, the server is not there -- or is disabled
\* keeps its record, and runs again the next time; the other job is not affected.
Metering ==
    /\ timer = "metering" /\ timer' = "messaging"
    /\ \/ UNCHANGED <<mem, pinged>>
       \/ /\ Due("metering") /\ MeteringInterval # 0
          /\ mem' = [mem EXCEPT !.metering = today + MeteringInterval] /\ pinged' = today
    /\ UNCHANGED <<now, interval, jobs, today, contract>>

Show(stage) ==
    /\ message' = stage
    /\ expired' = (stage = "expired")

\* Mutant of Messaging: what the server says is stored, and not looked at.
MessagingStale ==
    /\ timer = "messaging" /\ timer' = "write"
    /\ \/ UNCHANGED <<mem, contract>>
       \/ /\ Due("messaging") /\ mem' = [mem EXCEPT !.messaging = today + 1]
          /\ effectiveTo' = (IF Stage(effectiveTo) = "none" THEN effectiveTo ELSE renewed)
          /\ Show(Stage(effectiveTo))
          /\ UNCHANGED renewed
    /\ UNCHANGED <<now, interval, jobs, today, pinged>>

\* update_motd_messages: a contract that seems to be at its end is looked up at the server,
\* which has to answer for the job to go on; then the stage is determined again.
Messaging ==
    /\ timer = "messaging" /\ timer' = "write"
    /\ \/ UNCHANGED <<mem, contract>>
       \/ /\ Due("messaging") /\ mem' = [mem EXCEPT !.messaging = today + 1]
          /\ effectiveTo' = (IF Stage(effectiveTo) = "none" THEN effectiveTo ELSE renewed)
          /\ Show(Stage(effectiveTo'))
          /\ UNCHANGED renewed
    /\ UNCHANGED <<now, interval, jobs, today, pinged>>

Exit == timer' = "off" /\ mem' = Unset /\ today' = 0

Record ==
    /\ timer = "write" /\ jobs' = mem /\ Exit
    /\ UNCHANGED <<now, interval, contract, pinged>>

\* Killed before the record is written: the jobs it ran will run again.
TimerKilled ==
    /\ timer # "off" /\ Exit /\ pinged' = Never
    /\ UNCHANGED <<now, interval, jobs, contract>>

NextDay ==
    /\ now < LastDay /\ now' = now + 1
    /\ UNCHANGED <<interval, jobs, timer, mem, today, contract, pinged>>
ClockBack ==
    /\ now > 0 /\ now' = now - 1
    /\ UNCHANGED <<interval, jobs, timer, mem, today, contract, pinged>>
Renew ==
    /\ renewed' = LastDay + Soon /\ renewed' # renewed
    /\ UNCHANGED <<now, interval, jobs, timer, mem, today, effectiveTo, message, expired, pinged>>
SetInterval ==
    /\ timer = "off" /\ interval' \in {0, 1, Ping + 1} \ {interval}   \* read once per run
    /\ UNCHANGED <<now, jobs, timer, mem, today, contract, pinged>>
Garble ==
    /\ jobs # Corrupt /\ timer = "off" /\ jobs' = Corrupt
    /\ UNCHANGED <<now, interval, timer, mem, today, contract, pinged>>

TimerNext == \/ Fire \/ Metering \/ Messaging \/ Record \/ TimerKilled
             \/ NextDay \/ ClockBack \/ Renew \/ SetInterval \/ Garble

TimerSpec == TimerInit /\ [][TimerNext]_timerVars

-----------------------------------------------------------------------------
\* As long as its record is not lost, metering does not reach the server more often than
\* the server asked ("the contract server can control the time we should make the request
\* again", lib/timer.py), whatever the user configures and however the clock moves.  And a
\* run of the messaging job that succeeds tells the user what the server says of the
\* contract: neither a renewal nor an expiry is missed.
JobsInTime ==
    [][/\ pinged # Never /\ pinged' \notin {pinged, Never} => pinged' - pinged >= Ping
       /\ Messaging /\ mem' # mem => /\ message' = Stage(renewed)
                                      /\ expired' = (message' = "expired")]_timerVars

=============================================================================
