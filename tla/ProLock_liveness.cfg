\* "pro status" as root, an API command that gives up after two attempts, and
\* the retry daemon, which takes the lock again and again to update a notice.
SPECIFICATION FairSpec
CONSTANTS
    NoPid = NoPid
    Procs = {status, enable, daemon}
    ApiCallers = {enable}
    CliCallers = {status, enable}
    Detachers = {}
    Daemons = {daemon}
    Viewers = {status}
    MaxRetries = 2
PROPERTIES
    AcquireEnds
    StaleLockReclaimed
CHECK_DEADLOCK FALSE
