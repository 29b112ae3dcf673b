\* A "pro" command, an API process, the boot-time script and the daemon.
SPECIFICATION Spec
CONSTANTS
    NoPid = NoPid
    Procs = {cli, api, boot}
    ApiCallers = {api}
    CliCallers = {cli}
    Detachers = {boot}
    Daemons = {api}
    Viewers = {}
    MaxRetries = 2
INVARIANTS
    ExclusiveUntilBreached
    ReleaseIsNeverFirst
    NoSelfBlock
    NoticeHasOwner
CHECK_DEADLOCK FALSE
