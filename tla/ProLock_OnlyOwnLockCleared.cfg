SPECIFICATION Spec
CONSTANTS
    NoPid = NoPid
    Procs = {first, second}
    ApiCallers = {}
    CliCallers = {first, second}
    Detachers = {}
    Daemons = {}
    Viewers = {}
    MaxRetries = 2
PROPERTY OnlyOwnLockCleared
CHECK_DEADLOCK FALSE
