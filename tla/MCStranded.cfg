CONSTANTS
    p1 = p1
    p2 = p2
    Procs <- MCProcs
    Initial <- MCProcs
    MaxTime = 4
    PollInterval = 1
    MaxCalls = 2
    SchedulerMayFail = TRUE
    Durations = {0, 1, 2}
SPECIFICATION Spec
PROPERTY EventuallyExitCode
