CONSTANTS
    p1 = p1
    Procs <- MCProcs
    Initial <- MCProcs
    MaxTime = 4
    PollInterval = 1
    MaxCalls = 2
    SchedulerMayFail = TRUE
    OpenFds = {0, 1, 2, 3, 4}
    PollRights = {3}
    Pollable = {0, 3}
    Subs <- MCSubs
    MaxSubs = 2
SPECIFICATION PollSpec
INVARIANT PollTypeOK PollGuardsHaveRights
