CONSTANTS
    p1 = p1
    Procs <- MCProcs
    Initial <- MCProcs
    MaxTime = 4
    PollInterval = 1
    MaxCalls = 2
    SchedulerMayFail = FALSE
    OpenFds = {0, 1, 2, 3, 4}
    PollRights = {0, 3}
    Pollable = {0, 3, 4}
    Subs <- MCLiveSubs
    MaxSubs = 2
SPECIFICATION PollSpec
PROPERTY PollReturns
