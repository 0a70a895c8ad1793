CONSTANTS
    p1 = p1
    p2 = p2
    p3 = p3
    Procs <- MCProcs
    Initial <- MCInitial
    MaxTime = 0
    PollInterval = 1
    MaxCalls = 2
    SchedulerMayFail = FALSE
    RewindMayFail = FALSE
    Width = 5
    StackLower = 8
    StackUpper = 24
    StackLen = 10
    PidOffsets <- MCLiveOffsets
    MemBytes = 32
SPECIFICATION ForkSpec
PROPERTY ChildrenExit
