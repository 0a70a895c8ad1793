CONSTANTS
    p1 = p1
    p2 = p2
    p3 = p3
    Procs <- MCProcs
    Initial <- MCInitial
    MaxTime = 0
    PollInterval = 1
    MaxCalls = 2
    SchedulerMayFail = TRUE
    RewindMayFail = TRUE
    Width = 5
    StackLower = 8
    StackUpper = 24
    StackLen = 10
    PidOffsets <- MCLostOffsets
    MemBytes = 32
SPECIFICATION ForkSpec
PROPERTY ChildrenExit
