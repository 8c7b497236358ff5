SPECIFICATION Spec
CONSTANTS
    fan = fan
    shell = shell
    Threads <- FanOnly
    ShellThreads = {}
    QueueLen = 1
    MaxSci = 2
    PwrUsed <- TwoStates
INVARIANT LineMeansPending
