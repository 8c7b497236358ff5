SPECIFICATION FairSpec
CONSTANTS
    fan = fan
    shell = shell
    Threads <- FanOnly
    ShellThreads = {}
    QueueLen = 2
    MaxSci = 3
    PwrUsed <- TwoStates
INVARIANTS TypeOK ExactlyOnce NoLostWakeup
PROPERTIES ChannelSpec EveryEventSettles DisallowedQuiesces
