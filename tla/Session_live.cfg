SPECIFICATION FairSpec
CONSTANTS
    ZeroKey = 0
    Keys = {0, 1, 2, 3, 4, 5, 6}
    SeqNums = {100, 101}
    Draw <- LeastOf
    SeqsRepeat = TRUE
    Cmds = {"read"}
    Positions = {0, 1}
    Results = {"ok", "err"}
    RetryTimeout = 1
    SessionTimeout = 2
    Lifetime = 1
    MaxId = 2
    MaxOpens = 2
    MaxDups = 0
    Faults = {"damage", "restart"}
    MaxFaults = 1
INVARIANT NeverPreviousReply
PROPERTY Answered
