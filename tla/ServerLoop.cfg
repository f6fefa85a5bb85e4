SPECIFICATION SFairSpec
CONSTANTS
    THCCOUNT = 2
    maxthcallowed = 1
    Sizes <- ShortAndLong
    Modes = {"daemon", "inetd"}
    MaxSignals = 2
    MaxDeaths = 1
INVARIANTS
    RateBounded
    PidFileTrue
    NoSleepOnOrder
PROPERTY
    OrderObeyed
CHECK_DEADLOCK FALSE
