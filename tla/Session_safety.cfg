SPECIFICATION Spec
CONSTANTS
    ZeroKey = k0
    Keys = {k0, k1, k2, k3, k4}
    SeqNums = {0, 1, 2, 3, 4}
    Draw <- AnyKeyLeastSeq
    SeqsRepeat = FALSE
    Cmds = {"write"}
    Positions = {0}
    Results = {"ok"}
    RetryTimeout = 1
    SessionTimeout = 2
    Lifetime = 1
    MaxId = 2
    MaxOpens = 2
    MaxDups = 1
    Faults = {"damage"}
    MaxFaults = 1
INVARIANTS
    TypeOK
    AtMostOncePerSession
    AckImpliesRun
    KeyAgreement
PROPERTY RpcRefined
SYMMETRY KeySymmetry
