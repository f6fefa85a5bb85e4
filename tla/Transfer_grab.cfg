SPECIFICATION Spec
CONSTANTS
    Users = {a, b}
    a = a
    b = b
    NoUser = NoUser
    Size = 2
    Buffer = 1
    JobKinds = {"get"}
    Lengths = {2}
    MaxJobs = 2
    Faults = {}
    MaxFaults = 0
INVARIANT
    GrabComplete
CHECK_DEADLOCK FALSE
