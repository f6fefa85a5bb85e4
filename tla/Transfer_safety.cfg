SPECIFICATION Spec
CONSTANTS
    Users = {a, b}
    a = a
    b = b
    NoUser = NoUser
    Size = 2
    Buffer = 1
    JobKinds = {"put", "cat", "grab", "del"}
    Lengths = {2}
    MaxJobs = 3
    Faults = {"stop"}
    MaxFaults = 1
INVARIANTS
    TypeOK
    UploadTracked
    AckPublished
    ReadsWhole
    OnlyOneGrab
PROPERTY StoreRefined
SYMMETRY Interchangeable
CHECK_DEADLOCK FALSE
