SPECIFICATION FairSpec
CONSTANTS
    Addrs <- FourHosts
    Highest = 5
    None = None
    Sessions = {s0, s1}
    NoSession = s0
    NoUnnamed = TRUE
    AllocSize = 2
    MaxAcc = 1
INVARIANTS
    TypeOK
    Sorted
    WithinRoom
PROPERTIES
    SearchEnds
    MapRefined
