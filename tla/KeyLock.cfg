SPECIFICATION FairSpec
CONSTANTS
    Procs = {p1, p2, p3}
    Byers = {p3}
    Variants = {"flock", "lockf", "shm", "sem", "none"}
    MaxKeys = 3
    MaxKills = 1
INVARIANTS
    TypeOK
    OneHolder
    LastKeyUsed
PROPERTY
    NobodyStuck
CHECK_DEADLOCK FALSE
