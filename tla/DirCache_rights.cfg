SPECIFICATION Spec
CONSTANTS
    Subdirs = {a, b}
    Home = home
    Listed = {}
    Flags = {"DEL"}
    StatSize = 2
    ListSize = 1
    stat_cache_timeout = 1
    use_directory_mtime = TRUE
    use_prebuild_dirlists = TRUE
    MaxTime = 2
    MaxVersion = 2
SYMMETRY Symmetry
INVARIANTS
    TypeOK
    RightsKnown
CHECK_DEADLOCK FALSE
