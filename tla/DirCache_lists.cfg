SPECIFICATION Spec
CONSTANTS
    Subdirs = {a, b}
    Home = home
    Listed = {a}
    Flags = {}
    StatSize = 2
    ListSize = 1
    stat_cache_timeout = 2
    use_directory_mtime = TRUE
    use_prebuild_dirlists = TRUE
    MaxTime = 4
    MaxVersion = 3
INVARIANT
    ListingKnown
CHECK_DEADLOCK FALSE
