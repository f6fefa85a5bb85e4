SPECIFICATION Spec
CONSTANTS
    Subdirs = {a, b}
    Home = home
    Listed = {}
    Flags = {}
    StatSize = 2
    ListSize = 1
    stat_cache_timeout = 2
    use_directory_mtime = TRUE
    use_prebuild_dirlists = TRUE
    MaxTime = 3
    MaxVersion = 2
PROPERTY NoCrossRename
CHECK_DEADLOCK FALSE
