SPECIFICATION MCSpec
CONSTANTS
    GdbMaps = FALSE
    MaxProc = 3
    MaxSessions = 2
    Offsets = {o1, o2}
    MaxVbp = 2
    MaxNum = 4
    Threads = {t1, t2}
    MaxAddr = 2
    MaxSize = 2
    MaxTracked = 2
    MaxSets = 1
    Checks = {"double_free", "weird_free", "uaf", "heap_overlap"}
    BoolKeys = {3}
    StrKeys = {1}
    DirKey = 2
    PluginKey = 4
    MaxStarts = 2
    MaxCommands = 3
VIEW Tracked
SYMMETRY Symmetry
INVARIANTS
    CachesFresh
    HandlersPaired
    PieFollows
    TrackerExact
    WatchesExact
    SavedComesBack
CHECK_DEADLOCK FALSE
