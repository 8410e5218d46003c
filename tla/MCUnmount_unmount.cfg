SPECIFICATION FairSpecMain
CONSTANTS
    Name = {a}
    Obj = {o1, o2, o3}
    Desc = {d1}
    Thread = {t1, t2}
    Data = {x}
    Time = {now}
    Null = Null
    Main = Main
    Garbage = Garbage
    Calls = {"open", "release", "getattr", "mknod"}
    Sizes = {"empty", "small", "big"}
    MaxDatabaseLen = 0
    Compressible = {a}
    Excluded = {}
    DedupEnabled = TRUE
    DedupRedup = TRUE
    MaxCompress = FALSE
    MaxSignals = 1
    Umount = TRUE
    Failures = {"hash", "signal"}
CHECK_DEADLOCK FALSE
INVARIANTS
    TypeOKMain
    ReferencesLive
    
PROPERTIES
    UnmountEnds
