SPECIFICATION FairSpec
CONSTANTS
    Name = {a, b}
    Obj = {o1, o2, o3}
    Desc = {d1}
    Thread = {t1, t2}
    Data = {x}
    Time = {now}
    Null = Null
    Main = Main
    Garbage = Garbage
    Calls = {"open", "release", "utime", "getattr"}
    Sizes = {"empty", "big"}
    MaxDatabaseLen = 0
    Compressible = {a, b}
    Excluded = {}
    DedupEnabled = FALSE
    DedupRedup = FALSE
    MaxCompress = FALSE
    Failures = {}
PROPERTIES
    SleepersWake
    QueueDrains
