SPECIFICATION Spec
CONSTANTS
    Name = {a, b}
    Obj = {o1, o2, o3}
    Desc = {d1}
    Thread = {t1, t2}
    Data = {x, y}
    Time = {now}
    Null = Null
    Main = Main
    Garbage = Garbage
    Calls = {"open", "release", "write", "truncate", "mknod"}
    Sizes = {"empty", "big"}
    MaxDatabaseLen = 0
    Compressible = {a, b}
    Excluded = {}
    DedupEnabled = FALSE
    DedupRedup = FALSE
    MaxCompress = FALSE
    Failures = {"dir"}
SYMMETRY Symmetry
INVARIANTS
    SleeperHasWaker
    LocksReturned
    InFlightFaithful
    PwriteIsRaw
PROPERTIES
    Transparent
