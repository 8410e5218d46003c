SPECIFICATION Spec
CONSTANTS
    Name = {a, b}
    Obj = {o1, o2, o3}
    Desc = {d1}
    Thread = {t1, t2}
    Data = {x, y}
    Time = {now}
    Null = Null
    Main = Main
    Garbage = Garbage
    Calls = {"open", "release", "write", "read", "rename1"}
    Sizes = {"empty", "big"}
    MaxDatabaseLen = 0
    Compressible = {a, b}
    Excluded = {}
    DedupEnabled = TRUE
    DedupRedup = FALSE
    MaxCompress = FALSE
    Failures = {"dir"}
SYMMETRY Symmetry
CHECK_DEADLOCK FALSE
INVARIANTS
    RenameAssertion
    AccessesExact
    NoTornImage
    

    
