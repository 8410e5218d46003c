SPECIFICATION Spec
CONSTANTS
    Name = {a, b, c}
    Obj = {o1, o2, o3, o4}
    Desc = {d1}
    Thread = {t1, t2}
    Data = {x}
    Time = {now}
    Null = Null
    Main = Main
    Garbage = Garbage
    Calls = {"open", "release"}
    Sizes = {"empty", "big"}
    MaxDatabaseLen = 0
    Compressible = {a, b, c}
    Excluded = {}
    DedupEnabled = FALSE
    DedupRedup = FALSE
    MaxCompress = FALSE
    Failures = {}
SYMMETRY Symmetry
INVARIANTS
    NoUseAfterFree
