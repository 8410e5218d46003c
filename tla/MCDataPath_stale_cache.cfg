SPECIFICATION Spec
CONSTANTS
    Desc = {d1, d2}
    Byte = {0, 1}
    Zero = 0
    Page = 2
    MaxLen = 5
    MaxAppend = 3
    CacheMax = 2
    BigFile = 3
    MinBackground = 1
    CacheSkipped = TRUE
    Compressible = TRUE
    Null = Null
    Lengths = {1, 4}
    Sample <- FirstSample
    Calls = {"write", "truncate", "zero", "getattr"}
    Failures = {}
SYMMETRY Symmetry
INVARIANT ReadsWhatWasWritten
