SPECIFICATION Spec
CONSTANTS
    Name = {a, b}
    Temp = {t1}
    Codec = {"null", "gz", "bz2", "lzo", "lzma"}
    Compressible = {a}
    Block = 2
    MinBackground = 1
    MaxLen = 3
    Null = Null
    Programs = {"mount", "direct", "cancel", "offline", "fsck"}
    Failures = {"none", "short", "rename", "close", "crash", "open", "io"}
INVARIANTS
    TypeOK
    ContentsKept
    DamageSeen
    
    TempsAccounted
