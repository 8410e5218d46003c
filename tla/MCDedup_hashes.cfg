SPECIFICATION Spec
CONSTANTS
    Name = {a, b}
    Ino = {i1, i2, i3}
    Desc = {d1}
    Data = {x, y}
    Null = Null
    Excluded = {}
    Calls = {"read", "write", "truncate", "mknod", "unlink", "rename", "link", "redup", "unmount", "crash"}
    Failures = {"hash", "link", "copy", "call", "save"}
SYMMETRY Symmetry
INVARIANTS
    TypeOK
    DbFaithful
    SavedFaithful
    DbKeys
