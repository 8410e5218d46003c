SPECIFICATION Spec
CONSTANTS
    Name = {a, b}
    Ino = {i1, i2, i3}
    Desc = {d1}
    Data = {x, y}
    Null = Null
    Excluded = {}
    Calls = {"write"}
    Failures = {}
SYMMETRY Symmetry
PROPERTIES
    Isolation
