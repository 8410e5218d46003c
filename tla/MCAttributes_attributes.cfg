SPECIFICATION Spec
CONSTANTS
    Name = {a, b}
    Ino = {i1, i2, i3}
    Thread = {t1}
    Value = {x, y}
    Null = Null
    MaxJobs = 1
    Failures = {"rename"}
SYMMETRY Symmetry
INVARIANTS
    TypeOK
    

    
