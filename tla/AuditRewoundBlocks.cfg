\* An overwritten block
SPECIFICATION Spec
CONSTANTS
    Together = {{"data"}}
    Directory = root
    Ino = {i1, i2}
    Name = {a, b}
    Value = {v1, v2}
    MaxLog = 4
    MaxAlone = 4
    MaxTime = 4
INVARIANTS RewoundBlocksAreThePast
CHECK_DEADLOCK FALSE
