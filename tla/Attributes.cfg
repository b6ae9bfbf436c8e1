\* Two directories and two files: linked, moved, put in each other's place; one of them is
\* also written, truncated and set
SPECIFICATION Spec
CONSTANTS
    Dir = {d1, d2}
    File = {f1, f2}
    Name = {n1}
    Value = {v1}
    Settable = {f1}
    MaxSize = 1
    MaxTime = 2
SYMMETRY Symmetry
INVARIANTS TypeOK SameChangeTimeMeansSame SameModificationTimeMeansSame CreateLocks
PROPERTIES NoUpdateIsUndone
