\* An entry that was moved away
SPECIFICATION Spec
CONSTANTS
    Together = {{"metadata", "dentry"}}
    Directory = root
    Ino = {i1, i2}
    Name = {a, b}
    Value = {v1, v2}
    MaxLog = 4
    MaxAlone = 4
    MaxTime = 4
INVARIANTS RewoundEntriesWereThere
CHECK_DEADLOCK FALSE
