\* The tables of the tree, with a transaction that stamps after the one that made a file;
\* blocks and extended attributes, with any number of changes to a millisecond
SPECIFICATION Spec
CONSTANTS
    Together = {{"metadata", "dentry"}, {"data"}, {"xattr"}}
    Directory = root
    Ino = {i1, i2}
    Name = {a, b}
    Value = {v1, v2}
    MaxLog = 7
    MaxAlone = 5
    MaxTime = 4
SYMMETRY Symmetry
INVARIANTS TypeOK RewindMissesNothing RewindIsThePast RewoundEntriesHaveInodes BdataIsData
CHECK_DEADLOCK FALSE
