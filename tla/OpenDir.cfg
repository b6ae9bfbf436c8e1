\* The readdir of Linux: two programs list a directory of up to three names that changes
SPECIFICATION Spec
CONSTANTS
    DirName = {1, 2, 3}
    Long = {2}
    Stream = {s1, s2}
    Capacity = {2, 3}
    MaxOpens = 3
INVARIANTS TypeOK EachStreamHasItsList ListingsAreComplete NothingTwice
