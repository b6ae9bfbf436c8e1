\* Every kind of inode, up to three besides the root, each held once or twice.
SPECIFICATION Spec
CONSTANTS
    Name = {a, b}
    MaxIno = 4
    NewKinds = {"dir", "file", "symlink"}
    MaxHold = 2
    LongTargets = TRUE
SYMMETRY Symmetry
INVARIANTS TypeOK HeldInodesExist NoOrphans DotsFollowTheTree NamesAreInLivingDirs
PROPERTIES NamedInodesStay InodeNumbersAreNotReused
