\* Liveness and the refinement, without symmetry; each inode held once or twice.
SPECIFICATION FairSpec
CONSTANTS
    Name = {a, b}
    MaxIno = 3
    NewKinds = {"dir", "file", "symlink"}
    MaxHold = 2
    LongTargets = TRUE
INVARIANTS CountsAgree
PROPERTIES LifeSpec UnreferencedInodesGo
