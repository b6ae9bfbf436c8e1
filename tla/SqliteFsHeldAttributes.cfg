SPECIFICATION Spec
CONSTANTS
    Name = {a, b}
    MaxIno = 3
    NewKinds = {"dir", "file", "symlink"}
    MaxHold = 1
    LongTargets = FALSE
INVARIANTS HeldInodesHaveAttributes
