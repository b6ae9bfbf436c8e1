\* All ways to mount, in any order
SPECIFICATION Spec
CONSTANT Mode = {"recording", "no_time", "read_only", "at_time"}
INVARIANTS TypeOK MountsGoOn WholeTablesAreLogged
