\* Writes over up to three blocks, partial writes, truncation and holes
SPECIFICATION Spec
CONSTANTS
    BLOCK = 2
    WIDTH = 16
    Byte = {0, 1}
    MaxOffset = 3
    MaxWrite = 4
INVARIANTS TypeOK ReadsTheFile NoBlocksBehindTheEnd
PROPERTIES FileSpec
