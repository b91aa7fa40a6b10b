SPECIFICATION Spec
CONSTANTS
    Procs = {p1, p2, p3}
    Blocks = {b1, b2, b3}
    Values = {v0, v1}
    Zero = v0
    MAXOPBLOCKS = 1
    LOGSIZE = 3
    NLOG = 3
    OpBlocks = 1
    NoBuf = NoBuf
    NoBlock = NoBlock
INVARIANT LogInRegion
