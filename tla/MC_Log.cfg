SPECIFICATION Spec
CONSTANTS
    Procs = {p1, p2, p3}
    Blocks = {b1, b2}
    Values = {v0, v1}
    Zero = v0
    MAXOPBLOCKS = 4
    LOGSIZE = 8
    NLOG = 8
    OpBlocks = 2
    NoBuf = NoBuf
    NoBlock = NoBlock
SYMMETRY Symmetric
INVARIANTS TypeOK PinnedUntilInstalled ReservationFits NoPanic
PROPERTIES WriteAhead AtomicGroups
