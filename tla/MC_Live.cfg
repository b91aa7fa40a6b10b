SPECIFICATION MC_LiveSpec
CONSTANTS
    NPROC = 3
    NCPU = 2
    NTID = 1
    Values = {v1}
    NoValue = NoValue
    Calls = {"fork", "exit", "wait", "kill"}
    ThreadCalls = {}
    Threaded = {}
    Disciplined = TRUE
    OutOfMemory = TRUE
    p1 = p1
    p2 = p2
    p3 = p3
    b1 = b1
    b2 = b2
    v0 = v0
    NoBuf = NoBuf
    NoBlock = NoBlock
PROPERTIES SleeperWoken CommitEnds OrphanReaped KilledLeaves
CHECK_DEADLOCK FALSE
