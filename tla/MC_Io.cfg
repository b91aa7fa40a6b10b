SPECIFICATION MC_LiveSpec
CONSTANTS
    a = a
    p1 = p1
    p2 = p2
    p3 = p3
    BcProcs = {p1, p2}
    Procs = {p1, p2, p3}
    Messages <- MC_Messages
    Junk = Junk
    PIPESIZE = 1
    WIDTH = 2
    MaxRead = 1
    Kills = TRUE
    Blocks = {b1, b2, b3}
    Values = {x1, x2}
    NoBlock = NoBlock
    Nobody = Nobody
    NBUF = 2
INVARIANTS CacheSound KilledPipeSound
PROPERTIES Transparent CallsEnd
CHECK_DEADLOCK FALSE
