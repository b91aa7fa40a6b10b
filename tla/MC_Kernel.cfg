SPECIFICATION MC_Spec
CONSTANTS
    p1 = p1
    p2 = p2
    p3 = p3
    x1 = x1
    x2 = x2
    Procs = {p1, p2, p3}
    Messages <- MC_Messages
    Junk = Junk
    PIPESIZE = 2
    WIDTH = 4
    MaxRead = 2
    Kills = FALSE
    NPAGES = 12
    PGSIZE = 2
    NPTE = 3
    NPDE = 3
    KTABS = 1
    VmProcs = {1, 2, 3}
    VmGrow = {1, 3}
    VmShrink = {1, 2, 4}
    VmSegs <- MC_Segs
    VmArgs = {1, 3}
    VmMix = FALSE
    VmCalls = 5
    BSIZE = 2
    NDIRECT = 1
    NBLOCKS = 12
    MAXOPBLOCKS = 10
    LOGSIZE = 10
    BmFiles = {1, 2}
    BmProcs = {1, 2}
    BmLens = {3, 7}
    BmBytes = {1}
    BmCalls = 2
    BmCrashes = 1
    INPUT_BUF = 2
    UINT = 4
    COLS = 2
    ROWS = 2
    CnReaders = {1}
    CnLens = {1, 3}
    CnSerial = {"nl", "^H", "^U"}
    CnKeys = {"D"}
    CnModifiers = {"ctl"}
    CnTyped = 4
    CnReads = 2
    CnOut = 1
    SpCpus = {1, 2}
    SpProcs = {1, 2}
    SpCalls <- MC_SpCalls
    SpNaps = {1}
    SpMade = 1
    SpTimers = 1
    SpWidth = 2
SYMMETRY MC_Sym
INVARIANTS PipeSound MemorySound FilesSound ConsoleSound LocksSound AnyMixSound
PROPERTY FifoOrder
CHECK_DEADLOCK FALSE
