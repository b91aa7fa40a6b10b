SPECIFICATION MC_Spec
CONSTANTS
    Subjects <- MC_Subjects
    Clients = {c1, c2}
    Unums = {1, 2}
    Pnums = {1, 2}
    Mnums = {1, 2}
    Managers = {1}
    Albums = {1}
    Singers = {1}
    Genres = {1}
    Charts = {1}
    Infos = {0, 1}
    Loads <- MC_Loads
    BLoads <- MC_BLoads
    ScTexts <- MC_ScTexts
    MAXTOKENLEN = 40
    AFuncs = {"f"}
    AVars = {"x"}
    AParams = {"p"}
    AnMax = 5
    TnPrograms <- MC_TnPrograms
    TnTexts <- MC_TnTexts
    TnInputs <- MC_TnInputs
    TmHalf = 64
    DADDR_SIZE = 6
    TnFuel = 5
    TnReads = 3
    TnRuns = 2
    SoValues = {0, 1, 2, 4}
    SoLen = 5
    SENTINEL = 5
    PqCalls = 6
    OpInputs <- MC_OpInputs
    CmTrees <- MC_CmTrees
    CmSpaces <- MC_CmSpaces
    CmTexts <- MC_CmTexts
    CbLedger <- MC_CbLedger
    CbBook <- MC_CbBook
    CbMany <- MC_CbMany
    CbRecords = 2
    CbPages = 3
    PF_BUFFER_SIZE = 2
    ShTrees <- MC_ShTrees
    ShLines <- MC_ShLines
    ShReads <- MC_ShReads
    ShWrites <- MC_ShWrites
    ShMissing <- MC_ShMissing
    ShFails = 1
    MAXARGS = 4
    NBUF = 24
    ShFiles = 8
    BaInputs <- MC_BaInputs
    BaGood = {"a", "b", "c"}
    BaFails = 1
    BaShells = 12
    MkArgs <- MC_MkArgs
    BSIZE = 3
    NDIRECT = 1
    DIRSIZ = 2
    IPB = 2
    NINODES = 8
    LOGSIZE = 2
    FSSIZE = 20
    NBITS = 24
    UlMems <- MC_UlMems
    UlCounts <- MC_UlCounts
    UlInputs <- MC_UlInputs
    UlFormats <- MC_UlFormats
    UlInts <- MC_UlInts
    UlBase = 3
    UlWidth = 4
    UlRead = 2
    GrPatterns <- MC_GrPatterns
    GrLines <- MC_GrLines
    GrFiles <- MC_GrFiles
    GrBuf = 4
    UmSizes = {0, 9, 30}
    UmHeader = 8
    UmCore = 6
    UmTop = 16
    UmHeap = 3
    AWidth = 5
    AWord = 2
    ASizes = {0, 6, 15, 16}
    AEsp = {0, 4, 9, 13, 14, 26, 28, 31}
    AArgs <- MC_AArgs
    ALens <- MC_ALens
    AZeros <- MC_AZeros
    AVectors <- MC_AVectors
    MAXARG = 3
    APaths <- MC_APaths
INVARIANTS StoresExact  AlgorithmsRight UserlandRight
PROPERTY MusicSound
CHECK_DEADLOCK FALSE
