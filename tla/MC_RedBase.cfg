SPECIFICATION MC_Spec
CONSTANTS
    PFiles = {"f"}
    PVals = {1}
    PPages = 3
    PSlots = 2
    PPins = 1
    PLoads <- MC_PLoads
    Reckless = FALSE
    RVals = {1, 2}
    RPageSize = 4092
    RWord = 4
    RLoads <- MC_RLoads
    IKeys = {1, 2, 3, 4, 5}
    IRids = {1, 2, 3, 4, 5}
    IOrder = 2
    IEntries = 5
    ILoads <- MC_ILoads
    SRels = {1}
    SCatalogs = {8, 9}
    SSchemas <- MC_Schemas
    SNone = SNone
    SVals = {0, 1}
    SRecs = 2
    SFiles <- MC_Files
    SWheres <- MC_Wheres
    InLoads <- MC_InLoads
    InFormats <- MC_InFormats
    MAXATTRS = 2
    MAXNAME = 3
    MAXSTRINGLEN = 11
    MAXNODE = 14
    MAXCHAR = 20
    PrTables <- MC_PrTables
    PrLens = {0, 2, 12, 70}
    PrName = 24
INVARIANTS PagesSound IndexSound CatalogSound
PROPERTIES KeepsContents RecordsSound
CHECK_DEADLOCK FALSE
