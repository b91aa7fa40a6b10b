SPECIFICATION MC_Spec
CONSTANTS
    NPROC = 4
    NCPU = 2
    NTID = 2
    Values = {v1, v2}
    NoValue = NoValue
    Calls = {"fork", "exit", "wait", "thread_create", "thread_join"}
    ThreadCalls = {"thread_exit"}
    Threaded = {2}
    Disciplined = TRUE
    OutOfMemory = FALSE
INVARIANTS NoMissedWakeup NoStandstill ParentAlive StacksOwned TidsExact
PROPERTY JoinOwnThread
CHECK_DEADLOCK FALSE
