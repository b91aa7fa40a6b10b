SPECIFICATION Spec
CONSTANTS
    NPROC = 5
    NCPU = 2
    NTID = 1
    Values = {v1}
    NoValue = NoValue
    Calls = {"fork", "exit", "wait", "thread_create", "thread_join"}
    ThreadCalls = {"thread_exit"}
    Threaded = {2, 3}
    Disciplined = TRUE
    OutOfMemory = FALSE
PROPERTIES JoinOwnThread
CHECK_DEADLOCK FALSE
