SPECIFICATION LiveSpec
CONSTANTS
    p1 = p1
    p2 = p2
    Procs = {p1, p2}
    Names = {"a", "b", "d"}
    Workloads <- MC_Loads
    Solo <- MC_Solo
    NInum = 4
    NINODE = 3
    NFILE = 1
    NOFILE = 2
INVARIANTS RefsExact LinksSound
PROPERTY CallReturns
CHECK_DEADLOCK FALSE
