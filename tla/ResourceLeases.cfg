SPECIFICATION FairSpec
CONSTANTS
    gpu = gpu
    api = api
    j1 = j1
    j2 = j2
    p1 = p1
    p2 = p2
    NoProc = NoProc
    NoJob = NoJob
    Resources <- MCResources
    Jobs <- MCJobs
    Procs <- MCProcs
    Capacity <- MCCapacity
    Needs <- MCNeeds
    Submitters <- MCJobs
    MaxCrashes = 1
INVARIANTS
    TypeOK
    CapacityRespected
    AllOrNothing
PROPERTIES
    GrantsAreWhole
    LeakedLeasesReclaimed
CHECK_DEADLOCK FALSE
