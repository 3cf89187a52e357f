SPECIFICATION FairSpec
CONSTANTS
    j1 = j1
    j2 = j2
    j3 = j3
    s1 = s1
    s2 = s2
    d1 = d1
    d2 = d2
    e1 = e1
    t1 = t1
    r1 = r1
    NoThread = NoThread
    NoJob = NoJob
    NoTarget = NoTarget
    NoSubmission = NoSubmission
    NoExecutor = NoExecutor
    Jobs = {j1, j2}
    Submissions = {s1, s2}
    MaxNumber = 2
    Threads = {t1}
    Recoverers = {r1}
    MaxRepairs = 1
    VerifierRaises = TRUE
    EffectsFail = TRUE
    ConcurrentLoads = FALSE
    MaxCrashes = 1
    Executors = {d1}
    Daemons = {d1}
    MaxTotal = 2
    LeaseBusy = TRUE
    RunFails = TRUE
    OperatorSets = {}
    WorkerMayQuit = FALSE
INVARIANTS
    TypeOK
    LaunchBudget
    LaunchesCounted
    AcceptedIsDelivered
PROPERTIES
    AcceptanceCompletes
CHECK_DEADLOCK FALSE
