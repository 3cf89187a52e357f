SPECIFICATION Spec
CONSTANTS
    j1 = j1
    j2 = j2
    j3 = j3
    s1 = s1
    s2 = s2
    d1 = d1
    d2 = d2
    e1 = e1
    t1 = t1
    r1 = r1
    NoThread = NoThread
    NoJob = NoJob
    NoTarget = NoTarget
    NoSubmission = NoSubmission
    NoExecutor = NoExecutor
    Jobs = {j1, j2, j3}
    Submissions = {s1, s2}
    MaxNumber = 3
    Threads = {t1}
    Recoverers = {r1}
    MaxRepairs = 2
    VerifierRaises = FALSE
    EffectsFail = FALSE
    ConcurrentLoads = TRUE
    MaxCrashes = 0
    Executors = {d1, e1}
    Daemons = {d1}
    MaxTotal = 3
    LeaseBusy = TRUE
    RunFails = FALSE
    OperatorSets = {}
    WorkerMayQuit = FALSE
SYMMETRY Symmetry
INVARIANTS
    AtMostOneActive
    CommittedOnce
    OneVerdict
PROPERTIES
    AcceptedStands
    TerminalStands
    AnswersStand
CHECK_DEADLOCK FALSE
