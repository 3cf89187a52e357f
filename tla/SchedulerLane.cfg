SPECIFICATION Spec
CONSTANTS
    p1 = p1
    p2 = p2
    t1 = t1
    t2 = t2
    d1 = d1
    d2 = d2
    c1 = c1
    c2 = c2
    Projects = {p1}
    Tasks = {t1, t2}
    States <- MCStates
    Outcome <- MCOutcome
    FirstState = "todo"
    Board <- MCBoard
    Home <- MCOneProject
    Repository <- MCOneRepository
    Depends <- MCDependent
    Transitions <- MCDirect
    Daemons = {}
    Commands = {c1, c2}
    Serves <- MCServesOne
    Jobs = {1, 2}
    MaxTotal = 2
    MaxFailed = 1
    LeaseBusy = TRUE
    MoveTargets = {"done", "todo"}
    MaxEdits = 2
    MaxCrashes = 0
    MaxRevision = 1
INVARIANTS
    DependentsAfterDelivery
    AttemptsBounded
SYMMETRY MCCommandSymmetry
CHECK_DEADLOCK FALSE
