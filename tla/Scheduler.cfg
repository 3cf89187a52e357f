SPECIFICATION FairSpec
CONSTANTS
    p1 = p1
    p2 = p2
    t1 = t1
    t2 = t2
    d1 = d1
    d2 = d2
    c1 = c1
    c2 = c2
    Projects = {p1}
    Tasks = {t1, t2}
    States <- MCStates
    Outcome <- MCOutcome
    FirstState = "todo"
    Board <- MCBoard
    Home <- MCOneProject
    Repository <- MCOneRepository
    Depends <- MCIndependent
    Transitions <- MCReviewed
    Daemons = {d1}
    Commands = {}
    Serves <- MCServesOne
    Jobs = {1, 2, 3}
    MaxTotal = 2
    MaxFailed = 0
    LeaseBusy = FALSE
    MoveTargets = {}
    MaxEdits = 0
    MaxCrashes = 1
    MaxRevision = 0
INVARIANTS
    TypeOK
    OneTaskInProgress
    LaneExclusive
PROPERTIES
    DueIsWorkedOn
CHECK_DEADLOCK FALSE
