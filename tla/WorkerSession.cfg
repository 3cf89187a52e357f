\* One job through two attempts with a repair, one crash, commands at any time.
SPECIFICATION Spec
CONSTANTS
    j1 = j1
    q1 = q1
    home = home
    other = other
    Jobs = {j1}
    Requests = {q1}
    Proxies = {home}
    Home = home
    Served = {home}
    ProxyKind <- MCHomeOnly
    Outcomes <- MCOutcomes
    EvidenceKept = FALSE
    ExternalProbe = TRUE
    Lifetime = 1
    MaxAttempts = 2
    MaxClock = 1
    MaxCrashes = 1
INVARIANTS TypeOK SettledAttemptCutOff CredentialOutlivesAttempt
PROPERTIES AccessEnds
CHECK_DEADLOCK FALSE
