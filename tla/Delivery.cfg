SPECIFICATION Spec
CONSTANTS
    ign = ign
    art = art
    cache = cache
    local = local
    src = src
    Order <- MCOrder
    Caches = {cache}
    Dropped = {}
    IgnoreFile = ign
    Ignorable = {local}
    LockFiles = {src}
    Kinds = {"contract", "planning"}
    Present = {ign, local, src}
    Indexed = {ign, src}
    UserPaths = {src}
    WorkerPaths = {art, ign, src}
    FirstPolicy <- MCOneCommand
    Policies <- MCPolicies
    Artifacts = {art}
    Required = {}
    CheckPaths = {cache, src}
    MaxWrites = 2
    MaxEdits = 1
    MaxOutages = 1
    MaxSubmissions = 1
INVARIANTS
    TypeOK
    SealedIsSnapshot
    DeliveredIsVerified
PROPERTIES
    EarlierEditsKept
CHECK_DEADLOCK FALSE
