SPECIFICATION Spec
CONSTANTS
    t1 = t1
    t2 = t2
    Documents <- MCDocuments
    Registry <- MCRegistry
    Guides <- MCGuides
    Tasks <- MCTasks
    Columns <- MCColumns
    FirstDocument = "base"
    FirstState = "todo"
    TypeOf <- MCTypeOf
    Links <- MCLinks
    MaxJournals = 2
    MaxTroubles = 1
INVARIANTS
    TypeOK
    VerifiedBeforeSuccess
    WrittenIsReadBack
CHECK_DEADLOCK FALSE
