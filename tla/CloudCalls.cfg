SPECIFICATION FairSpec
CONSTANTS
    MaxBad = 1
    MaxEdits = 1
    Quota = 2
    Webhooks = TRUE
INVARIANTS
    TypeOK
    InNamedProject
    BuiltToTemplate
    UserDataOnce
    MissingIdsOnlyBehind
    LeakBounded
PROPERTIES
    Provisioned
    DeletionCompletes
CHECK_DEADLOCK FALSE
