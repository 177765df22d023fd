SPECIFICATION FairSpec
CONSTANTS
    Disturbances = {"crash", "stale", "read", "auth", "me", "call", "lost",
                    "inband", "patch"}
    MaxDisturb = 3
    MissingIsError = FALSE
INVARIANTS
    TypeOK
    CreateUnderFinalizer
    LeakBounded
PROPERTIES
    EndpointStable
    Provisioned
    DeletionCompletes
