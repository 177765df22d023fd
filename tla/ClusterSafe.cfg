SPECIFICATION Spec
CONSTANTS
    Disturbances = {"call", "auth", "me", "read"}
    MaxDisturb = 3
    MissingIsError = TRUE
INVARIANTS
    NoOrphans
    CleanedUp
    ReadyHasEndpoint
PROPERTY
    ImplementsLifecycle
