SPECIFICATION Spec
CONSTANTS
    ControlPlanes = {TRUE}
    Deletions = {"machine", "cluster", "direct"}
    Disturbances = {"crash", "stale", "read", "auth", "me", "call", "lost",
                    "inband", "patch"}
    MaxDisturb = 2
    MissingIsError = FALSE
INVARIANTS
    TypeOK
    CreateUnderFinalizer
    LeakBounded
    HookGuardsRoute
