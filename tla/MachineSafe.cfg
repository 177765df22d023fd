SPECIFICATION Spec
CONSTANTS
    ControlPlanes = {TRUE, FALSE}
    Deletions = {"machine", "cluster", "direct"}
    Disturbances = {"call", "auth", "me", "read"}
    MaxDisturb = 2
    MissingIsError = TRUE
INVARIANTS
    NothingLeftBehind
    ReadyIsServing
PROPERTIES
    ImplementsLifecycle
    RouteWithdrawnFirst
    ProviderIDStable
