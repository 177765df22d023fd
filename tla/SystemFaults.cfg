SPECIFICATION Spec
CONSTANTS
    ControlPlanes = {TRUE}
    Deletions = {"cluster", "machine"}
    Disturbances = {"crash", "call", "lost", "inband", "patch"}
    MaxDisturb = 1
    MissingIsError = FALSE
INVARIANT
    TypeOK
PROPERTIES
    ClusterOutlivesMachine
    BuiltOnCluster
    RoutedToEndpoint
CHECK_DEADLOCK FALSE
