SPECIFICATION FairSpec
CONSTANTS
    ControlPlanes = {TRUE, FALSE}
    Deletions = {"cluster", "direct"}
    Disturbances = {"crash", "stale", "read", "call", "lost", "inband", "patch"}
    MaxDisturb = 1
    MissingIsError = FALSE
PROPERTIES
    Provisioned
    DeletionCompletes
