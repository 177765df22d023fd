SPECIFICATION FairSpec
CONSTANTS
    ControlPlanes = {TRUE}
    Deletions = {"cluster"}
    Disturbances = {}
    MaxDisturb = 0
    MissingIsError = TRUE
PROPERTIES
    GetsReady
    AllGone
CHECK_DEADLOCK FALSE
