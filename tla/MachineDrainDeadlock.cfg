SPECIFICATION FairSpec
CONSTANTS
    ControlPlanes = {TRUE}
    Deletions = {"machine"}
    Disturbances = {}
    MaxDisturb = 0
    MissingIsError = FALSE
PROPERTY HookUnpauses
