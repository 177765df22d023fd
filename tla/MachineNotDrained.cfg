SPECIFICATION Spec
CONSTANTS
    ControlPlanes = {TRUE}
    Deletions = {"direct"}
    Disturbances = {}
    MaxDisturb = 0
    MissingIsError = FALSE
PROPERTY DestroyAfterDrain
