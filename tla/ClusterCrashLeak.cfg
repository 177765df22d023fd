SPECIFICATION Spec
CONSTANTS
    Disturbances = {"crash"}
    MaxDisturb = 1
    MissingIsError = FALSE
INVARIANT CleanedUp
