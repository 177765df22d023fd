SPECIFICATION Spec
CONSTANTS
    Disturbances = {"me"}
    MaxDisturb = 1
    MissingIsError = FALSE
INVARIANT ClientUsable
