CONSTANTS
    MaxGen  <- MCMaxGen
    NumVars <- MCNumVars
    MaxFail <- MCMaxFail
SPECIFICATION Spec
\* With no event queued the controller waits: a quiet deployment is not a deadlock.
CHECK_DEADLOCK FALSE
PROPERTIES
    Convergence
