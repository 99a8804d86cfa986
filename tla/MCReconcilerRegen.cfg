CONSTANTS
    MaxGen  <- MCMaxGen
    NumVars <- MCNumVars
    MaxFail <- MCMaxFail
SPECIFICATION Spec
CHECK_DEADLOCK FALSE
PROPERTIES
    QuarksSecretsRegenerated
