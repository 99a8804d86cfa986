CONSTANTS
    bpm = bpm
    other = other
    NilLabels = NilLabels
    NoKey = NoKey
    Secrets  <- MCSecrets
    BPMNames <- MCBPMNames
    MaxRev   <- MCMaxRev
    MaxFail  <- MCMaxFail
    Labels   <- MCLabels
SPECIFICATION Spec
\* Once the Secrets stop changing the controller idles: not a deadlock.
CHECK_DEADLOCK FALSE
PROPERTIES
    BPMSecretsReconciled
