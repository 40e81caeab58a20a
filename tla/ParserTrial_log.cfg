CONSTANTS
    FuzzTargetSet = TRUE
    ObsEnabled = TRUE
    MaxTrials = 4

SPECIFICATION Spec

PROPERTY
    ImplementsTrialLog
