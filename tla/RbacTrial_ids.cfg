CONSTANTS
    ObsEnabled = TRUE
    MaxTrials = 2

SPECIFICATION Spec

INVARIANTS
    PolicyIdsUnique

PROPERTY
    ImplementsTrialLog
