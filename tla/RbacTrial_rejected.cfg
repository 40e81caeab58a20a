CONSTANTS
    ObsEnabled = TRUE
    MaxTrials = 2

SPECIFICATION Spec

INVARIANT RbacRejectGivesUp
