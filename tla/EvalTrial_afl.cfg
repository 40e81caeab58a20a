CONSTANTS
    ObsEnabled = TRUE
    MaxTrials = 4

SPECIFICATION FairSpec

INVARIANT GenFailureRecorded

PROPERTIES
    GenFailureEventuallyRecorded
    ImplementsTrialLog
