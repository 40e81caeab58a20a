CONSTANTS
    Driver = "afl"
    ObsEnabled = TRUE
    MaxErrs <- MCMaxErrs
    MaxTrials <- MCMaxTrials

SPECIFICATION Spec

INVARIANT GenFailureGivesUp
