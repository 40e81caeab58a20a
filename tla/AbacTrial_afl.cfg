CONSTANTS
    Driver = "afl"
    ObsEnabled = TRUE
    MaxErrs <- MCMaxErrs
    MaxTrials <- MCMaxTrials

SPECIFICATION Spec

INVARIANTS
    TypeOK
    RecordAfterCleanRun
    RecordStatusDecided

PROPERTY
    ImplementsTrialLog
