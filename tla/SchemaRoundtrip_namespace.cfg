CONSTANT MaxTrials = 3

SPECIFICATION Spec

INVARIANT CrashOnlyOnMismatch
