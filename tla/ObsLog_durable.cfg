CONSTANTS
    p1 = p1
    p2 = p2
    Proc <- MCProc
    TestName <- MCSharedName
    Fragments <- MCFragments
    MaxRecords <- MCMaxRecords
    MaxKills = 1

SYMMETRY MCSymmetry

SPECIFICATION Spec

INVARIANT DurableAppend
