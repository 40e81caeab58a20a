----------------------------- MODULE MC_ObsLog -----------------------------
(* Small instances of ObsLog for TLC.                                      *)
EXTENDS ObsLog, TLC

CONSTANTS p1, p2

\* Two processes: the least that can share a file.
MCProc == {p1, p2}

\* FUZZ_TARGET unset for both: both fall back to "fuzz-target".
MCSharedName == [p \in MCProc |-> "fuzz-target"]

\* One process, or processes with names of their own.
MCOwnName == [p \in MCProc |-> IF p = p1 THEN "abac-type-directed" ELSE "rbac"]

\* A body and a newline: the least that lets writes interleave.
MCFragments == 2

\* Two records each: a record written after another, or after a kill.
MCMaxRecords == 2

MCSymmetry == Permutations(MCProc)

=============================================================================
