--------------------------- MODULE MC_AbacTrial ---------------------------
(* Small instances of AbacTrial for TLC.                                   *)
EXTENDS AbacTrial

\* One diagnostic at most per call: enough to tell zero errors from some.
MCMaxErrs == 1

\* Three inputs: enough for a clean trial to follow a crashed one and for
\* the file to hold records of two different trials.
MCMaxTrials == 3

=============================================================================
