----------------------------- MODULE TrialLog ------------------------------
(***************************************************************************)
(* What every harness of cedar-drt promises about its observation file,   *)
(* whatever the target: the trials of a process end one after another;    *)
(* a trial that reaches the end of its harness appends exactly one line,  *)
(* carrying its own scenario and status, when DRT_OBSERVABILITY is set,    *)
(* and appends it in the step in which it ends; a trial that is abandoned *)
(* (an input the driver drops, a panic that aborts the process) leaves    *)
(* the file as it was.                                                     *)
(*                                                                         *)
(* AbacTrial, EvalTrial, RbacTrial and ParserTrial each implement this    *)
(* specification under a refinement mapping that forgets how a trial runs *)
(* and keeps only how it ended and the trial and status of each line.     *)
(***************************************************************************)
EXTENDS Naturals, Sequences

CONSTANTS
    ObsEnabled,  \* the DRT_OBSERVABILITY environment variable is set
    MaxTrials    \* inputs the driver supplies

\* The status of a line: TycheTest's default (written "none") or a verdict.
Status == {"passed", "failed", "gave_up", "none"}

Line == [trial : Nat, status : Status]

VARIABLES
    finished,  \* how each finished trial ended: "completed" or "abandoned"
    lines      \* the observation file, one Line per record

vars == <<finished, lines>>

Init ==
    /\ finished = << >>
    /\ lines = << >>

\* The trial now running reaches the end of its harness with status st.
Complete(st) ==
    /\ Len(finished) < MaxTrials
    /\ finished' = Append(finished, "completed")
    /\ lines' = IF ObsEnabled
                  THEN Append(lines, [trial |-> Len(finished) + 1, status |-> st])
                  ELSE lines

\* The trial now running is dropped or aborts: nothing is written.
Abandon ==
    /\ Len(finished) < MaxTrials
    /\ finished' = Append(finished, "abandoned")
    /\ UNCHANGED lines

Next == (\E st \in Status : Complete(st)) \/ Abandon

Spec == Init /\ [][Next]_vars

\* What the file of such a process tells its reader: the lines are in the
\* order of the trials, and with observability on the completed trials are
\* exactly the trials with a line.
LinesMatchTrials ==
    /\ \A i \in 1..Len(lines) :
          /\ lines[i].trial \in 1..Len(finished)
          /\ finished[lines[i].trial] = "completed"
          /\ i > 1 => lines[i - 1].trial < lines[i].trial
    /\ ObsEnabled =>
          \A t \in 1..Len(finished) :
             finished[t] = "completed" => \E i \in 1..Len(lines) : lines[i].trial = t

=============================================================================
