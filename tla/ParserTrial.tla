---------------------------- MODULE ParserTrial ----------------------------
(***************************************************************************)
(* The cargo-fuzz simple-parser target (fuzz/fuzz_targets/simple-parser.rs)*)
(* trial after trial: it reads FUZZ_TARGET, parses the input string as a   *)
(* policy set, marks every parse error "failed", asserts that none of the  *)
(* errors is one documented as an internal invariant violation, and, when  *)
(* DRT_OBSERVABILITY is set, appends the record to                         *)
(* tyche-out/<FUZZ_TARGET>_testcases.jsonl.  A panic aborts the process.   *)
(* The input string is abstracted to what parse_policyset makes of it.     *)
(***************************************************************************)
EXTENDS Naturals, Sequences

CONSTANTS
    FuzzTargetSet,  \* the FUZZ_TARGET environment variable is set
    ObsEnabled,     \* the DRT_OBSERVABILITY environment variable is set
    MaxTrials       \* inputs the driver supplies before the model stops

ASSUME ParserEnvAssumption == FuzzTargetSet \in BOOLEAN /\ ObsEnabled \in BOOLEAN
ASSUME ParserMaxTrialsAssumption == MaxTrials \in Nat

\* What parse_policyset returns: a policy set, errors of which none is an
\* internal invariant violation, or errors of which one is
\* (AnnotationInvariantViolation, MembershipInvariantViolation,
\* MissingNodeData).
ParseResult == {"ok", "errors", "internal_errors"}

\* An input is a defect of the parser when it yields an internal error.
IsDefect(r) == r = "internal_errors"

NoStatus == "none"

Record == [trial : Nat, status : {"failed", NoStatus}, defect : BOOLEAN]

VARIABLES
    pc,        \* "input", "parsed" or "emit"
    result,    \* the parse result of the current input
    status,    \* obs_out.status
    log,       \* the observation file
    outcomes   \* ghost: per finished trial, how it ended and its parse result

vars == <<pc, result, status, log, outcomes>>

trial == Len(outcomes) + 1

TypeOK ==
    /\ pc \in {"input", "parsed", "emit"}
    /\ result \in ParseResult
    /\ status \in {"failed", NoStatus}
    /\ log \in Seq(Record)
    /\ outcomes \in Seq([how : {"completed", "crash"}, result : ParseResult])

Init ==
    /\ pc = "input"
    /\ result = "ok"
    /\ status = NoStatus
    /\ log = << >>
    /\ outcomes = << >>

EndTrial(how, r) ==
    /\ outcomes' = Append(outcomes, [how |-> how, result |-> r])
    /\ pc' = "input"

\* The input arrives: std::env::var("FUZZ_TARGET").unwrap() panics when
\* the variable is unset; otherwise the record starts from
\* TycheTest::default() and parse_policyset runs.
Parse ==
    /\ pc = "input"
    /\ Len(outcomes) < MaxTrials
    /\ result' \in ParseResult
    /\ status' = NoStatus
    /\ IF FuzzTargetSet
         THEN /\ pc' = "parsed"
              /\ UNCHANGED outcomes
         ELSE EndTrial("crash", result')
    /\ UNCHANGED log

\* match parse_out: Ok leaves the status alone; Err sets status "failed"
\* and reason "Parse error!", then the assert! panics when one of the
\* errors is an internal invariant violation.
CheckErrors ==
    /\ pc = "parsed"
    /\ \/ /\ result = "ok"
          /\ pc' = "emit"
          /\ UNCHANGED <<status, outcomes>>
       \/ /\ result # "ok"
          /\ status' = "failed"
          /\ IF IsDefect(result)
               THEN EndTrial("crash", result)
               ELSE /\ pc' = "emit"
                    /\ UNCHANGED outcomes
    /\ UNCHANGED <<result, log>>

ObsRecord == [trial |-> trial, status |-> status, defect |-> IsDefect(result)]

\* Mutant: the file is opened without append(true), so each record is
\* written from offset 0 over the first line.
OverwriteRecord == log' = IF ObsEnabled THEN << ObsRecord >> ELSE log

\* When DRT_OBSERVABILITY is set: open <test>_testcases.jsonl with
\* create(true).append(true) and writeln! the record.
AppendRecord == log' = IF ObsEnabled THEN Append(log, ObsRecord) ELSE log

\* When DRT_OBSERVABILITY is set the record is appended.
Emit ==
    /\ pc = "emit"
    /\ AppendRecord
    /\ EndTrial("completed", result)
    /\ UNCHANGED <<result, status>>

\* The driver has supplied its last input.
DriverDone ==
    /\ pc = "input"
    /\ Len(outcomes) = MaxTrials
    /\ UNCHANGED vars

Next == Parse \/ CheckErrors \/ Emit \/ DriverDone

Spec == Init /\ [][Next]_vars

-----------------------------------------------------------------------------
(* Properties.                                                             *)

\* The abstract trial log: a finished trial is completed when it ended
\* normally and abandoned otherwise; a line keeps its trial and status.
finishedBar ==
    [t \in 1..Len(outcomes) |->
        IF outcomes[t].how = "completed" THEN "completed" ELSE "abandoned"]

linesBar == [i \in 1..Len(log) |-> [trial |-> log[i].trial, status |-> log[i].status]]

TL == INSTANCE TrialLog WITH finished <- finishedBar, lines <- linesBar

\* The simple-parser target implements the abstract trial log: one record
\* per input that gets past the assert!, appended as the trial ends; the
\* FUZZ_TARGET unwrap and the assert! abort the process with nothing
\* written.
ImplementsTrialLog == TL!Spec


=============================================================================
