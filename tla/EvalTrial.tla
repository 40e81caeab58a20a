----------------------------- MODULE EvalTrial -----------------------------
(***************************************************************************)
(* One AFL process running the eval-type-directed target, trial after      *)
(* trial.  The driver (cedar-afl fuzz_targets/eval-type-directed.rs) hands *)
(* the Result of EvalTypeDirectedFuzzTargetInput::arbitrary, error or not, *)
(* to harnesses::test_eval_type_directed.  On Ok the harness takes the     *)
(* record from to_tyche() and calls run_eval_test, which runs both engines *)
(* on the expression and panics when they disagree; on Err it sets the     *)
(* status to gave_up.  Then, when DRT_OBSERVABILITY is set, it appends the *)
(* record.  A panic aborts the process; the engine restarts it.            *)
(***************************************************************************)
EXTENDS Naturals, Sequences

CONSTANTS
    ObsEnabled,  \* the DRT_OBSERVABILITY environment variable is set
    MaxTrials    \* inputs the driver supplies before the model stops

ASSUME EvalObsAssumption == ObsEnabled \in BOOLEAN
ASSUME EvalMaxTrialsAssumption == MaxTrials \in Nat

\* TycheTest::default() leaves status and status_reason empty ("none").
NoStatus == "none"
TerminalStatus == {"passed", "failed", "gave_up"}
Status == TerminalStatus \cup {NoStatus}
Reason == {"none", "generation_failed"}

\* The entities of a generated hierarchy, abstracted to two.
Entity == {"e1", "e2"}

\* How a trial ended (ghost).
Outcome == {"completed", "fault"}

\* One line of the observation file; "evaluated" is a ghost field: whether
\* run_eval_test was called in the trial.
Record == [trial : Nat, status : Status, reason : Reason,
           genOk : BOOLEAN, evaluated : BOOLEAN]

VARIABLES
    pc,         \* "generate", "harness" or "emit"
    genOk,      \* the Result handed to the harness is Ok
    status,     \* obs_out.status
    reason,     \* obs_out.status_reason
    evaluated,  \* ghost: run_eval_test returned in this trial
    referenced, \* entities of the hierarchy the request names
    kept,       \* entities drop_some_entities leaves in input.entities
    log,        \* the observation file
    outcomes    \* ghost: how each finished trial ended

vars == <<pc, genOk, status, reason, evaluated, referenced, kept, log, outcomes>>

trial == Len(outcomes) + 1

TypeOK ==
    /\ pc \in {"generate", "harness", "emit"}
    /\ genOk \in BOOLEAN
    /\ status \in Status
    /\ reason \in Reason
    /\ evaluated \in BOOLEAN
    /\ referenced \subseteq Entity
    /\ kept \subseteq Entity
    /\ log \in Seq(Record)
    /\ outcomes \in Seq(Outcome)

Init ==
    /\ pc = "generate"
    /\ genOk = FALSE
    /\ status = NoStatus
    /\ reason = "none"
    /\ evaluated = FALSE
    /\ referenced = {}
    /\ kept = {}
    /\ log = << >>
    /\ outcomes = << >>

EndTrial(how) ==
    /\ outcomes' = Append(outcomes, how)
    /\ pc' = "generate"

\* EvalTypeDirectedFuzzTargetInput::arbitrary: schema, hierarchy, target
\* type, expression; arbitrary_request draws the request's principal and
\* resource from the hierarchy; Entities::try_from(hierarchy); then
\* drop_some_entities(all_entities, u) keeps a subset of the entities chosen
\* from the bytes alone, the request not being among its arguments.  Any
\* draw may return early with an error.  The main passes the Result on.
Arbitrary ==
    /\ pc = "generate"
    /\ Len(outcomes) < MaxTrials
    /\ genOk' \in BOOLEAN
    /\ referenced' \in SUBSET Entity \ {{}}
    /\ kept' \in SUBSET Entity
    /\ pc' = "harness"
    /\ status' = NoStatus
    /\ reason' = "none"
    /\ evaluated' = FALSE
    /\ UNCHANGED <<log, outcomes>>

\* Mutant: the else branch forgets to set the status.
GenerationFailedNoStatus ==
    /\ pc = "harness"
    /\ ~genOk
    /\ reason' = "generation_failed"
    /\ pc' = "emit"
    /\ UNCHANGED <<genOk, status, evaluated, referenced, kept, log, outcomes>>

\* Mutant: the driver unwraps the failed generation, as the AFL abac
\* driver does, and the process panics.
GenerationFailedUnwrap ==
    /\ pc = "harness"
    /\ ~genOk
    /\ EndTrial("fault")
    /\ UNCHANGED <<genOk, status, reason, evaluated, referenced, kept, log>>

\* Err(_): status gave_up, reason "arbitrary generation failed".
GenerationFailed ==
    /\ pc = "harness"
    /\ ~genOk
    /\ status' = "gave_up"
    /\ reason' = "generation_failed"
    /\ pc' = "emit"
    /\ UNCHANGED <<genOk, evaluated, referenced, kept, log, outcomes>>

\* Ok(input): obs_out = input.to_tyche(), which sets no status; then
\* run_eval_test, which returns when the engines agree and panics
\* otherwise.
RunEval ==
    /\ pc = "harness"
    /\ genOk
    /\ \E agree \in BOOLEAN :
          \/ /\ agree
             /\ evaluated' = TRUE
             /\ pc' = "emit"
             /\ UNCHANGED outcomes
          \/ /\ ~agree
             /\ EndTrial("fault")
             /\ UNCHANGED evaluated
    /\ UNCHANGED <<genOk, status, reason, referenced, kept, log>>

ObsRecord ==
    [trial |-> trial, status |-> status, reason |-> reason,
     genOk |-> genOk, evaluated |-> evaluated]

\* Mutant: the file is opened without append(true), so each record is
\* written from offset 0 over the first line.
OverwriteRecord == log' = IF ObsEnabled THEN << ObsRecord >> ELSE log

\* When DRT_OBSERVABILITY is set: open <test>_testcases.jsonl with
\* create(true).append(true) and writeln! the record.
AppendRecord == log' = IF ObsEnabled THEN Append(log, ObsRecord) ELSE log

\* After either branch the record is appended.
Emit ==
    /\ pc = "emit"
    /\ AppendRecord
    /\ EndTrial("completed")
    /\ UNCHANGED <<genOk, status, reason, evaluated, referenced, kept>>

\* The driver has supplied its last input.
DriverDone ==
    /\ pc = "generate"
    /\ Len(outcomes) = MaxTrials
    /\ UNCHANGED vars

Next ==
    \/ Arbitrary
    \/ GenerationFailed
    \/ RunEval
    \/ Emit
    \/ DriverDone

Spec == Init /\ [][Next]_vars

\* Once the driver has handed an input to test_eval_type_directed, the
\* process keeps running until the harness returns or panics: nothing in
\* the harness waits on another process.  The driver itself may stop
\* supplying inputs, so Arbitrary gets no fairness.
Harness == GenerationFailed \/ RunEval \/ Emit

FairSpec == Spec /\ WF_vars(Harness)

-----------------------------------------------------------------------------
(* Properties.                                                             *)

\* Spec 3.1 and 7: a trial whose generation failed is recorded (with
\* observability on) as gave_up, reason generation failed, and no oracle
\* was run for it; test_eval_type_directed's else branch is the only place
\* that records it.
GenFailureRecorded ==
    \A i \in 1..Len(log) :
        ~log[i].genOk =>
            /\ log[i].status = "gave_up"
            /\ log[i].reason = "generation_failed"
            /\ ~log[i].evaluated

\* Spec 3.1 and 7, as a promise that something happens: with observability
\* on, a trial whose generation failed is eventually in the observation
\* file as gave_up.  It fails if the driver or the harness turns the failed
\* generation into a panic, as the AFL abac driver does.
GenFailureEventuallyRecorded ==
    \A t \in 1..MaxTrials :
        (ObsEnabled /\ pc = "harness" /\ ~genOk /\ trial = t)
            ~> \E i \in 1..Len(log) : log[i].trial = t /\ log[i].status = "gave_up"

\* The abstract trial log: a finished trial is completed when it ended
\* normally and abandoned otherwise; a line keeps its trial and status.
finishedBar ==
    [t \in 1..Len(outcomes) |->
        IF outcomes[t] = "completed" THEN "completed" ELSE "abandoned"]

linesBar == [i \in 1..Len(log) |-> [trial |-> log[i].trial, status |-> log[i].status]]

TL == INSTANCE TrialLog WITH finished <- finishedBar, lines <- linesBar

\* The eval harness implements the abstract trial log: one record per
\* trial that returns from test_eval_type_directed, both branches
\* included, appended as the trial ends; a panic of run_eval_test writes
\* nothing.
ImplementsTrialLog == TL!Spec

\* Spec 3 (Scenario Model): the pre-processing step may drop generated
\* entities but never one the request references.  Every input handed to
\* test_eval_type_directed keeps the entities its request names, although
\* drop_some_entities runs after the request is drawn and is not given it.
RequestEntitiesKept ==
    (pc \in {"harness", "emit"} /\ genOk) => referenced \subseteq kept

=============================================================================
