----------------------------- MODULE AbacTrial -----------------------------
(***************************************************************************)
(* One fuzzing process running the abac-type-directed target, trial after  *)
(* trial.  A trial is: the driver hands a byte buffer to the Arbitrary     *)
(* impl of ABACTypeDirectedFuzzTargetInput (schema, hierarchy, policy, 8   *)
(* requests, entities); the harness then converts and validates the        *)
(* schema, runs the 8 requests through run_auth_test, and, when            *)
(* DRT_OBSERVABILITY is set, appends one record to the observation file.   *)
(*                                                                         *)
(* Two drivers call the same logic:                                        *)
(*   "afl"    cedar-afl fuzz_targets/abac-type-directed.rs, which unwraps  *)
(*            the generation result and then calls                         *)
(*            harnesses::test_abac_type_directed;                          *)
(*   "bolero" fuzz/tests/abac-type-directed, whose bolero check! with      *)
(*            with_arbitrary drops inputs that fail to generate and calls  *)
(*            test_fuzz_input, a copy of test_abac_type_directed.          *)
(* A panic inside a trial (an assert, an unwrap) aborts the process; the   *)
(* fuzz engine restarts it for the next input, and the file persists.      *)
(*                                                                         *)
(* Data is abstracted: a scenario is only its trial number, a diagnostic   *)
(* list only its length, a status reason only its kind.                    *)
(***************************************************************************)
EXTENDS Naturals, Sequences

CONSTANTS
    Driver,      \* "afl" or "bolero"
    ObsEnabled,  \* the DRT_OBSERVABILITY environment variable is set
    MaxErrs,     \* most diagnostics one validation or one oracle call returns
    MaxTrials    \* inputs the driver supplies before the model stops

ASSUME DriverAssumption == Driver \in {"afl", "bolero"}
ASSUME ObsEnabledAssumption == ObsEnabled \in BOOLEAN
ASSUME MaxErrsAssumption == MaxErrs \in Nat \ {0}
ASSUME MaxTrialsAssumption == MaxTrials \in Nat

\* requests: [ABACRequest; 8]
NumRequests == 8

\* TycheTest::default() leaves the status and the reason empty; the empty
\* string is written "none" here.
NoStatus == "none"
TerminalStatus == {"passed", "failed", "gave_up"}
Status == TerminalStatus \cup {NoStatus}

\* Kinds of status_reason: empty ("none"), "validator_passed", the joined kinds of
\* the validation errors, "arbitrary generation failed".
Reason == {"none", "validator_passed", "validation_errors", "generation_failed"}

\* How a trial ended (ghost): recorded or not, a crash on a generation
\* failure, a generation failure dropped by the driver, a crash on a fault
\* reported by an oracle.
Outcome == {"completed", "gen_crash", "gen_skip", "fault"}

\* One line of <test>_testcases.jsonl.  "trial" stands for the
\* representation of the scenario; "ran" and "fault" are ghost fields: the
\* oracle calls made and whether one reported a fault before the record.
Record == [trial : Nat, status : Status, reason : Reason,
           validationErrors : Nat, totalAuthErrors : Nat,
           ran : 0..NumRequests, fault : BOOLEAN]

VARIABLES
    pc,        \* "generate", "check" or "auth"
    schemaOk,  \* ValidatorSchema::try_from succeeded for this trial
    status,    \* obs_out.status
    reason,    \* obs_out.status_reason
    valErrs,   \* obs_out.features["validation_errors"]
    authErrs,  \* total_auth_errors
    reqIdx,    \* requests of the batch already run
    sawFault,  \* ghost: an oracle call of this trial reported a fault
    log,       \* the observation file, one record per line
    outcomes   \* ghost: how each finished trial ended

vars == <<pc, schemaOk, status, reason, valErrs, authErrs, reqIdx,
          sawFault, log, outcomes>>

\* The trial now running.
trial == Len(outcomes) + 1

TypeOK ==
    /\ pc \in {"generate", "check", "auth"}
    /\ schemaOk \in BOOLEAN
    /\ status \in Status
    /\ reason \in Reason
    /\ valErrs \in 0..MaxErrs
    /\ authErrs \in Nat
    /\ reqIdx \in 0..NumRequests
    /\ sawFault \in BOOLEAN
    /\ log \in Seq(Record)
    /\ outcomes \in Seq(Outcome)

Init ==
    /\ pc = "generate"
    /\ schemaOk = FALSE
    /\ status = NoStatus
    /\ reason = "none"
    /\ valErrs = 0
    /\ authErrs = 0
    /\ reqIdx = 0
    /\ sawFault = FALSE
    /\ log = << >>
    /\ outcomes = << >>

\* The trial ends and the process is ready for the next input.
EndTrial(how) ==
    /\ outcomes' = Append(outcomes, how)
    /\ pc' = "generate"

-----------------------------------------------------------------------------
(* Generation.                                                             *)

\* ABACTypeDirectedFuzzTargetInput::arbitrary: every draw (schema,
\* hierarchy, policy, each request, Entities::try_from, drop_some_entities)
\* returns early with an error when the bytes run out.  Success hands the
\* input to the harness; valid is then always true, since the closure that
\* clears it returns an error.
GenerateOk ==
    /\ pc = "generate"
    /\ Len(outcomes) < MaxTrials
    /\ pc' = "check"
    /\ UNCHANGED <<schemaOk, status, reason, valErrs, authErrs, reqIdx,
                   sawFault, log, outcomes>>

\* AFL main: the Err is mapped to () and input.unwrap() panics, so
\* test_abac_type_directed is never reached.
UnwrapInput ==
    EndTrial("gen_crash")

\* bolero's with_arbitrary: an input that fails to generate is dropped.
DiscardInput ==
    EndTrial("gen_skip")

GenerateFail ==
    /\ pc = "generate"
    /\ Len(outcomes) < MaxTrials
    /\ IF Driver = "afl" THEN UnwrapInput ELSE DiscardInput
    /\ UNCHANGED <<schemaOk, status, reason, valErrs, authErrs, reqIdx,
                   sawFault, log>>

-----------------------------------------------------------------------------
(* The harness.                                                            *)

\* Mutant: the status := "gave_up" before the schema conversion is
\* missing, so a rejected schema keeps the default status.
InitialStatusDefault == NoStatus

\* obs_out.status = "gave_up", set before the schema is converted.
InitialStatus == "gave_up"

\* obs_out = input.to_tyche(); status := InitialStatus; then, if the schema
\* converts, validate the policy set: on success the status becomes
\* "passed", otherwise it is "gave_up" with the error kinds as reason.
\* total_auth_errors starts at 0.
CheckSchema ==
    /\ pc = "check"
    /\ \/ /\ schemaOk' = FALSE
          /\ status' = InitialStatus
          /\ reason' = "none"
          /\ valErrs' = 0
       \/ /\ schemaOk' = TRUE
          /\ status' = "passed"
          /\ reason' = "validator_passed"
          /\ valErrs' = 0
       \/ /\ schemaOk' = TRUE
          /\ status' = "gave_up"
          /\ reason' = "validation_errors"
          /\ valErrs' \in 1..MaxErrs
    /\ authErrs' = 0
    /\ reqIdx' = 0
    /\ sawFault' = FALSE
    /\ pc' = "auth"
    /\ UNCHANGED <<log, outcomes>>

\* Mutant: the loop bound is off by one and runs a ninth request.
MoreRequestsPastEnd == reqIdx <= NumRequests

\* for request in requests: another request of the batch is left.
MoreRequests == reqIdx < NumRequests

\* Mutant: the arity assertion is dropped; the error is only counted.
PassesNoArityAssert(arity, agree) == agree

\* The request passes both assertions: run_auth_test's comparison of the
\* engines and the harness's assert_eq! that no error is "wrong number of
\* arguments".
Passes(arity, agree) == agree /\ ~arity

\* One iteration of the request loop: run_auth_test runs both engines,
\* the harness adds the errors to total_auth_errors, and either assertion
\* failing panics and the process aborts.  The loop runs whether or not
\* the schema converted.
AuthRequest ==
    /\ pc = "auth"
    /\ MoreRequests
    /\ \E errs \in 0..MaxErrs, arity \in BOOLEAN, agree \in BOOLEAN :
          /\ arity => errs > 0
          /\ IF Passes(arity, agree)
               THEN /\ authErrs' = authErrs + errs
                    /\ reqIdx' = reqIdx + 1
                    /\ sawFault' = (sawFault \/ arity)
                    /\ UNCHANGED <<pc, outcomes>>
               ELSE /\ EndTrial("fault")
                    /\ UNCHANGED <<authErrs, reqIdx, sawFault>>
    /\ UNCHANGED <<schemaOk, status, reason, valErrs, log>>

\* The record the harness serialises after the loop.
ObsRecord ==
    [trial |-> trial, status |-> status, reason |-> reason,
     validationErrors |-> valErrs, totalAuthErrors |-> authErrs,
     ran |-> reqIdx, fault |-> sawFault]

\* Mutant: the file is opened without append(true), so each record is
\* written from offset 0 over the first line.
OverwriteRecord == log' = IF ObsEnabled THEN << ObsRecord >> ELSE log

\* When DRT_OBSERVABILITY is set: open <test>_testcases.jsonl with
\* create(true).append(true) and writeln! the record.
AppendRecord == log' = IF ObsEnabled THEN Append(log, ObsRecord) ELSE log

\* After the loop: features and timing are filled in and the record is
\* appended.
Emit ==
    /\ pc = "auth"
    /\ reqIdx = NumRequests
    /\ AppendRecord
    /\ EndTrial("completed")
    /\ UNCHANGED <<schemaOk, status, reason, valErrs, authErrs, reqIdx,
                   sawFault>>

\* The driver has supplied its last input.
DriverDone ==
    /\ pc = "generate"
    /\ Len(outcomes) = MaxTrials
    /\ UNCHANGED vars

Next ==
    \/ GenerateOk
    \/ GenerateFail
    \/ CheckSchema
    \/ AuthRequest
    \/ Emit
    \/ DriverDone

Spec == Init /\ [][Next]_vars

-----------------------------------------------------------------------------
(* Properties.                                                             *)

\* The abstract trial log: a finished trial is completed when it ended
\* normally and abandoned otherwise; a line keeps its trial and status.
finishedBar ==
    [t \in 1..Len(outcomes) |->
        IF outcomes[t] = "completed" THEN "completed" ELSE "abandoned"]

linesBar == [i \in 1..Len(log) |-> [trial |-> log[i].trial, status |-> log[i].status]]

TL == INSTANCE TrialLog WITH finished <- finishedBar, lines <- linesBar

\* The abac harness implements the abstract trial log: the record of
\* test_abac_type_directed is appended, once, in the step that ends a trial
\* that ran to the end, for that trial; a trial that panics (an assertion
\* of the request loop, the AFL unwrap) or is dropped writes nothing.
ImplementsTrialLog == TL!Spec

\* A line of the observation file is only ever written for a trial whose
\* whole batch of 8 requests went through run_auth_test and none of them
\* reported a fault (an oracle disagreement or an arity error): the
\* assertions in the request loop of test_abac_type_directed stop a
\* faulty trial before its record is written.
RecordAfterCleanRun ==
    \A i \in 1..Len(log) :
        /\ log[i].ran = NumRequests
        /\ ~log[i].fault

\* Every line of the observation file carries one of the statuses the
\* spec allows (passed, failed, gave_up), on every path through the schema
\* conversion and validation of test_abac_type_directed.
RecordStatusDecided ==
    \A i \in 1..Len(log) : log[i].status \in TerminalStatus

\* Spec 7: a generation failure ends the trial as gave_up; it is never
\* propagated as a crash of the fuzz target.
GenFailureGivesUp ==
    \A t \in 1..Len(outcomes) : outcomes[t] # "gen_crash"

\* Spec 4.2: when the schema does not convert into a ValidatorSchema the
\* trial is given up without attempting authorization.
NoOracleWithoutSchema ==
    (pc = "auth" /\ reqIdx > 0) => schemaOk

\* Spec 7: with observability on, a trial whose oracle reported an invariant
\* violation or a disagreement appears in the observation file with
\* status failed.
FaultRecorded ==
    ObsEnabled =>
        \A t \in 1..Len(outcomes) :
            outcomes[t] = "fault" =>
                \E i \in 1..Len(log) : log[i].trial = t /\ log[i].status = "failed"

=============================================================================
