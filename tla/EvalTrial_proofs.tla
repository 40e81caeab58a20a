-------------------------- MODULE EvalTrial_proofs --------------------------
(***************************************************************************)
(* Proofs about EvalTrial for every value of its constants: the type      *)
(* invariant, the record of a failed generation, and that the eval        *)
(* harness implements the abstract trial log.                              *)
(***************************************************************************)
EXTENDS EvalTrial, TLAPS

-----------------------------------------------------------------------------
(* Type correctness.                                                       *)

LEMMA TypeInit == Init => TypeOK
<1> SUFFICES ASSUME Init PROVE TypeOK
    OBVIOUS
<1>1. genOk \in BOOLEAN /\ evaluated \in BOOLEAN
    BY Zenon DEF Init
<1>2. QED
    BY <1>1 DEF Init, TypeOK, Status, NoStatus, TerminalStatus, Reason

LEMMA TypeStep == TypeOK /\ [Next]_vars => TypeOK'
<1> SUFFICES ASSUME TypeOK, [Next]_vars PROVE TypeOK'
    OBVIOUS
<1>1. CASE Arbitrary
    <2>1. genOk' \in BOOLEAN /\ evaluated' \in BOOLEAN
        BY <1>1, Zenon DEF Arbitrary
    <2>2. QED
        BY <1>1, <2>1 DEF Arbitrary, TypeOK, Status, NoStatus, Reason
<1>2. CASE GenerationFailed
    BY <1>2 DEF GenerationFailed, TypeOK, Status, TerminalStatus, Reason
<1>3. CASE RunEval
    <2>1. evaluated' \in BOOLEAN
        BY <1>3, Zenon DEF RunEval, TypeOK
    <2>2. QED
        BY <1>3, <2>1 DEF RunEval, EndTrial, TypeOK, Outcome
<1>4. CASE Emit
    <2>1. ObsRecord \in Record
        BY DEF TypeOK, ObsRecord, Record, trial
    <2>2. QED
        BY <1>4, <2>1, EvalObsAssumption
           DEF Emit, AppendRecord, EndTrial, TypeOK, Outcome
<1>5. CASE DriverDone \/ UNCHANGED vars
    BY <1>5 DEF DriverDone, vars, TypeOK
<1>6. QED
    BY <1>1, <1>2, <1>3, <1>4, <1>5 DEF Next

\* The type invariant TypeOK holds in every reachable state.
THEOREM EvalTypeCorrect == Spec => []TypeOK
BY TypeInit, TypeStep, PTL DEF Spec

-----------------------------------------------------------------------------
(* The record of a failed generation.                                     *)

\* GenFailureRecorded is not inductive: Emit copies the running trial into
\* the record, so the invariant also says what the running trial holds
\* once the harness has run: a failed generation has its gave_up status
\* and was not evaluated, and nothing is evaluated before the harness.
GInv ==
    /\ TypeOK
    /\ pc = "harness" => ~evaluated
    /\ (pc = "emit" /\ ~genOk) =>
          /\ status = "gave_up"
          /\ reason = "generation_failed"
          /\ ~evaluated
    /\ GenFailureRecorded

LEMMA GInvInit == Init => GInv
BY TypeInit DEF Init, GInv, GenFailureRecorded

LEMMA GInvStep == GInv /\ [Next]_vars => GInv'
<1> SUFFICES ASSUME GInv, [Next]_vars PROVE GInv'
    OBVIOUS
<1>0. TypeOK'
    BY TypeStep DEF GInv
<1> USE DEF GInv
<1>1. CASE Arbitrary
    BY <1>0, <1>1 DEF Arbitrary, GenFailureRecorded
<1>2. CASE GenerationFailed
    BY <1>0, <1>2 DEF GenerationFailed, GenFailureRecorded
<1>3. CASE RunEval
    BY <1>0, <1>3 DEF RunEval, EndTrial, GenFailureRecorded
<1>4. CASE Emit
    <2>1. ~ObsRecord.genOk =>
              /\ ObsRecord.status = "gave_up"
              /\ ObsRecord.reason = "generation_failed"
              /\ ~ObsRecord.evaluated
        BY <1>4 DEF Emit, ObsRecord
    <2>2. CASE ObsEnabled
        <3>1. log' = Append(log, ObsRecord)
            BY <1>4, <2>2 DEF Emit, AppendRecord
        <3>2. \A i \in 1..Len(log') :
                 log'[i] = IF i <= Len(log) THEN log[i] ELSE ObsRecord
            BY <3>1 DEF TypeOK
        <3>3. Len(log') = Len(log) + 1
            BY <3>1 DEF TypeOK
        <3>4. GenFailureRecorded'
            BY <2>1, <3>2, <3>3 DEF GenFailureRecorded
        <3>5. QED
            BY <1>0, <1>4, <3>4 DEF Emit, EndTrial
    <2>3. CASE ~ObsEnabled
        BY <1>0, <1>4, <2>3 DEF Emit, AppendRecord, EndTrial, GenFailureRecorded
    <2>4. QED
        BY <2>2, <2>3
<1>5. CASE DriverDone \/ UNCHANGED vars
    BY <1>0, <1>5 DEF DriverDone, vars, GenFailureRecorded
<1>6. QED
    BY <1>1, <1>2, <1>3, <1>4, <1>5 DEF Next

\* No line of the observation file says a trial whose generation failed
\* passed, lacks its gave_up status, or was evaluated.
THEOREM GenFailureRecords == Spec => []GenFailureRecorded
<1>1. GInv => GenFailureRecorded
    BY DEF GInv
<1>2. QED
    BY GInvInit, GInvStep, <1>1, PTL DEF Spec

-----------------------------------------------------------------------------
(* The eval harness implements the abstract trial log.                    *)

\* The refinement needs, besides the types, that a trial is only running
\* while the driver still has an input for it, so that the abstract step
\* that ends it is enabled.
RInv ==
    /\ TypeOK
    /\ pc # "generate" => Len(outcomes) < MaxTrials

LEMMA RInvInvariant == Spec => []RInv
<1>1. Init => RInv
    BY TypeInit DEF Init, RInv
<1>2. RInv /\ [Next]_vars => RInv'
    BY TypeStep DEF RInv, Next, Arbitrary, GenerationFailed, RunEval, Emit,
                    EndTrial, DriverDone, vars
<1>3. QED
    BY <1>1, <1>2, PTL DEF Spec

\* Ending a trial extends the mapped list of finished trials by one entry.
LEMMA FinishedAppend ==
    ASSUME TypeOK, NEW how \in Outcome, outcomes' = Append(outcomes, how)
    PROVE  finishedBar' = Append(finishedBar,
                                 IF how = "completed" THEN "completed" ELSE "abandoned")
BY DEF TypeOK, finishedBar, Outcome

\* Appending the record extends the mapped file by the record's line.
LEMMA LinesAppend ==
    ASSUME TypeOK, log' = Append(log, ObsRecord)
    PROVE  linesBar' = Append(linesBar, [trial |-> trial, status |-> status])
BY DEF TypeOK, linesBar, ObsRecord

\* Every behaviour of the eval target, seen through finishedBar and
\* linesBar, is a behaviour of the abstract trial log: a record is written
\* only as a trial returns from test_eval_type_directed, for that trial,
\* and a panic of run_eval_test writes nothing.
THEOREM EvalRefinement == Spec => ImplementsTrialLog
<1>1. Init => TL!Init
    BY DEF Init, TL!Init, finishedBar, linesBar
<1>2. RInv /\ [Next]_vars => [TL!Next]_TL!vars
    <2> SUFFICES ASSUME RInv, [Next]_vars PROVE [TL!Next]_TL!vars
        OBVIOUS
    <2> USE DEF RInv
    <2>0. CASE UNCHANGED <<outcomes, log>>
        BY <2>0 DEF TL!vars, finishedBar, linesBar
    <2>1. CASE Arbitrary \/ GenerationFailed \/ DriverDone \/ UNCHANGED vars
        BY <2>1, <2>0 DEF Arbitrary, GenerationFailed, DriverDone, vars
    <2>2. CASE RunEval
        <3>1. CASE UNCHANGED outcomes
            BY <2>2, <3>1, <2>0 DEF RunEval
        <3>2. CASE outcomes' = Append(outcomes, "fault")
            <4>1. finishedBar' = Append(finishedBar, "abandoned")
                BY <3>2, FinishedAppend DEF Outcome
            <4>2. Len(finishedBar) = Len(outcomes)
                BY DEF finishedBar
            <4>3. TL!Abandon
                BY <2>2, <4>1, <4>2, <2>0
                   DEF RunEval, TL!Abandon, linesBar
            <4>4. QED
                BY <4>3 DEF TL!Next
        <3>3. QED
            BY <2>2, <3>1, <3>2 DEF RunEval, EndTrial
    <2>3. CASE Emit
        <3>1. finishedBar' = Append(finishedBar, "completed")
            BY <2>3, FinishedAppend DEF Emit, EndTrial, Outcome
        <3>2. Len(finishedBar) = Len(outcomes) /\ Len(finishedBar) < MaxTrials
            BY <2>3 DEF finishedBar, Emit
        <3>3. status \in TL!Status
            BY DEF TypeOK, Status, TerminalStatus, NoStatus, TL!Status
        <3>4. linesBar' = IF ObsEnabled
                            THEN Append(linesBar, [trial |-> Len(finishedBar) + 1,
                                                   status |-> status])
                            ELSE linesBar
            <4>1. CASE ObsEnabled
                BY <2>3, <4>1, <3>2, LinesAppend DEF Emit, AppendRecord, trial
            <4>2. CASE ~ObsEnabled
                BY <2>3, <4>2 DEF Emit, AppendRecord, linesBar
            <4>3. QED
                BY <4>1, <4>2
        <3>5. TL!Complete(status)
            BY <3>1, <3>2, <3>4 DEF TL!Complete
        <3>6. QED
            BY <3>3, <3>5 DEF TL!Next
    <2>4. QED
        BY <2>1, <2>2, <2>3 DEF Next
<1>3. QED
    BY <1>1, <1>2, RInvInvariant, PTL DEF Spec, TL!Spec, ImplementsTrialLog

=============================================================================
