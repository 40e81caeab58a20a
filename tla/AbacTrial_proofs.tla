-------------------------- MODULE AbacTrial_proofs --------------------------
(***************************************************************************)
(* Proofs about AbacTrial for every value of its constants.               *)
(***************************************************************************)
EXTENDS AbacTrial, TLAPS

-----------------------------------------------------------------------------
(* Type correctness.                                                       *)

\* Every step keeps each variable in its type: counters stay in range and
\* each record appended to the observation file is a well-formed Record.
LEMMA TypeInit == Init => TypeOK
<1> SUFFICES ASSUME Init PROVE TypeOK
    OBVIOUS
<1>1. schemaOk \in BOOLEAN /\ sawFault \in BOOLEAN
    BY Zenon DEF Init
<1>2. status \in Status /\ reason \in Reason
    BY DEF Init, Status, NoStatus, TerminalStatus, Reason
<1>3. log \in Seq(Record) /\ outcomes \in Seq(Outcome)
    BY DEF Init
<1>4. valErrs \in 0..MaxErrs /\ authErrs \in Nat /\ reqIdx \in 0..NumRequests
    BY MaxErrsAssumption DEF Init, NumRequests
<1>5. QED
    BY <1>1, <1>2, <1>3, <1>4 DEF Init, TypeOK

LEMMA TypeStep == TypeOK /\ [Next]_vars => TypeOK'
<1> SUFFICES ASSUME TypeOK, [Next]_vars PROVE TypeOK'
    OBVIOUS
<1> USE DEF TypeOK
<1>1. CASE GenerateOk
    BY <1>1 DEF GenerateOk
<1>2. CASE GenerateFail
    BY <1>2, DriverAssumption
       DEF GenerateFail, UnwrapInput, DiscardInput, EndTrial, Outcome
<1>3. CASE CheckSchema
    <2>1. schemaOk' \in BOOLEAN /\ sawFault' \in BOOLEAN
        BY <1>3, Zenon DEF CheckSchema
    <2>2. status' \in Status /\ reason' \in Reason /\ valErrs' \in 0..MaxErrs
        BY <1>3, MaxErrsAssumption DEF CheckSchema, InitialStatus, Status, TerminalStatus, Reason
    <2>3. QED
        BY <1>3, <2>1, <2>2 DEF CheckSchema, NumRequests
<1>4. CASE AuthRequest
    <2>1. PICK errs \in 0..MaxErrs, arity \in BOOLEAN, agree \in BOOLEAN :
              /\ arity => errs > 0
              /\ IF Passes(arity, agree)
                   THEN /\ authErrs' = authErrs + errs
                        /\ reqIdx' = reqIdx + 1
                        /\ sawFault' = (sawFault \/ arity)
                        /\ UNCHANGED <<pc, outcomes>>
                   ELSE /\ EndTrial("fault")
                        /\ UNCHANGED <<authErrs, reqIdx, sawFault>>
        BY <1>4 DEF AuthRequest
    <2>2. UNCHANGED <<schemaOk, status, reason, valErrs, log>> /\ reqIdx < NumRequests
        BY <1>4 DEF AuthRequest, MoreRequests
    <2>3. CASE Passes(arity, agree)
        BY <2>1, <2>2, <2>3, MaxErrsAssumption DEF NumRequests
    <2>4. CASE ~Passes(arity, agree)
        BY <2>1, <2>2, <2>4 DEF EndTrial, Outcome
    <2>5. QED
        BY <2>3, <2>4
<1>5. CASE Emit
    <2>1. ObsRecord \in Record
        BY <1>5 DEF Emit, ObsRecord, Record, trial, NumRequests
    <2>2. QED
        BY <1>5, <2>1, ObsEnabledAssumption DEF Emit, AppendRecord, EndTrial, Outcome
<1>6. CASE DriverDone
    BY <1>6 DEF DriverDone, vars
<1>7. CASE UNCHANGED vars
    BY <1>7 DEF vars
<1>8. QED
    BY <1>1, <1>2, <1>3, <1>4, <1>5, <1>6, <1>7 DEF Next

\* The type invariant TypeOK holds in every reachable state.
THEOREM TypeCorrect == Spec => []TypeOK
BY TypeInit, TypeStep, PTL DEF Spec

-----------------------------------------------------------------------------
(* The records of the observation file.                                   *)

\* RecordAfterCleanRun and RecordStatusDecided are not inductive by
\* themselves: Emit copies the current trial's state into the record, so
\* the invariant must also say that a running trial has seen no fault
\* (a fault panics at once) and that once the schema check is done the
\* status is decided.
IInv ==
    /\ TypeOK
    /\ sawFault = FALSE
    /\ pc = "auth" => status \in TerminalStatus
    /\ RecordAfterCleanRun
    /\ RecordStatusDecided

LEMMA IInvInit == Init => IInv
BY TypeInit DEF Init, IInv, RecordAfterCleanRun, RecordStatusDecided

LEMMA IInvStep == IInv /\ [Next]_vars => IInv'
<1> SUFFICES ASSUME IInv, [Next]_vars PROVE IInv'
    OBVIOUS
<1>0. TypeOK'
    BY TypeStep DEF IInv
<1> USE DEF IInv
<1>1. CASE GenerateOk
    BY <1>0, <1>1 DEF GenerateOk, RecordAfterCleanRun, RecordStatusDecided
<1>2. CASE GenerateFail
    BY <1>0, <1>2 DEF GenerateFail, UnwrapInput, DiscardInput, EndTrial,
                      RecordAfterCleanRun, RecordStatusDecided
<1>3. CASE CheckSchema
    BY <1>0, <1>3 DEF CheckSchema, InitialStatus, TerminalStatus,
                      RecordAfterCleanRun, RecordStatusDecided
<1>4. CASE AuthRequest
    <2>1. PICK errs \in 0..MaxErrs, arity \in BOOLEAN, agree \in BOOLEAN :
              /\ arity => errs > 0
              /\ IF Passes(arity, agree)
                   THEN /\ authErrs' = authErrs + errs
                        /\ reqIdx' = reqIdx + 1
                        /\ sawFault' = (sawFault \/ arity)
                        /\ UNCHANGED <<pc, outcomes>>
                   ELSE /\ EndTrial("fault")
                        /\ UNCHANGED <<authErrs, reqIdx, sawFault>>
        BY <1>4 DEF AuthRequest
    <2>2. UNCHANGED <<schemaOk, status, reason, valErrs, log>>
        BY <1>4 DEF AuthRequest
    <2>3. sawFault' = FALSE
        BY <2>1, Zenon DEF Passes
    <2>4. (pc = "auth" => status \in TerminalStatus)'
        BY <2>1, <2>2 DEF EndTrial
    <2>5. (RecordAfterCleanRun /\ RecordStatusDecided)'
        BY <2>2 DEF RecordAfterCleanRun, RecordStatusDecided
    <2>6. QED
        BY <1>0, <2>3, <2>4, <2>5
<1>5. CASE Emit
    <2>1. /\ ObsRecord.ran = NumRequests
          /\ ~ObsRecord.fault
          /\ ObsRecord.status \in TerminalStatus
        BY <1>5 DEF Emit, ObsRecord
    <2>2. CASE ObsEnabled
        <3>1. log' = Append(log, ObsRecord)
            BY <1>5, <2>2 DEF Emit, AppendRecord
        <3>2. \A i \in 1..Len(log') :
                 log'[i] = IF i <= Len(log) THEN log[i] ELSE ObsRecord
            BY <3>1 DEF TypeOK
        <3>3. Len(log') = Len(log) + 1
            BY <3>1 DEF TypeOK
        <3>4. (RecordAfterCleanRun /\ RecordStatusDecided)'
            BY <2>1, <3>2, <3>3 DEF RecordAfterCleanRun, RecordStatusDecided
        <3>5. QED
            BY <1>0, <1>5, <3>4 DEF Emit, EndTrial
    <2>3. CASE ~ObsEnabled
        BY <1>0, <1>5, <2>3 DEF Emit, AppendRecord, EndTrial,
                                RecordAfterCleanRun, RecordStatusDecided
    <2>4. QED
        BY <2>2, <2>3
<1>6. CASE UNCHANGED vars
    BY <1>6, Zenon DEF vars, IInv, TypeOK, RecordAfterCleanRun, RecordStatusDecided
<1>7. CASE DriverDone
    BY <1>6, <1>7 DEF DriverDone
<1>8. QED
    BY <1>1, <1>2, <1>3, <1>4, <1>5, <1>6, <1>7 DEF Next

\* No line of the observation file comes from a trial that skipped a request
\* or whose oracle reported a fault: the assertions of the request loop
\* stop such a trial before the record is written.
THEOREM CleanRecords == Spec => []RecordAfterCleanRun
<1>1. IInv => RecordAfterCleanRun
    BY DEF IInv
<1>2. QED
    BY IInvInit, IInvStep, <1>1, PTL DEF Spec

\* Every line of the observation file has status passed, failed or gave_up.
THEOREM DecidedRecords == Spec => []RecordStatusDecided
<1>1. IInv => RecordStatusDecided
    BY DEF IInv
<1>2. QED
    BY IInvInit, IInvStep, <1>1, PTL DEF Spec

-----------------------------------------------------------------------------
(* The abac harness implements the abstract trial log.                    *)

\* Besides the types, the refinement needs that a trial is only running
\* while the driver still has an input for it, so that the abstract step
\* that ends it is enabled.
RInv ==
    /\ TypeOK
    /\ pc # "generate" => Len(outcomes) < MaxTrials

LEMMA RInvInvariant == Spec => []RInv
<1>1. Init => RInv
    BY TypeInit DEF Init, RInv
<1>2. RInv /\ [Next]_vars => RInv'
    BY TypeStep DEF RInv, Next, GenerateOk, GenerateFail, UnwrapInput,
                    DiscardInput, CheckSchema, AuthRequest, Emit, EndTrial,
                    DriverDone, vars
<1>3. QED
    BY <1>1, <1>2, PTL DEF Spec

\* Ending a trial extends the mapped list of finished trials by one entry.
LEMMA FinishedAppend ==
    ASSUME TypeOK, NEW how \in Outcome, outcomes' = Append(outcomes, how)
    PROVE  finishedBar' = Append(finishedBar,
                                 IF how = "completed" THEN "completed" ELSE "abandoned")
BY DEF TypeOK, finishedBar, Outcome

\* Appending the record extends the mapped file by the record's line.
LEMMA LinesAppend ==
    ASSUME TypeOK, log' = Append(log, ObsRecord)
    PROVE  linesBar' = Append(linesBar, [trial |-> trial, status |-> status])
BY DEF TypeOK, linesBar, ObsRecord

\* A trial that ends without its record is an abstract Abandon step.
LEMMA AbandonStep ==
    ASSUME RInv, pc # "generate", NEW how \in Outcome \ {"completed"},
           outcomes' = Append(outcomes, how), UNCHANGED log
    PROVE  TL!Next
<1>1. finishedBar' = Append(finishedBar, "abandoned")
    BY FinishedAppend DEF RInv
<1>2. Len(finishedBar) = Len(outcomes) /\ Len(outcomes) < MaxTrials
    BY DEF finishedBar, RInv
<1>3. TL!Abandon
    BY <1>1, <1>2 DEF TL!Abandon, linesBar
<1>4. QED
    BY <1>3 DEF TL!Next

\* Every behaviour of the abac target, seen through finishedBar and
\* linesBar, is a behaviour of the abstract trial log: the record of
\* test_abac_type_directed is written only as a trial ends normally, for
\* that trial, and a panic or a dropped input writes nothing.
THEOREM AbacRefinement == Spec => ImplementsTrialLog
<1>1. Init => TL!Init
    BY DEF Init, TL!Init, finishedBar, linesBar
<1>2. RInv /\ [Next]_vars => [TL!Next]_TL!vars
    <2> SUFFICES ASSUME RInv, [Next]_vars PROVE [TL!Next]_TL!vars
        OBVIOUS
    <2>0. CASE UNCHANGED <<outcomes, log>>
        BY <2>0 DEF TL!vars, finishedBar, linesBar
    <2>1. CASE GenerateOk \/ CheckSchema \/ DriverDone \/ UNCHANGED vars
        BY <2>1, <2>0 DEF GenerateOk, CheckSchema, DriverDone, vars
    <2>2. CASE GenerateFail
        <3>1. PICK how \in {"gen_crash", "gen_skip"} : outcomes' = Append(outcomes, how)
            BY <2>2 DEF GenerateFail, UnwrapInput, DiscardInput, EndTrial
        <3>2. Len(outcomes) < MaxTrials /\ UNCHANGED log
            BY <2>2 DEF GenerateFail
        <3>3. RInv /\ pc = "generate"
            BY <2>2 DEF GenerateFail
        <3>4. finishedBar' = Append(finishedBar, "abandoned")
            BY <3>1, FinishedAppend DEF RInv, Outcome
        <3>5. Len(finishedBar) = Len(outcomes)
            BY DEF finishedBar
        <3>6. TL!Abandon
            BY <3>2, <3>4, <3>5 DEF TL!Abandon, linesBar
        <3>7. QED
            BY <3>6 DEF TL!Next
    <2>3. CASE AuthRequest
        <3>1. PICK errs \in 0..MaxErrs, arity \in BOOLEAN, agree \in BOOLEAN :
                  IF Passes(arity, agree)
                    THEN UNCHANGED outcomes
                    ELSE outcomes' = Append(outcomes, "fault")
            BY <2>3 DEF AuthRequest, EndTrial
        <3>2. UNCHANGED log /\ pc = "auth"
            BY <2>3 DEF AuthRequest
        <3>3. CASE Passes(arity, agree)
            BY <2>0, <3>1, <3>2, <3>3
        <3>4. CASE ~Passes(arity, agree)
            BY <3>1, <3>2, <3>4, AbandonStep DEF Outcome
        <3>5. QED
            BY <3>3, <3>4
    <2>4. CASE Emit
        <3>1. finishedBar' = Append(finishedBar, "completed")
            BY <2>4, FinishedAppend DEF RInv, Emit, EndTrial, Outcome
        <3>2. Len(finishedBar) = Len(outcomes) /\ Len(finishedBar) < MaxTrials
            BY <2>4 DEF finishedBar, Emit, RInv
        <3>3. status \in TL!Status
            BY DEF RInv, TypeOK, Status, TerminalStatus, NoStatus, TL!Status
        <3>4. linesBar' = IF ObsEnabled
                            THEN Append(linesBar, [trial |-> Len(finishedBar) + 1,
                                                   status |-> status])
                            ELSE linesBar
            <4>1. CASE ObsEnabled
                BY <2>4, <4>1, <3>2, LinesAppend DEF RInv, Emit, AppendRecord, trial
            <4>2. CASE ~ObsEnabled
                BY <2>4, <4>2 DEF Emit, AppendRecord, linesBar
            <4>3. QED
                BY <4>1, <4>2
        <3>5. TL!Complete(status)
            BY <3>1, <3>2, <3>4 DEF TL!Complete
        <3>6. QED
            BY <3>3, <3>5 DEF TL!Next
    <2>5. QED
        BY <2>1, <2>2, <2>3, <2>4 DEF Next
<1>3. QED
    BY <1>1, <1>2, RInvInvariant, PTL DEF Spec, TL!Spec, ImplementsTrialLog

=============================================================================
