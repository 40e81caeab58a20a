------------------------- MODULE ParserTrial_proofs -------------------------
(***************************************************************************)
(* Proofs about ParserTrial for every number of trials.                   *)
(* The simple-parser target implements the abstract trial log, whether    *)
(* FUZZ_TARGET is set or not.                                              *)
(***************************************************************************)
EXTENDS ParserTrial, TLAPS

\* The refinement needs the types and that a trial is only running while
\* the driver still has an input for it.
RInv ==
    /\ TypeOK
    /\ pc # "input" => Len(outcomes) < MaxTrials

LEMMA RInvInit == Init => RInv
BY DEF Init, RInv, TypeOK, NoStatus, ParseResult

LEMMA RInvStep == RInv /\ [Next]_vars => RInv'
<1> SUFFICES ASSUME RInv, [Next]_vars PROVE RInv'
    OBVIOUS
<1> USE DEF RInv, TypeOK
<1>1. CASE Parse
    <2>1. CASE FuzzTargetSet
        BY <1>1, <2>1 DEF Parse, NoStatus
    <2>2. CASE ~FuzzTargetSet
        <3>1. /\ result' \in ParseResult /\ status' = NoStatus /\ UNCHANGED log
              /\ outcomes' = Append(outcomes, [how |-> "crash", result |-> result'])
              /\ pc' = "input"
            BY <1>1, <2>2 DEF Parse, EndTrial
        <3>2. [how |-> "crash", result |-> result'] \in [how : {"completed", "crash"}, result : ParseResult]
            BY <3>1
        <3>3. QED
            BY <3>1, <3>2 DEF NoStatus
    <2>3. QED
        BY <2>1, <2>2
<1>2. CASE CheckErrors
    <2>1. CASE result = "ok"
        BY <1>2, <2>1 DEF CheckErrors
    <2>2. CASE result # "ok" /\ IsDefect(result)
        <3>1. /\ outcomes' = Append(outcomes, [how |-> "crash", result |-> result])
              /\ pc' = "input" /\ status' = "failed" /\ UNCHANGED <<result, log>>
            BY <1>2, <2>2 DEF CheckErrors, EndTrial
        <3>2. QED
            BY <3>1
    <2>3. CASE result # "ok" /\ ~IsDefect(result)
        BY <1>2, <2>3 DEF CheckErrors
    <2>4. QED
        BY <2>1, <2>2, <2>3
<1>3. CASE Emit
    <2>1. ObsRecord \in Record
        BY DEF ObsRecord, Record, trial, IsDefect
    <2>2. log' \in Seq(Record)
        BY <1>3, <2>1, ParserEnvAssumption DEF Emit, AppendRecord
    <2>3. QED
        BY <1>3, <2>2 DEF Emit, EndTrial
<1>4. CASE DriverDone \/ UNCHANGED vars
    BY <1>4 DEF DriverDone, vars
<1>5. QED
    BY <1>1, <1>2, <1>3, <1>4 DEF Next

\* Ending a trial extends the mapped list of finished trials by one entry.
LEMMA FinishedAppend ==
    ASSUME TypeOK, NEW how \in {"completed", "crash"}, NEW r \in ParseResult,
           outcomes' = Append(outcomes, [how |-> how, result |-> r])
    PROVE  finishedBar' = Append(finishedBar,
                                 IF how = "completed" THEN "completed" ELSE "abandoned")
BY DEF TypeOK, finishedBar

\* A panic (the FUZZ_TARGET unwrap or the assert!) ends the running trial
\* and writes nothing: an abandoned trial.
LEMMA CrashStep ==
    ASSUME RInv, pc # "input" \/ Len(outcomes) < MaxTrials,
           NEW r \in ParseResult,
           outcomes' = Append(outcomes, [how |-> "crash", result |-> r]),
           UNCHANGED log
    PROVE  TL!Abandon
<1>1. finishedBar' = Append(finishedBar, "abandoned")
    BY FinishedAppend DEF RInv
<1>2. Len(finishedBar) = Len(outcomes) /\ Len(outcomes) < MaxTrials
    BY DEF finishedBar, RInv
<1>3. QED
    BY <1>1, <1>2 DEF TL!Abandon, linesBar

\* Every behaviour of the simple-parser target, seen through finishedBar
\* and linesBar, is a behaviour of the abstract trial log.
THEOREM ParserRefinement == Spec => ImplementsTrialLog
<1>1. Init => TL!Init
    BY DEF Init, TL!Init, finishedBar, linesBar
<1>2. RInv /\ [Next]_vars => [TL!Next]_TL!vars
    <2> SUFFICES ASSUME RInv, [Next]_vars PROVE [TL!Next]_TL!vars
        OBVIOUS
    <2>0. CASE UNCHANGED <<outcomes, log>>
        BY <2>0 DEF TL!vars, finishedBar, linesBar
    <2>1. CASE Parse
        <3>1. CASE FuzzTargetSet
            BY <2>1, <3>1, <2>0 DEF Parse
        <3>2. CASE ~FuzzTargetSet
            <4>1. result' \in ParseResult
                BY <2>1 DEF Parse
            <4>2. QED
                BY <2>1, <3>2, <4>1, CrashStep DEF Parse, EndTrial, TL!Next
        <3>3. QED
            BY <3>1, <3>2
    <2>2. CASE CheckErrors
        <3>1. CASE UNCHANGED outcomes
            BY <2>2, <3>1, <2>0 DEF CheckErrors
        <3>2. CASE outcomes' = Append(outcomes, [how |-> "crash", result |-> result])
            BY <2>2, <3>2, CrashStep DEF CheckErrors, RInv, TypeOK, TL!Next
        <3>3. QED
            BY <2>2, <3>1, <3>2 DEF CheckErrors, EndTrial
    <2>3. CASE Emit
        <3>1. finishedBar' = Append(finishedBar, "completed")
            BY <2>3, FinishedAppend DEF Emit, EndTrial, RInv, TypeOK
        <3>2. Len(finishedBar) = Len(outcomes) /\ Len(finishedBar) < MaxTrials
            BY <2>3 DEF finishedBar, Emit, RInv
        <3>3. status \in TL!Status
            BY DEF RInv, TypeOK, NoStatus, TL!Status
        <3>4. linesBar' = IF ObsEnabled
                            THEN Append(linesBar, [trial |-> Len(finishedBar) + 1,
                                                   status |-> status])
                            ELSE linesBar
            <4>1. CASE ObsEnabled
                <5>1. log' = Append(log, ObsRecord)
                    BY <2>3, <4>1 DEF Emit, AppendRecord
                <5>2. QED
                    BY <3>2, <4>1, <5>1 DEF RInv, TypeOK, linesBar, ObsRecord, trial
            <4>2. CASE ~ObsEnabled
                BY <2>3, <4>2 DEF Emit, AppendRecord, linesBar
            <4>3. QED
                BY <4>1, <4>2
        <3>5. TL!Complete(status)
            BY <3>1, <3>2, <3>4 DEF TL!Complete
        <3>6. QED
            BY <3>3, <3>5 DEF TL!Next
    <2>4. CASE DriverDone \/ UNCHANGED vars
        BY <2>4, <2>0 DEF DriverDone, vars
    <2>5. QED
        BY <2>1, <2>2, <2>3, <2>4 DEF Next
<1>3. Spec => []RInv
    BY RInvInit, RInvStep, PTL DEF Spec
<1>4. QED
    BY <1>1, <1>2, <1>3, PTL DEF Spec, TL!Spec, ImplementsTrialLog

=============================================================================
