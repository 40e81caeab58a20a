-------------------------- MODULE TrialLog_proofs ---------------------------
(***************************************************************************)
(* What the abstract trial log guarantees the reader of an observation    *)
(* file, for every number of trials.  With the refinement theorems of     *)
(* AbacTrial_proofs and EvalTrial_proofs it holds of those harnesses'     *)
(* files, seen through their refinement mappings.                          *)
(***************************************************************************)
EXTENDS TrialLog, TLAPS

TypeOK ==
    /\ finished \in Seq({"completed", "abandoned"})
    /\ lines \in Seq(Line)

TInv == TypeOK /\ LinesMatchTrials

LEMMA TInvInit == Init => TInv
BY DEF Init, TInv, TypeOK, LinesMatchTrials

LEMMA CompleteStep ==
    ASSUME TInv, NEW st \in Status, Complete(st)
    PROVE  TInv'
<1>1. finished' = Append(finished, "completed") /\ Len(finished) < MaxTrials
    BY DEF Complete
<1>2. \A t \in 1..Len(finished) : finished'[t] = finished[t]
    BY <1>1 DEF TInv, TypeOK
<1>3. Len(finished') = Len(finished) + 1 /\ finished'[Len(finished) + 1] = "completed"
    BY <1>1 DEF TInv, TypeOK
<1>4. finished' \in Seq({"completed", "abandoned"})
    BY <1>1 DEF TInv, TypeOK
<1>5. CASE ObsEnabled
    <2>1. lines' = Append(lines, [trial |-> Len(finished) + 1, status |-> st])
        BY <1>5 DEF Complete
    <2>2. Len(lines') = Len(lines) + 1
          /\ \A j \in 1..Len(lines) : lines'[j] = lines[j]
          /\ lines'[Len(lines) + 1] = [trial |-> Len(finished) + 1, status |-> st]
        BY <2>1 DEF TInv, TypeOK
    <2>6. TypeOK'
        <3>1. [trial |-> Len(finished) + 1, status |-> st] \in Line
            BY DEF Line
        <3>2. QED
            BY <1>4, <2>1, <3>1 DEF TInv, TypeOK
    <2>3. \A i \in 1..Len(lines') :
             /\ lines'[i].trial \in 1..Len(finished')
             /\ finished'[lines'[i].trial] = "completed"
             /\ i > 1 => lines'[i - 1].trial < lines'[i].trial
        <3> SUFFICES ASSUME NEW i \in 1..Len(lines')
                     PROVE  /\ lines'[i].trial \in 1..Len(finished')
                            /\ finished'[lines'[i].trial] = "completed"
                            /\ i > 1 => lines'[i - 1].trial < lines'[i].trial
            OBVIOUS
        <3>1. \A j \in 1..Len(lines) : lines[j].trial \in 1..Len(finished)
                                     /\ finished[lines[j].trial] = "completed"
            BY DEF TInv, LinesMatchTrials
        <3>2. CASE i \in 1..Len(lines)
            <4>1. i > 1 => lines[i - 1].trial < lines[i].trial
                BY <3>2 DEF TInv, LinesMatchTrials
            <4>2. lines'[i] = lines[i] /\ (i > 1 => lines'[i - 1] = lines[i - 1])
                BY <2>1, <3>2 DEF TInv, TypeOK
            <4>3. lines[i].trial \in 1..Len(finished) /\ finished[lines[i].trial] = "completed"
                BY <3>1, <3>2
            <4>4. QED
                BY <1>2, <1>3, <4>1, <4>2, <4>3
        <3>3. CASE i = Len(lines) + 1
            <4>0. lines'[i] = [trial |-> Len(finished) + 1, status |-> st]
                BY <2>1, <3>3 DEF TInv, TypeOK
            <4>1. lines'[i].trial = Len(finished) + 1
                BY <4>0
            <4>2. i > 1 => lines'[i - 1].trial \in 1..Len(finished)
                BY <2>2, <3>1, <3>3 DEF TInv, TypeOK
            <4>3. QED
                BY <1>3, <4>1, <4>2 DEF TInv, TypeOK
        <3>4. QED
            BY <2>2, <3>2, <3>3 DEF TInv, TypeOK
    <2>4. \A t \in 1..Len(finished') :
             finished'[t] = "completed" =>
                \E i \in 1..Len(lines') : lines'[i].trial = t
        <3> SUFFICES ASSUME NEW t \in 1..Len(finished'), finished'[t] = "completed"
                     PROVE  \E i \in 1..Len(lines') : lines'[i].trial = t
            OBVIOUS
        <3>1. CASE t = Len(finished) + 1
            <4>1. Len(lines) + 1 \in 1..Len(lines') /\ lines'[Len(lines) + 1].trial = t
                BY <2>1, <3>1 DEF TInv, TypeOK
            <4>2. QED
                BY <4>1
        <3>2. CASE t # Len(finished) + 1
            <4>1. t \in 1..Len(finished) /\ finished[t] = "completed"
                BY <1>2, <1>3, <3>2 DEF TInv, TypeOK
            <4>2. PICK i \in 1..Len(lines) : lines[i].trial = t
                BY <1>5, <4>1 DEF TInv, LinesMatchTrials
            <4>3. QED
                BY <2>2, <4>2 DEF TInv, TypeOK
        <3>3. QED
            BY <3>1, <3>2
    <2>5. QED
        BY <2>6, <2>3, <2>4 DEF TInv, LinesMatchTrials
<1>6. CASE ~ObsEnabled
    <2>1. lines' = lines
        BY <1>6 DEF Complete
    <2>2. \A i \in 1..Len(lines) : lines[i].trial \in 1..Len(finished)
        BY DEF TInv, LinesMatchTrials
    <2>3. QED
        BY <1>2, <1>3, <1>4, <1>6, <2>1, <2>2 DEF TInv, TypeOK, LinesMatchTrials
<1>7. QED
    BY <1>5, <1>6

LEMMA AbandonStep ==
    ASSUME TInv, Abandon
    PROVE  TInv'
<1>1. finished' = Append(finished, "abandoned") /\ lines' = lines
    BY DEF Abandon
<1>2. \A t \in 1..Len(finished) : finished'[t] = finished[t]
    BY <1>1 DEF TInv, TypeOK
<1>3. Len(finished') = Len(finished) + 1 /\ finished'[Len(finished) + 1] = "abandoned"
    BY <1>1 DEF TInv, TypeOK
<1>4. TypeOK'
    BY <1>1 DEF TInv, TypeOK
<1>5. \A i \in 1..Len(lines) : lines[i].trial \in 1..Len(finished)
    BY DEF TInv, LinesMatchTrials
<1>6. QED
    BY <1>1, <1>2, <1>3, <1>4, <1>5 DEF TInv, TypeOK, LinesMatchTrials

LEMMA TInvStep == TInv /\ [Next]_vars => TInv'
<1> SUFFICES ASSUME TInv, [Next]_vars PROVE TInv'
    OBVIOUS
<1>1. CASE \E st \in Status : Complete(st)
    BY <1>1, CompleteStep
<1>2. CASE Abandon
    BY <1>2, AbandonStep
<1>3. CASE UNCHANGED vars
    BY <1>3 DEF vars, TInv, TypeOK, LinesMatchTrials
<1>4. QED
    BY <1>1, <1>2, <1>3 DEF Next

\* The abstract trial log keeps its file in step with its trials: every
\* line names a completed trial, the lines follow the order of the trials,
\* and with observability on each completed trial has a line.
THEOREM LinesMatch == Spec => []LinesMatchTrials
<1>1. TInv => LinesMatchTrials
    BY DEF TInv
<1>2. QED
    BY TInvInit, TInvStep, <1>1, PTL DEF Spec

=============================================================================
