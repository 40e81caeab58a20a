--------------------------- MODULE ObsLog_proofs ---------------------------
(***************************************************************************)
(* Proofs about ObsLog for every set of processes, every mapping of them  *)
(* to file names, every number of fragments, records and kills.           *)
(***************************************************************************)
EXTENDS ObsLog, TLAPS

\* DurableAppend is inductive once the types are known and a process that
\* is writing has opened a record, so that the fragment it writes is one
\* of Frag: with append(true) every write lands past the end of its file
\* and leaves the earlier fragments where they were.
IInv ==
    /\ TypeOK
    /\ \A p \in Proc : wpc[p] = "writing" => rec[p] \in 1..MaxRecords
    /\ DurableAppend

\* The initial state: every file is empty and nothing has been written.
LEMMA IInvInit == Init => IInv
<1> SUFFICES ASSUME Init PROVE IInv
  OBVIOUS
<1>1. TypeOK
  BY MaxKillsAssumption, MaxRecordsAssumption, FragmentsAssumption
  DEF Init, TypeOK
<1>2. \A p \in Proc : wpc[p] = "writing" => rec[p] \in 1..MaxRecords
  BY DEF Init
<1>3. DurableAppend
  BY DEF Init, DurableAppend
<1> QED  BY <1>1, <1>2, <1>3 DEF IInv

\* open: only the writer's own control state changes, and the record it
\* starts is numbered 1..MaxRecords.
LEMMA OpenStep ==
    ASSUME IInv, NEW p \in Proc, OpenFile(p)
    PROVE  IInv'
<1>1. TypeOK'
  <2>1. rec' \in [Proc -> 0..MaxRecords]
    BY MaxRecordsAssumption DEF IInv, TypeOK, OpenFile
  <2>2. /\ wpc' \in [Proc -> {"idle", "writing"}]
        /\ frag' \in [Proc -> 0..Fragments]
        /\ off' \in [Proc -> Nat]
    BY FragmentsAssumption DEF IInv, TypeOK, OpenFile
  <2>3. UNCHANGED <<file, kills, written, done>>
    BY DEF OpenFile
  <2> QED  BY <2>1, <2>2, <2>3 DEF IInv, TypeOK
<1>2. (\A q \in Proc : wpc[q] = "writing" => rec[q] \in 1..MaxRecords)'
  BY MaxRecordsAssumption DEF IInv, TypeOK, OpenFile
<1>3. DurableAppend'
  BY DEF IInv, OpenFile, DurableAppend
<1> QED  BY <1>1, <1>2, <1>3 DEF IInv

\* A kill between two writes leaves every file as it was.
LEMMA KillStep ==
    ASSUME IInv, NEW p \in Proc, Kill(p)
    PROVE  IInv'
<1>1. TypeOK'
  BY MaxKillsAssumption DEF IInv, TypeOK, Kill
<1>2. (\A q \in Proc : wpc[q] = "writing" => rec[q] \in 1..MaxRecords)'
  BY DEF IInv, Kill
<1>3. DurableAppend'
  BY DEF IInv, Kill, DurableAppend
<1> QED  BY <1>1, <1>2, <1>3 DEF IInv

\* One write call: under append(true) the fragment goes past the end of
\* the file the process shares with others, so every fragment already in
\* some file keeps its position, and the new one is found at the new end.
LEMMA WriteStep ==
    ASSUME IInv, NEW p \in Proc, WriteFragment(p)
    PROVE  IInv'
<1> DEFINE x == <<p, rec[p], frag[p] + 1>>
           f == TestName[p]
<1>0. TypeOK /\ DurableAppend
      /\ \A q \in Proc : wpc[q] = "writing" => rec[q] \in 1..MaxRecords
  BY DEF IInv
<1>1. wpc[p] = "writing" /\ frag[p] < Fragments
  BY DEF WriteFragment
<1>2. x \in Frag
  BY <1>0, <1>1, FragmentsAssumption DEF TypeOK, Frag
<1>3. f \in Files /\ file[f] \in Seq(Frag)
  BY <1>0 DEF Files, TypeOK
<1>4. WritePos(p) = Len(file[f]) + 1
  BY DEF WritePos, AppendMode
<1>5. file' = [file EXCEPT ![f] = Append(file[f], x)]
  BY <1>4 DEF WriteFragment, Put
<1>6. written' = written \cup {x}
  BY DEF WriteFragment
<1>7. TypeOK'
  <2>1. file' \in [Files -> Seq(Frag)]
    BY <1>0, <1>2, <1>3, <1>5 DEF TypeOK
  <2>2. off' \in [Proc -> Nat] /\ frag' \in [Proc -> 0..Fragments]
    BY <1>0, <1>1, <1>4, FragmentsAssumption DEF TypeOK, WriteFragment
  <2>3. /\ wpc' \in [Proc -> {"idle", "writing"}]
        /\ done' \subseteq Proc \X (1..MaxRecords)
    BY <1>0, <1>1 DEF TypeOK, WriteFragment
  <2>4. rec' = rec /\ kills' = kills
    BY DEF WriteFragment
  <2> QED  BY <1>0, <1>2, <1>6, <2>1, <2>2, <2>3, <2>4 DEF TypeOK
<1>8. (\A q \in Proc : wpc[q] = "writing" => rec[q] \in 1..MaxRecords)'
  <2>1. rec' = rec
    BY DEF WriteFragment
  <2>2. \A q \in Proc : wpc'[q] = "writing" => wpc[q] = "writing"
    BY <1>0 DEF WriteFragment, TypeOK
  <2> QED  BY <1>0, <2>1, <2>2
<1>9. DurableAppend'
  <2> SUFFICES ASSUME NEW y \in written'
               PROVE  \E i \in 1..Len(file'[TestName[y[1]]]) :
                         file'[TestName[y[1]]][i] = y
    BY DEF DurableAppend
  <2>1. CASE y = x
    <3>1. file'[f] = Append(file[f], x)
      BY <1>0, <1>3, <1>5 DEF TypeOK
    <3> QED  BY <2>1, <1>3, <3>1
  <2>2. CASE y # x
    <3>1. y \in written /\ y[1] \in Proc
      BY <2>2, <1>6, <1>0 DEF TypeOK, Frag
    <3>2. PICK i \in 1..Len(file[TestName[y[1]]]) :
                 file[TestName[y[1]]][i] = y
      BY <3>1, <1>0 DEF DurableAppend
    <3>3. TestName[y[1]] \in Files /\ file[TestName[y[1]]] \in Seq(Frag)
      BY <3>1, <1>0 DEF Files, TypeOK
    <3>4. CASE TestName[y[1]] = f
      BY <3>2, <3>3, <3>4, <1>0, <1>3, <1>5 DEF TypeOK
    <3>5. CASE TestName[y[1]] # f
      BY <3>2, <3>3, <3>5, <1>0, <1>5 DEF TypeOK
    <3> QED  BY <3>4, <3>5
  <2> QED  BY <2>1, <2>2
<1> QED  BY <1>7, <1>8, <1>9 DEF IInv

\* Steps that change none of the variables.
LEMMA StutterStep ==
    ASSUME IInv, UNCHANGED vars
    PROVE  IInv'
  BY DEF IInv, vars, TypeOK, DurableAppend

LEMMA IInvStep == IInv /\ [Next]_vars => IInv'
<1> SUFFICES ASSUME IInv, [Next]_vars PROVE IInv'
  OBVIOUS
<1>1. CASE \E p \in Proc : OpenFile(p)
  BY <1>1, OpenStep
<1>2. CASE \E p \in Proc : WriteFragment(p)
  BY <1>2, WriteStep
<1>3. CASE \E p \in Proc : Kill(p)
  BY <1>3, KillStep
<1>4. CASE AllDone \/ UNCHANGED vars
  BY <1>4, StutterStep DEF AllDone
<1> QED  BY <1>1, <1>2, <1>3, <1>4 DEF Next

\* The spec's guarantee (4.4) that appending never corrupts or truncates
\* an earlier record, for every number of processes sharing a file, of
\* records, of write calls per record and of kills: every fragment any
\* harness wrote with writeln! through its append(true) File is still in
\* the file.
THEOREM Durable == Spec => []DurableAppend
<1>1. Init => IInv
  BY IInvInit
<1>2. IInv /\ [Next]_vars => IInv'
  BY IInvStep
<1>3. IInv => DurableAppend
  BY DEF IInv
<1> QED  BY <1>1, <1>2, <1>3, PTL DEF Spec

=============================================================================
