------------------------------ MODULE ObsLog ------------------------------
(***************************************************************************)
(* The observation files written by the fuzz harnesses.  Each harness      *)
(* process, at the end of a trial with DRT_OBSERVABILITY set, creates      *)
(* fuzz/observations/, opens <FUZZ_TARGET>_testcases.jsonl with            *)
(* create(true).append(true) and writes the record with                    *)
(*     writeln!(file, "{}", obs_out_json)                                  *)
(* on the unbuffered File.  serde_json's Display writes the JSON token by  *)
(* token through the formatter and writeln! writes the "\n" on its own, so *)
(* one record reaches the file as several write calls: the model writes a  *)
(* record as Fragments pieces, the last one being the newline.  Each write *)
(* is atomic; with O_APPEND it lands at the end of the file.               *)
(*                                                                         *)
(* Several processes may share a file: two instances of one target, or    *)
(* targets falling back to the default name "fuzz-target" when            *)
(* FUZZ_TARGET is unset.  The fuzz engine may kill a process between two   *)
(* writes (its per-input timeout) and start it again.                      *)
(***************************************************************************)
EXTENDS Naturals, Sequences, FiniteSets

CONSTANTS
    Proc,        \* harness processes
    TestName,    \* the file name each process uses (FUZZ_TARGET or default)
    Fragments,   \* write calls per record, the newline included
    MaxRecords,  \* records each process writes before the model stops
    MaxKills     \* processes the fuzz engine kills mid-record

ASSUME ProcAssumption == Proc # {}
ASSUME TestNameAssumption == TestName \in [Proc -> STRING]
ASSUME FragmentsAssumption == Fragments \in Nat /\ Fragments >= 2
ASSUME MaxRecordsAssumption == MaxRecords \in Nat
ASSUME MaxKillsAssumption == MaxKills \in Nat

Files == {TestName[p] : p \in Proc}

\* The i-th write of the k-th record of process p; i = Fragments is the
\* newline.
Frag == Proc \X (1..MaxRecords) \X (1..Fragments)
IsNewline(x) == x[3] = Fragments

VARIABLES
    file,     \* file contents: a sequence of fragments per file name
    wpc,      \* "idle" or "writing"
    rec,      \* records process p has started
    frag,     \* fragments of the current record already written
    off,      \* the offset of p's open file description
    kills,    \* kills so far
    written,  \* ghost: every fragment ever written
    done      \* ghost: the records whose newline was written

vars == <<file, wpc, rec, frag, off, kills, written, done>>

TypeOK ==
    /\ file \in [Files -> Seq(Frag)]
    /\ wpc \in [Proc -> {"idle", "writing"}]
    /\ rec \in [Proc -> 0..MaxRecords]
    /\ frag \in [Proc -> 0..Fragments]
    /\ off \in [Proc -> Nat]
    /\ kills \in 0..MaxKills
    /\ written \subseteq Frag
    /\ done \subseteq Proc \X (1..MaxRecords)

Init ==
    /\ file = [f \in Files |-> << >>]
    /\ wpc = [p \in Proc |-> "idle"]
    /\ rec = [p \in Proc |-> 0]
    /\ frag = [p \in Proc |-> 0]
    /\ off = [p \in Proc |-> 0]
    /\ kills = 0
    /\ written = {}
    /\ done = {}

\* Mutant: the file is opened with write(true) instead of append(true).
NoAppendMode == FALSE

\* OpenOptions::new().create(true).append(true)
AppendMode == TRUE

\* Where a write of p lands: at the end of the file under O_APPEND, at the
\* offset of the open file description otherwise.
WritePos(p) ==
    IF AppendMode THEN Len(file[TestName[p]]) + 1 ELSE off[p] + 1

\* f with x written at position pos (at most one past the end).
Put(f, pos, x) ==
    IF pos = Len(f) + 1 THEN Append(f, x) ELSE [f EXCEPT ![pos] = x]

\* create_dir_all, then open the file; a fresh open file description
\* starts at offset 0.
OpenFile(p) ==
    /\ wpc[p] = "idle"
    /\ rec[p] < MaxRecords
    /\ wpc' = [wpc EXCEPT ![p] = "writing"]
    /\ rec' = [rec EXCEPT ![p] = @ + 1]
    /\ frag' = [frag EXCEPT ![p] = 0]
    /\ off' = [off EXCEPT ![p] = 0]
    /\ UNCHANGED <<file, kills, written, done>>

\* One write call of writeln!: the next token of the record, or the
\* trailing newline, which ends the harness function.
WriteFragment(p) ==
    /\ wpc[p] = "writing"
    /\ frag[p] < Fragments
    /\ LET x   == <<p, rec[p], frag[p] + 1>>
           pos == WritePos(p)
       IN  /\ file' = [file EXCEPT ![TestName[p]] = Put(@, pos, x)]
           /\ off' = [off EXCEPT ![p] = pos]
           /\ frag' = [frag EXCEPT ![p] = @ + 1]
           /\ written' = written \cup {x}
           /\ IF IsNewline(x)
                THEN /\ wpc' = [wpc EXCEPT ![p] = "idle"]
                     /\ done' = done \cup {<<p, rec[p]>>}
                ELSE UNCHANGED <<wpc, done>>
    /\ UNCHANGED <<rec, kills>>

\* The fuzz engine kills p between two writes and starts it again.
Kill(p) ==
    /\ wpc[p] = "writing"
    /\ kills < MaxKills
    /\ wpc' = [wpc EXCEPT ![p] = "idle"]
    /\ kills' = kills + 1
    /\ UNCHANGED <<file, rec, frag, off, written, done>>

\* Every process has written its last record.
AllDone ==
    /\ \A p \in Proc : wpc[p] = "idle" /\ rec[p] = MaxRecords
    /\ UNCHANGED vars

Next ==
    \/ \E p \in Proc : OpenFile(p) \/ WriteFragment(p) \/ Kill(p)
    \/ AllDone

Spec == Init /\ [][Next]_vars

-----------------------------------------------------------------------------
(* Reading the file back as JSON lines.                                    *)

\* Positions of the newlines of f.
Newlines(f) == {i \in 1..Len(f) : IsNewline(f[i])}

\* The complete lines of f: each runs from just after the previous newline
\* up to and including its own.
Lines(f) ==
    LET Start(b) == IF \E j \in Newlines(f) : j < b
                      THEN CHOOSE j \in Newlines(f) :
                              j < b /\ \A k \in Newlines(f) : k < b => k <= j
                      ELSE 0
    IN  {SubSeq(f, Start(b) + 1, b) : b \in Newlines(f)}

\* Record k of process p as one whole line.
RecordLine(p, k) == [i \in 1..Fragments |-> <<p, k, i>>]

-----------------------------------------------------------------------------
(* Properties.                                                             *)

\* The spec (4.4) requires that appending a record never corrupts or
\* truncates prior records: every byte any process ever wrote to an
\* observation file is still in it, whichever processes share the file and
\* whenever one is killed.  This rests on append(true) in the OpenOptions.
DurableAppend ==
    \A x \in written : \E i \in 1..Len(file[TestName[x[1]]]) :
        file[TestName[x[1]]][i] = x

\* Spec 5: appends from several processes are safe, each record being one
\* line-buffered write: every record a process finished writing can be read
\* back as a whole line of its file.
RecordsReadable ==
    \A d \in done : RecordLine(d[1], d[2]) \in Lines(file[TestName[d[1]]])

=============================================================================
