-------------------------- MODULE SchemaRoundtrip --------------------------
(***************************************************************************)
(* The schema-roundtrip target (cedar-afl fuzz_targets/schema-roundtrip.rs)*)
(* trial after trial.  Input::arbitrary generates a schema and reads its   *)
(* namespace name for the features; the fuzz_target! body converts the     *)
(* schema to the human-readable syntax, parses it back and compares the    *)
(* two with equivalence_check, panicking on a difference.  A panic aborts  *)
(* the process.  The observability block that follows refers to obs_out   *)
(* and exec_start_time, which the target never defines, so no record is   *)
(* modelled for this target.                                               *)
(*                                                                         *)
(* A schema is abstracted to whether it has a namespace and to what the   *)
(* round trip makes of it.                                                 *)
(***************************************************************************)
EXTENDS Naturals, Sequences

CONSTANT MaxTrials

\* What the round trip makes of a schema: as_natural_schema fails, the
\* text fails to parse back, equivalence_check finds a difference, or the
\* two fragments are equivalent.
Roundtrip == {"to_text_fails", "reparse_fails", "mismatch", "equal"}

\* Spec 4.3: every result but "equal" is a RoundtripMismatch.
IsMismatch(r) == r # "equal"

\* How a trial ended (ghost), with what its schema was.
Outcome == [how : {"completed", "crash", "gen_skip"},
            hasNamespace : BOOLEAN, roundtrip : Roundtrip]

VARIABLES
    pc,            \* "generate" or "check"
    hasNamespace,  \* the generated schema has a namespace
    roundtrip,     \* what the round trip makes of the current schema
    outcomes       \* ghost: how each finished trial ended

vars == <<pc, hasNamespace, roundtrip, outcomes>>

TypeOK ==
    /\ pc \in {"generate", "check"}
    /\ hasNamespace \in BOOLEAN
    /\ roundtrip \in Roundtrip
    /\ outcomes \in Seq(Outcome)

Init ==
    /\ pc = "generate"
    /\ hasNamespace = TRUE
    /\ roundtrip = "equal"
    /\ outcomes = << >>

EndTrial(how, ns, r) ==
    /\ outcomes' = Append(outcomes, [how |-> how, hasNamespace |-> ns,
                                     roundtrip |-> r])
    /\ pc' = "generate"

\* Input::arbitrary: Schema::arbitrary may fail, and fuzz_target! then
\* skips the input; on success name.as_ref().unwrap() panics for a schema
\* without a namespace.
Generate ==
    /\ pc = "generate"
    /\ Len(outcomes) < MaxTrials
    /\ hasNamespace' \in BOOLEAN
    /\ roundtrip' \in Roundtrip
    /\ \/ EndTrial("gen_skip", hasNamespace', roundtrip')
       \/ /\ ~hasNamespace'
          /\ EndTrial("crash", hasNamespace', roundtrip')
       \/ /\ hasNamespace'
          /\ pc' = "check"
          /\ UNCHANGED outcomes

\* The fuzz_target! body: as_natural_schema().expect(..),
\* from_str_natural(..).expect(..), then panic!(msg) when
\* equivalence_check returns an error.
Check ==
    /\ pc = "check"
    /\ IF IsMismatch(roundtrip)
         THEN EndTrial("crash", hasNamespace, roundtrip)
         ELSE EndTrial("completed", hasNamespace, roundtrip)
    /\ UNCHANGED <<hasNamespace, roundtrip>>

\* The driver has supplied its last input.
DriverDone ==
    /\ pc = "generate"
    /\ Len(outcomes) = MaxTrials
    /\ UNCHANGED vars

Next == Generate \/ Check \/ DriverDone

Spec == Init /\ [][Next]_vars

-----------------------------------------------------------------------------
(* Properties.                                                             *)

\* The target crashes only on a round-trip mismatch: a schema that
\* survives the round trip never aborts the process, whatever its
\* namespace.
CrashOnlyOnMismatch ==
    \A t \in 1..Len(outcomes) :
        outcomes[t].how = "crash" => IsMismatch(outcomes[t].roundtrip)

=============================================================================
