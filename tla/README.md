# TLA+ models of the cedar-drt fuzzing harnesses

This directory models `src/cedar-drt`, the differential-testing harness of
cedar-spec. The harness runs fuzz targets under AFL (`cedar-afl`),
cargo-fuzz (`fuzz/fuzz_targets`) and bolero (`fuzz/tests`, `cedar-bolero`).
Each target does three things:

1. it turns fuzzer bytes into a scenario (the Arbitrary impls of `fuzz-lib/src/fuzz_inputs`);
2. it runs the scenario through the Rust and the Lean engines and asserts that they agree (`fuzz-lib/src/harnesses.rs`);
3. when `DRT_OBSERVABILITY` is set, it appends one JSON line per trial to `fuzz/observations/<FUZZ_TARGET>_testcases.jsonl`.

Nothing in a trial is concurrent. The concurrency is between processes:

- the fuzz engine runs several instances of a target;
- targets that do not set `FUZZ_TARGET` share the default file `fuzz-target_testcases.jsonl`;
- the engine kills a process on a timeout and then starts it again.

## Inventory

| Part | Sources | Module | Status |
|---|---|---|---|
| ABAC type-directed input, harness and AFL/bolero drivers | `fuzz_inputs/abac_type_directed.rs`, `harnesses.rs` 23-118, `cedar-afl/.../abac-type-directed.rs`, `fuzz/tests/abac-type-directed/main.rs` | `AbacTrial` | modelled |
| Observation file (open, append, torn writes) | `harnesses.rs` 100-117 and the same block in every target | `ObsLog` | modelled |
| Eval type-directed input, harness and AFL driver | `fuzz_inputs/eval_type_directed.rs`, `harnesses.rs` 120-157, `cedar-afl/.../eval-type-directed.rs` | `EvalTrial` | modelled |
| RBAC input and harness | `fuzz_inputs/rbac.rs`, `harnesses.rs` 159-203 | `RbacTrial` | modelled |
| Schema round-trip target | `cedar-afl/.../schema-roundtrip.rs` | `SchemaRoundtrip` | partly: its observability block does not compile |
| Simple parser target | `fuzz/fuzz_targets/simple-parser.rs` | `ParserTrial` | modelled |
| Bolero derived targets | `cedar-bolero/tests/*` | none | not modelled: no state, no record |
| Scenario formatting (`to_tyche`, `get_features`) | the inputs | none | not modelled: pure formatting |
| What every harness promises of its observation file | spec section 6, the observation blocks | `TrialLog` | abstract specification |

The code the harnesses call (the Cedar engines, the Lean engine,
`run_auth_test`, the generators) lives outside `src/`. A call into that code
is modelled as a nondeterministic result: a number of diagnostics, agree or
disagree, an arity error or none. The record's fields `status` and
`status_reason` come from `TycheTest`, which is also outside `src/`. They are
modelled from the spec and marked `spec_modelled` in PROJECT.json.

## Modules

### `AbacTrial`

One process runs the abac-type-directed target trial after trial. The
constant `Driver` selects the driver: `"afl"` unwraps the generation result,
while `"bolero"` drops inputs that fail to generate.

| Variable | Code |
|---|---|
| `pc` | where the process is in a trial |
| `schemaOk` | `ValidatorSchema::try_from` succeeded |
| `status`, `reason`, `valErrs`, `authErrs` | `obs_out.status`, `status_reason`, `features["validation_errors"]`, `total_auth_errors` |
| `reqIdx` | the request-loop index |
| `log` | the observation file |

The ghosts are:

- `sawFault`: an oracle fault seen in this trial;
- `outcomes`: how each finished trial ended;
- the record's fields `ran` and `fault`.

They let the properties relate the file to what the trials did.

| Action | Code |
|---|---|
| `GenerateOk` / `GenerateFail` | `ABACTypeDirectedFuzzTargetInput::arbitrary`, with its early returns |
| `UnwrapInput` | AFL `main`: `input.unwrap()` panics |
| `DiscardInput` | bolero `with_arbitrary` |
| `CheckSchema` | `harnesses.rs` 27-56 |
| `AuthRequest` | one iteration of the loop at 66-86, with its `assert_eq!` |
| `Emit` | 87-117 |
| `DriverDone` | the driver has no more inputs; it is a terminal stutter, so deadlock is still checked |

A panic (a failed assertion or an unwrap) ends the trial with no record.

### `ObsLog`

The observation file is shared by several processes. `writeln!` on an
unbuffered `File` writes one record as several `write` calls: serde_json's
Display writes token by token, and the newline is written separately. The
model cuts a record into `Fragments` writes, and each write is atomic.

- `AppendMode` models `append(true)`.
- `Kill` models the fuzz engine killing a process between two writes.
- `TestName` maps each process to the file it uses.

### `EvalTrial`

The AFL main hands the `Result` of generation to
`test_eval_type_directed`. The model's actions map to the code as follows:

| Action | Code |
|---|---|
| `Arbitrary` | generation, including `drop_some_entities` after the request is drawn (`referenced`, `kept`) |
| `GenerationFailed` | the `else` branch: `gave_up` |
| `RunEval` | `to_tyche()`, then `run_eval_test`, which returns or panics |
| `Emit` | the record |

### `RbacTrial`

The model follows `RBACFuzzTargetInput::arbitrary` step by step:

- `GenGroup`: one call of `arbitrary_for_hierarchy(v.len(), ..)`;
- `GenLink`: one link, with its index taken from the vector's length;
- `EndGroups` / `EndLinks`: `arbitrary_loop` stopping between its minimum and its maximum;
- `GenerationError`: any `?`.

Policy IDs are the strings the code formats, for example `"p" \o DigitStr(pg)`.
A collision is therefore a real string equality, not an artefact of the model.
`ArbIdx(v)` is the index `arbitrary_vec` hands an element, the length of the
vector built so far. The mutant `ArbIdxZero` gives every element the index 0,
and `PolicyIdsUnique` catches it. `PolicyId(k, m)` is the ID of the m-th policy
of the k-th group. The ASSUME `IdFormatsDistinctAssumption` states that
distinct `(k, m)` format to distinct IDs for the bounds in use. TLC evaluates
it on every run of the module; the provers cannot, because they treat string
literals as opaque.

`test_rbac` is modelled as follows:

- `StartHarness` models `Entities::try_from`.
- `AddGroup` models one iteration of the group loop: a static policy, or a template and then its links.
- `AuthRequest` models one request.
- `Emit` models writing the record.

The record holds what `to_tyche` puts in it that the properties read: the
trial and the status, which `test_rbac` never sets. The ghost set
`rejected` collects the trials whose `Entities::try_from` failed. It is not
part of the record, which has no field that says so.

### `ParserTrial`

- `Parse` models reading `FUZZ_TARGET`, which unwraps the variable and panics when it is unset, and `parse_policyset`.
- `CheckErrors` models the `match`: any error sets status `failed`, and the `assert!` panics on an internal-invariant error.
- `Emit` models writing the record to `tyche-out/`.

### `TrialLog`, the abstract specification

`TrialLog` states what a reader of an observation file may rely on,
whatever the target:

- trials end one after another;
- a trial that reaches the end of its harness appends exactly one line, for itself, in the step in which it ends, when `DRT_OBSERVABILITY` is set;
- a trial that is dropped or panics (`Abandon`) writes nothing.

Its variables are `finished`, which records how each trial ended, and
`lines`, which holds the trial and the status of each line.
`AbacTrial`, `EvalTrial`, `RbacTrial` and `ParserTrial` each define a
refinement mapping:

- `finishedBar` maps `outcomes` to completed or abandoned;
- `linesBar` keeps each record's trial and status.

Each module instantiates `TL == INSTANCE TrialLog WITH ...` and checks
`ImplementsTrialLog == TL!Spec` as a PROPERTY. The record write is the
definition `AppendRecord`. Its mutant `OverwriteRecord` truncates the file
to the new record, as `open` without `append(true)` would do for a
sequential process, and the refinement catches it in all four runs.

### `SchemaRoundtrip`

`Generate` models the generation of the schema. It includes
`name.as_ref().unwrap()` on the namespace.

`Check` models the `fuzz_target!` body:

- the `expect` on the conversion to text;
- the `expect` on the reparse;
- the `panic!` when `equivalence_check` fails.

The target's observability block uses `obs_out` and `exec_start_time`. It
never defines either, so the file does not compile as given, and no record
is modelled.

## Runs

The bounds are 3 or 4 trials per process and 2 processes per file. The code
fixes other bounds, and the model keeps them:

- 8 requests per trial;
- 1-2 groups;
- 1-4 links per template.

Three trials are enough to append a record, then crash or drop an input,
then append again. Each trial takes every branch of its harness. More trials
only repeat these shapes.

Runs that must pass:

| Run | What it shows |
|---|---|
| `abac_afl` | `TypeOK`; every record comes from a trial that ran all 8 requests without a fault (`RecordAfterCleanRun`); every record has a terminal status (`RecordStatusDecided`) |
| `obslog_durable` | two processes share a file and one is killed, yet nothing written is ever lost (`DurableAppend`, which rests on `append(true)`) |
| `abac_afl` (also) | the abac harness implements `TrialLog` (`ImplementsTrialLog`) |
| `eval_gen_failure` | a failed eval generation is recorded as `gave_up` with no evaluation (`GenFailureRecorded`). Under the fairness below, with observability on, such a trial is eventually recorded (`GenFailureEventuallyRecorded`). The eval target implements `TrialLog` |
| `rbac_ids` | the formatted policy IDs never collide, for every shape of groups and links (`PolicyIdsUnique`); the RBAC target implements `TrialLog` |
| `parser_log` | with `FUZZ_TARGET` set, the parser target implements `TrialLog` |

For each of these properties, PROJECT.json lists a mutant of the mapped code
that TLC catches.

Runs that are expected to fail. Each one is a finding in PROJECT.json:

| Run | What fails |
|---|---|
| `abac_gen_failure` | the AFL abac driver unwraps a failed generation, so the failure becomes a crash instead of `gave_up` |
| `abac_oracle_after_reject` | the oracles run after the schema has been rejected |
| `abac_fault_unrecorded` | an arity error or a disagreement panics before the record is written, so no record ever says `failed` |
| `obslog_shared_file` | two processes appending to one file tear each other's lines |
| `eval_drop` | the eval input draws the request, then drops entities without seeing it, so a request may name an entity that is gone (`RequestEntitiesKept`, spec section 3) |
| `roundtrip_namespace` | a schema without a namespace aborts the target during generation |
| `rbac_entities_rejected` | when `Entities::try_from` fails, `test_rbac` skips the requests and still writes a record with no status, the same record a trial whose requests ran writes, where the spec (4.2, `SchemaRejected`) asks for `gave_up` (`RbacRejectGivesUp`) |

The following were also seen while modelling. No run is kept for them, and
PROJECT.json lists them as hazards:

- `test_eval_type_directed` and `test_rbac` never set a status on a normal return.
- An I/O error in any observation block panics after the verdict. The trial then leaves no record and is reported as a crash. The models treat the file system as reliable.
- simple-parser aborts on every input when `FUZZ_TARGET` is unset. `ParserRefinement` covers this case: every such trial is abandoned. No property tells this crash from a parser defect without restating the unwrap.
- simple-parser marks ordinary parse errors as `failed`.
- Consider a process that writes to its own file and is killed in the middle of a record. It leaves a line without a newline, and its restarted successor appends the next record to that line. The check is `ObsLog` with a distinct `TestName` per process and `MaxKills = 1`.

## Fairness

Only `GenFailureEventuallyRecorded` is a liveness property. It is checked
under `FairSpec == Spec /\ WF_vars(Harness)`, where `Harness` is
`GenerationFailed \/ RunEval \/ Emit`. These are the steps of
`test_eval_type_directed` once it has been called. The function is
straight-line code with no loop and no wait, so once it is called it runs
on unless it panics, and a panic is a step of `RunEval`.

No fairness is given to `Arbitrary` or `DriverDone`, because the driver may
stop supplying inputs at any time. Without the fairness condition TLC finds
the property violated by stuttering. The other runs check safety only.

## Proofs

`AbacTrial_proofs` proves the following for all values of the constants:

- `TypeCorrect`: `Spec => []TypeOK`;
- `CleanRecords`: `Spec => []RecordAfterCleanRun`;
- `DecidedRecords`: `Spec => []RecordStatusDecided`.

The two record invariants are not inductive as they stand, because `Emit`
copies the state of the running trial into the new record. The inductive
invariant `IInv` strengthens them with two facts:

- no running trial has seen a fault, because a fault ends the trial at once;
- in the request loop, the status is already terminal.

The proof then has three steps. `IInvInit` shows that `IInv` holds
initially. `IInvStep` shows that it is preserved, with one case per action.
A final temporal step concludes the theorems.

`AbacTrial_proofs` also proves `AbacRefinement`: `Spec => ImplementsTrialLog`.
`EvalTrial_proofs` proves the following:

- `EvalTypeCorrect`;
- `GenFailureRecords`, whose inductive invariant `GInv` adds what the running trial holds at `emit` after a failed generation;
- `EvalRefinement`.

Each refinement proof has three steps:

1. `Init` maps to `TL!Init`.
2. Under `RInv`, every step maps to a `TL` step or a stutter. `RInv` is `TypeOK` plus "a running trial still has an input", which `TL`'s guard `Len(finished) < MaxTrials` needs.
3. `PTL` combines the two steps.

The refinement proofs use the lemmas `FinishedAppend` and `LinesAppend`.
Each lemma states what one appended outcome or record does to the mapped
sequence.

`TrialLog_proofs` proves `LinesMatch`: every line names a completed trial,
the lines follow the order of the trials, and with observability on every
completed trial has a line. With the refinement theorems, this holds of the
files of all four harnesses.

`ParserTrial_proofs` proves `ParserRefinement`. This proof needs no
hypothesis on `FUZZ_TARGET`: a panic while reading it abandons the trial,
and that is `TL!Abandon`.

`RbacTrial_proofs` proves the following:

- `IdsUnique`: `Spec => []PolicyIdsUnique`;
- `RbacRefinement`.

`PolicyIdsUnique` is not inductive as it stands. Its inductive invariant
`IInv` adds several facts:

- `GroupsInv`: the k-th generated group holds exactly `PolicyId(k, 1..)`, which is how `arbitrary_vec` indexes it;
- `LinksInv`: the group under construction is shaped the same way for index `Len(groups) + 1`;
- `RunInv`: the policy set holds only IDs of the groups added so far, namely `1..gi`;
- `DriverInv`: a trial runs only while the driver has an input for it.

From these facts, uniqueness follows from `IdInjective`. That lemma rests on
`IdFormatsDistinctAssumption`. The theorem therefore holds for every number
of groups, links and trials for which the formatted IDs are distinct, and TLC
checks that condition on the instance it runs. Each action has its own
step lemma, and `Frame` covers the variables an action leaves alone.

`ObsLog_proofs` proves `Durable`: `Spec => []DurableAppend`. The proof holds
for any processes, any mapping of them to file names, and any numbers of
fragments, records and kills. The inductive invariant adds two facts to
`DurableAppend`:

- `TypeOK`;
- a writing process has opened a record, so the fragment it writes is in `Frag`.

Under `append(true)`, `WritePos` is one past the end of the file, so `Put` is
`Append`. `WriteStep` shows that every earlier fragment keeps its position and
that the new fragment is at the new end.

The following are only model-checked:

- the liveness property `GenFailureEventuallyRecorded`, because TLAPS does not reason about fairness or ENABLED;
- `IdFormatsDistinctAssumption`, which is about the text `format!` produces;
- every violation run, including `RecordsReadable`. That property fails, so there is nothing to prove.

## Plan

In order:

1. An I/O failure step in the observation blocks.
2. The bolero copy of the abac harness as a driver of its own.
3. A refinement of `ObsLog` onto a per-file abstract log of whole records, under exclusive writers.
