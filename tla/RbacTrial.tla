----------------------------- MODULE RbacTrial -----------------------------
(***************************************************************************)
(* One process running the RBAC target, trial after trial: the Arbitrary   *)
(* impl of RBACFuzzTargetInput (fuzz_inputs/rbac.rs) builds a hierarchy,   *)
(* 1 to 2 policy groups and 8 requests; harnesses::test_rbac converts the  *)
(* hierarchy to entities, adds every group to one policy set, runs the 8   *)
(* requests through run_auth_test and appends the record.                 *)
(*                                                                         *)
(* Policy IDs are the strings the code formats: "p<group>" for the policy  *)
(* of a group, "t<group>_l<link>" for each link of a template.  The driver *)
(* that calls test_rbac is not in this repository; an input that fails to  *)
(* generate is dropped, as the fuzz_target! and bolero drivers do.         *)
(***************************************************************************)
EXTENDS Naturals, Sequences

CONSTANTS
    ObsEnabled,  \* the DRT_OBSERVABILITY environment variable is set
    MaxTrials    \* inputs the driver supplies before the model stops

ASSUME RbacObsAssumption == ObsEnabled \in BOOLEAN
ASSUME RbacMaxTrialsAssumption == MaxTrials \in Nat

\* requests: [RBACRequest; 8]
NumRequests == 8

\* arbitrary_vec(u, Some(1), Some(2), ...) for the groups and
\* arbitrary_vec(u, Some(1), Some(4), ...) for the links of a template.
MinGroups == 1
MaxGroups == 2
MinLinks == 1
MaxLinks == 4

\* format!("{}", n) for the one-digit indices used here.
DigitStr(n) == <<"0", "1", "2", "3", "4", "5", "6", "7", "8", "9">>[n + 1]

\* format!("p{}", pg_idx)
PolicyIdStr(pg) == "p" \o DigitStr(pg)

\* format!("t{}_l{}", pg_idx, l_idx)
LinkIdStr(pg, l) == "t" \o DigitStr(pg) \o "_l" \o DigitStr(l)

\* Mutant: arbitrary_vec hands every element the index 0.
ArbIdxZero(v) == 0

\* arbitrary_vec calls f(v.len(), u): each element gets the length of the
\* vector built so far as its index.
ArbIdx(v) == Len(v)

\* The m-th policy a group adds, for the group of index k - 1: its own
\* policy p<k-1>, then the links t<k-1>_l0, t<k-1>_l1, ... of a template.
PolicyId(k, m) == IF m = 1 THEN PolicyIdStr(k - 1) ELSE LinkIdStr(k - 1, m - 2)

\* rbac.rs formats the IDs of different groups, and of different links of
\* one template, into different strings, over every index arbitrary_vec
\* can draw (at most 2 groups, at most 4 links).  PolicyIdsUnique rests on
\* this and on each group using its own index.
IdFormatsDistinct ==
    \A k1, k2 \in 1..MaxGroups, m1, m2 \in 1..MaxLinks + 1 :
        PolicyId(k1, m1) = PolicyId(k2, m2) => k1 = k2 /\ m1 = m2

\* Checked by TLC on every run of this module; the provers treat string
\* literals as opaque and cannot evaluate format!.
ASSUME IdFormatsDistinctAssumption == IdFormatsDistinct


NoStatus == "none"
TerminalStatus == {"passed", "failed", "gave_up"}

Record == [trial : Nat, status : TerminalStatus \cup {NoStatus}]

VARIABLES
    pc,          \* where the process is in the trial
    groups,      \* policy_groups so far, each as the IDs it adds
    cur,         \* the template group whose links are being generated
    entitiesOk,  \* Entities::try_from(hierarchy) succeeded
    gi,          \* groups of the input already added to the policy set
    policyset,   \* IDs of the policies added so far, in order
    reqIdx,      \* requests already run
    status,      \* obs_out.status
    log,         \* the observation file
    outcomes,    \* ghost: how each finished trial ended
    rejected     \* ghost: the trials whose Entities::try_from failed

vars == <<pc, groups, cur, entitiesOk, gi, policyset, reqIdx, status,
          log, outcomes, rejected>>

trial == Len(outcomes) + 1

TypeOK ==
    /\ pc \in {"generate", "groups", "links", "requests", "harness", "run", "emit"}
    /\ groups \in Seq(Seq(STRING))
    /\ cur \in Seq(STRING)
    /\ entitiesOk \in BOOLEAN
    /\ gi \in Nat
    /\ policyset \in Seq(STRING)
    /\ reqIdx \in 0..NumRequests
    /\ status \in TerminalStatus \cup {NoStatus}
    /\ log \in Seq(Record)
    /\ outcomes \in Seq({"completed", "gen_skip", "fault"})
    /\ rejected \subseteq Nat

Init ==
    /\ pc = "generate"
    /\ groups = << >>
    /\ cur = << >>
    /\ entitiesOk = FALSE
    /\ gi = 0
    /\ policyset = << >>
    /\ reqIdx = 0
    /\ status = NoStatus
    /\ log = << >>
    /\ outcomes = << >>
    /\ rejected = {}

EndTrial(how) ==
    /\ outcomes' = Append(outcomes, how)
    /\ pc' = "generate"

-----------------------------------------------------------------------------
(* RBACFuzzTargetInput::arbitrary                                          *)

\* The hierarchy is generated; the groups follow.
GenHierarchy ==
    /\ pc = "generate"
    /\ Len(outcomes) < MaxTrials
    /\ pc' = "groups"
    /\ groups' = << >>
    /\ UNCHANGED <<cur, entitiesOk, gi, policyset, reqIdx, status, log,
                  outcomes, rejected>>

\* PolicyGroup::arbitrary_for_hierarchy(v.len(), ...): the policy gets ID
\* p<idx>; a policy with slots becomes a template whose links follow, any
\* other a static policy.
GenGroup ==
    /\ pc = "groups"
    /\ Len(groups) < MaxGroups
    /\ \E hasSlots \in BOOLEAN :
          IF hasSlots
            THEN /\ cur' = << PolicyIdStr(ArbIdx(groups)) >>
                 /\ pc' = "links"
                 /\ UNCHANGED groups
            ELSE /\ groups' = Append(groups, << PolicyIdStr(ArbIdx(groups)) >>)
                 /\ UNCHANGED <<cur, pc>>
    /\ UNCHANGED <<entitiesOk, gi, policyset, reqIdx, status, log, outcomes,
                  rejected>>

\* arbitrary_loop stops drawing groups once the minimum is reached.
EndGroups ==
    /\ pc = "groups"
    /\ Len(groups) >= MinGroups
    /\ pc' = "requests"
    /\ UNCHANGED <<groups, cur, entitiesOk, gi, policyset, reqIdx, status,
                  log, outcomes, rejected>>

\* GeneratedLinkedPolicy::arbitrary with ID t<pg_idx>_l<v.len()>.
GenLink ==
    /\ pc = "links"
    /\ Len(cur) - 1 < MaxLinks
    /\ cur' = Append(cur, LinkIdStr(ArbIdx(groups), ArbIdx(Tail(cur))))
    /\ UNCHANGED <<pc, groups, entitiesOk, gi, policyset, reqIdx, status,
                  log, outcomes, rejected>>

\* The links loop stops; TemplateWithLinks is pushed onto the groups.
EndLinks ==
    /\ pc = "links"
    /\ Len(cur) - 1 >= MinLinks
    /\ groups' = Append(groups, cur)
    /\ pc' = "groups"
    /\ UNCHANGED <<cur, entitiesOk, gi, policyset, reqIdx, status, log,
                  outcomes, rejected>>

\* The 8 requests are drawn; the input is complete.
GenRequests ==
    /\ pc = "requests"
    /\ pc' = "harness"
    /\ UNCHANGED <<groups, cur, entitiesOk, gi, policyset, reqIdx, status,
                  log, outcomes, rejected>>

\* Any draw returns early with an error when the bytes run out; the driver
\* drops the input.
GenerationError ==
    /\ \/ pc \in {"groups", "links", "requests"}
       \/ pc = "generate" /\ Len(outcomes) < MaxTrials
    /\ EndTrial("gen_skip")
    /\ UNCHANGED <<groups, cur, entitiesOk, gi, policyset, reqIdx, status,
                  log, rejected>>

-----------------------------------------------------------------------------
(* harnesses::test_rbac                                                    *)

\* obs_out = input.to_tyche(), which sets no status; then
\* Entities::try_from(hierarchy).  When it fails the requests are skipped.
StartHarness ==
    /\ pc = "harness"
    /\ status' = NoStatus
    /\ policyset' = << >>
    /\ gi' = 0
    /\ reqIdx' = 0
    /\ \/ /\ entitiesOk' = TRUE
          /\ pc' = "run"
          /\ UNCHANGED rejected
       \/ /\ entitiesOk' = FALSE
          /\ pc' = "emit"
          /\ rejected' = rejected \cup {trial}
    /\ UNCHANGED <<groups, cur, log, outcomes>>

\* One iteration of the loop over policy_groups: a static policy is added,
\* or a template and then each of its links.
AddGroup ==
    /\ pc = "run"
    /\ gi < Len(groups)
    /\ policyset' = policyset \o groups[gi + 1]
    /\ gi' = gi + 1
    /\ UNCHANGED <<pc, groups, cur, entitiesOk, reqIdx, status, log,
                  outcomes, rejected>>

\* One request through run_auth_test, which panics when the engines
\* disagree.
AuthRequest ==
    /\ pc = "run"
    /\ gi = Len(groups)
    /\ reqIdx < NumRequests
    /\ \E agree \in BOOLEAN :
          \/ /\ agree
             /\ reqIdx' = reqIdx + 1
             /\ UNCHANGED <<pc, outcomes>>
          \/ /\ ~agree
             /\ EndTrial("fault")
             /\ UNCHANGED reqIdx
    /\ UNCHANGED <<groups, cur, entitiesOk, gi, policyset, status, log,
                  rejected>>

ObsRecord == [trial |-> trial, status |-> status]

\* Mutant: the file is opened without append(true), so each record is
\* written from offset 0 over the first line.
OverwriteRecord == log' = IF ObsEnabled THEN << ObsRecord >> ELSE log

\* When DRT_OBSERVABILITY is set: open <test>_testcases.jsonl with
\* create(true).append(true) and writeln! the record.
AppendRecord == log' = IF ObsEnabled THEN Append(log, ObsRecord) ELSE log

\* After the loop, or when the entities did not convert, the record is
\* appended when DRT_OBSERVABILITY is set.
Emit ==
    /\ \/ pc = "emit"
       \/ pc = "run" /\ reqIdx = NumRequests
    /\ AppendRecord
    /\ EndTrial("completed")
    /\ UNCHANGED <<groups, cur, entitiesOk, gi, policyset, reqIdx, status,
                  rejected>>

\* The driver has supplied its last input.
DriverDone ==
    /\ pc = "generate"
    /\ Len(outcomes) = MaxTrials
    /\ UNCHANGED vars

Next ==
    \/ GenHierarchy \/ GenGroup \/ EndGroups \/ GenLink \/ EndLinks
    \/ GenRequests \/ GenerationError
    \/ StartHarness \/ AddGroup \/ AuthRequest \/ Emit
    \/ DriverDone

Spec == Init /\ [][Next]_vars

-----------------------------------------------------------------------------
(* Properties.                                                             *)

\* Spec 3: policy identifiers within one scenario are unique.  The policy
\* set test_rbac builds never holds two policies with one ID, whatever the
\* number of groups, templates and links arbitrary_vec draws: the IDs
\* formatted from the group and link indices never collide.
PolicyIdsUnique ==
    \A i, j \in 1..Len(policyset) : i # j => policyset[i] # policyset[j]

\* Spec 4.2 and 7 (SchemaRejected): a scenario that fails to convert into
\* the oracle's representation is skipped and recorded as gave_up.  When
\* Entities::try_from(hierarchy) fails, test_rbac skips the policy set and
\* the requests and still writes obs_out; that record must say gave_up,
\* not look like the record of a trial whose 8 requests ran.
RbacRejectGivesUp ==
    \A i \in 1..Len(log) : log[i].trial \in rejected => log[i].status = "gave_up"

\* The abstract trial log: a finished trial is completed when it ended
\* normally and abandoned otherwise; a line keeps its trial and status.
finishedBar ==
    [t \in 1..Len(outcomes) |->
        IF outcomes[t] = "completed" THEN "completed" ELSE "abandoned"]

linesBar == [i \in 1..Len(log) |-> [trial |-> log[i].trial, status |-> log[i].status]]

TL == INSTANCE TrialLog WITH finished <- finishedBar, lines <- linesBar

\* The RBAC harness implements the abstract trial log: one record per
\* trial that returns from test_rbac, whether or not its entities
\* converted, appended as the trial ends; a disagreement of
\* run_auth_test or an input that fails to generate writes nothing.
ImplementsTrialLog == TL!Spec


=============================================================================
