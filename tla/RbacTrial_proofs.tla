-------------------------- MODULE RbacTrial_proofs --------------------------
(***************************************************************************)
(* Proofs about RbacTrial for every number of trials: policy IDs are      *)
(* unique in every policy set test_rbac builds, and the RBAC target       *)
(* implements the abstract trial log.                                     *)
(***************************************************************************)
EXTENDS RbacTrial, TLAPS

\* The IDs a scenario can hold.  The model's TypeOK says Seq(STRING); the
\* provers cannot show that a format! result is a STRING, so the proofs
\* use this set, which is all PolicyIdsUnique needs.
IdSet == {PolicyId(k, m) : k \in 1..MaxGroups, m \in 1..MaxLinks + 1}

PTypeOK ==
    /\ pc \in {"generate", "groups", "links", "requests", "harness", "run", "emit"}
    /\ groups \in Seq(Seq(IdSet))
    /\ cur \in Seq(IdSet)
    /\ entitiesOk \in BOOLEAN
    /\ gi \in Nat
    /\ policyset \in Seq(IdSet)
    /\ reqIdx \in 0..NumRequests
    /\ status \in TerminalStatus \cup {NoStatus}
    /\ log \in Seq(Record)
    /\ outcomes \in Seq({"completed", "gen_skip", "fault"})

\* Group k of the input holds the IDs of index k - 1: its own policy, then
\* its links in order, at most MaxLinks of them.
GroupShaped(g, k) ==
    /\ Len(g) \in 1..MaxLinks + 1
    /\ \A m \in 1..Len(g) : g[m] = PolicyId(k, m)

\* The groups generated so far, each with its own index.
GroupsInv ==
    /\ Len(groups) <= MaxGroups
    /\ \A k \in 1..Len(groups) : GroupShaped(groups[k], k)

\* The template whose links are being drawn is the next group.
LinksInv == pc = "links" => Len(groups) < MaxGroups /\ GroupShaped(cur, Len(groups) + 1)

\* In the harness loop the policy set holds IDs of the groups before gi.
RunInv ==
    pc = "run" =>
        /\ entitiesOk
        /\ gi <= Len(groups)
        /\ \A i \in 1..Len(policyset) :
              \E k \in 1..gi, m \in 1..MaxLinks + 1 : policyset[i] = PolicyId(k, m)

\* A trial is only running while the driver has an input for it.
DriverInv == pc # "generate" => Len(outcomes) < MaxTrials

\* PolicyIdsUnique is not inductive: AddGroup appends a whole group, and
\* its IDs are new only because every group carries its own index and the
\* policy set holds exactly IDs of the groups before gi.
IInv ==
    /\ PTypeOK
    /\ GroupsInv
    /\ LinksInv
    /\ RunInv
    /\ DriverInv
    /\ PolicyIdsUnique

LEMMA IInvInit == Init => IInv
<1> SUFFICES ASSUME Init PROVE IInv
    OBVIOUS
<1>1. PTypeOK
    <2>1. entitiesOk \in BOOLEAN
        BY Zenon DEF Init
    <2>2. << >> \in Seq(IdSet) /\ << >> \in Seq(Seq(IdSet))
        OBVIOUS
    <2>3. QED
        BY <2>1, <2>2 DEF Init, PTypeOK, NumRequests, NoStatus, TerminalStatus
<1>2. PolicyIdsUnique
    BY DEF Init, PolicyIdsUnique
<1>3. QED
    BY <1>1, <1>2 DEF Init, IInv, GroupsInv, LinksInv, RunInv, DriverInv,
                      MaxGroups

\* The conjuncts that only read variables an action leaves alone.
LEMMA Frame ==
    ASSUME IInv, UNCHANGED <<groups, cur, policyset, gi, log, entitiesOk>>
    PROVE  /\ GroupsInv'
           /\ PolicyIdsUnique'
BY DEF IInv, GroupsInv, PolicyIdsUnique

LEMMA GenHierarchyStep == IInv /\ GenHierarchy => IInv'
<1> SUFFICES ASSUME IInv, GenHierarchy PROVE IInv'
    OBVIOUS
<1>1. PTypeOK'
    BY DEF IInv, PTypeOK, GenHierarchy
<1>2. GroupsInv'
    BY DEF GenHierarchy, GroupsInv, MaxGroups
<1>3. PolicyIdsUnique'
    BY DEF IInv, GenHierarchy, PolicyIdsUnique
<1>4. QED
    BY <1>1, <1>2, <1>3 DEF IInv, GenHierarchy, LinksInv, RunInv, DriverInv

LEMMA EndGroupsStep == IInv /\ EndGroups => IInv'
<1> SUFFICES ASSUME IInv, EndGroups PROVE IInv'
    OBVIOUS
<1>1. PTypeOK'
    BY DEF IInv, PTypeOK, EndGroups
<1>2. QED
    BY <1>1, Frame DEF IInv, EndGroups, LinksInv, RunInv, DriverInv

LEMMA GenRequestsStep == IInv /\ GenRequests => IInv'
<1> SUFFICES ASSUME IInv, GenRequests PROVE IInv'
    OBVIOUS
<1>1. PTypeOK'
    BY DEF IInv, PTypeOK, GenRequests
<1>2. QED
    BY <1>1, Frame DEF IInv, GenRequests, LinksInv, RunInv, DriverInv

LEMMA GenerationErrorStep == IInv /\ GenerationError => IInv'
<1> SUFFICES ASSUME IInv, GenerationError PROVE IInv'
    OBVIOUS
<1>1. PTypeOK'
    BY DEF IInv, PTypeOK, GenerationError, EndTrial
<1>2. QED
    BY <1>1, Frame DEF IInv, GenerationError, EndTrial, LinksInv, RunInv,
                       DriverInv

LEMMA DriverDoneStep == IInv /\ (DriverDone \/ UNCHANGED vars) => IInv'
<1> SUFFICES ASSUME IInv, DriverDone \/ UNCHANGED vars PROVE IInv'
    OBVIOUS
<1>1. UNCHANGED vars
    BY DEF DriverDone
<1>2. QED
    BY <1>1, Frame DEF vars, IInv, PTypeOK, LinksInv, RunInv, DriverInv

\* What a concatenated sequence holds, cited where the policy set grows.
LEMMA ConcatAt ==
    ASSUME NEW S, NEW s \in Seq(S), NEW t \in Seq(S)
    PROVE  /\ s \o t \in Seq(S)
           /\ Len(s \o t) = Len(s) + Len(t)
           /\ \A i \in 1..Len(s) + Len(t) :
                 (s \o t)[i] = IF i <= Len(s) THEN s[i] ELSE t[i - Len(s)]
OBVIOUS

\* A group index and a position within the bounds name an ID of IdSet.
LEMMA PolicyIdInIdSet ==
    ASSUME NEW k \in 1..MaxGroups, NEW m \in 1..MaxLinks + 1
    PROVE  PolicyId(k, m) \in IdSet
BY DEF IdSet

LEMMA GenGroupStep == IInv /\ GenGroup => IInv'
<1> SUFFICES ASSUME IInv, GenGroup PROVE IInv'
    OBVIOUS
<1>1. Len(groups) < MaxGroups /\ pc = "groups" /\ Len(groups) \in Nat
    BY DEF GenGroup, IInv, PTypeOK
<1>2. /\ PolicyIdStr(ArbIdx(groups)) = PolicyId(Len(groups) + 1, 1)
      /\ PolicyId(Len(groups) + 1, 1) \in IdSet
    <2>1. Len(groups) + 1 \in 1..MaxGroups /\ 1 \in 1..MaxLinks + 1
        BY <1>1 DEF MaxGroups, MaxLinks
    <2>2. QED
        BY <2>1, PolicyIdInIdSet DEF ArbIdx, PolicyId
<1>3. UNCHANGED <<entitiesOk, gi, policyset, reqIdx, status, log, outcomes>>
    BY DEF GenGroup
<1>4. CASE cur' = << PolicyIdStr(ArbIdx(groups)) >> /\ pc' = "links" /\ UNCHANGED groups
    <2>1. GroupShaped(cur', Len(groups) + 1) /\ cur' \in Seq(IdSet)
        BY <1>2, <1>4 DEF GroupShaped, MaxLinks
    <2>2. PTypeOK'
        BY <1>3, <1>4, <2>1 DEF IInv, PTypeOK
    <2>3. QED
        BY <1>1, <1>3, <1>4, <2>1, <2>2
           DEF IInv, GroupsInv, LinksInv, RunInv, DriverInv, PolicyIdsUnique,
               GroupShaped
<1>5. CASE groups' = Append(groups, << PolicyIdStr(ArbIdx(groups)) >>) /\ UNCHANGED <<cur, pc>>
    <2>1. /\ << PolicyId(Len(groups) + 1, 1) >> \in Seq(IdSet)
          /\ GroupShaped(<< PolicyId(Len(groups) + 1, 1) >>, Len(groups) + 1)
        BY <1>2 DEF GroupShaped, MaxLinks
    <2>2. /\ groups' \in Seq(Seq(IdSet))
          /\ Len(groups') = Len(groups) + 1
          /\ groups'[Len(groups) + 1] = << PolicyId(Len(groups) + 1, 1) >>
          /\ \A k \in 1..Len(groups) : groups'[k] = groups[k]
        BY <1>2, <1>5, <2>1 DEF IInv, PTypeOK
    <2>3. \A k \in 1..Len(groups') : GroupShaped(groups'[k], k)
        <3> SUFFICES ASSUME NEW k \in 1..Len(groups') PROVE GroupShaped(groups'[k], k)
            OBVIOUS
        <3>1. CASE k \in 1..Len(groups)
            BY <2>2, <3>1 DEF IInv, GroupsInv
        <3>2. CASE k = Len(groups) + 1
            BY <2>1, <2>2, <3>2
        <3>3. QED
            BY <1>1, <2>2, <3>1, <3>2
    <2>4. GroupsInv'
        <3>1. Len(groups') <= MaxGroups
            BY <1>1, <2>2 DEF MaxGroups
        <3>2. QED
            BY <2>3, <3>1 DEF GroupsInv
    <2>5. PTypeOK'
        BY <1>3, <1>5, <2>2 DEF IInv, PTypeOK
    <2>6. QED
        BY <1>1, <1>3, <1>5, <2>4, <2>5
           DEF IInv, LinksInv, RunInv, DriverInv, PolicyIdsUnique
<1>6. QED
    BY <1>4, <1>5 DEF GenGroup

LEMMA GenLinkStep == IInv /\ GenLink => IInv'
<1> SUFFICES ASSUME IInv, GenLink PROVE IInv'
    OBVIOUS
<1>1. /\ pc = "links" /\ Len(cur) - 1 < MaxLinks
      /\ Len(groups) < MaxGroups /\ GroupShaped(cur, Len(groups) + 1)
      /\ cur \in Seq(IdSet) /\ Len(groups) \in Nat
    BY DEF GenLink, IInv, LinksInv, PTypeOK
<1>2. Len(cur) \in 1..MaxLinks
    <2>1. Len(cur) \in 1..MaxLinks + 1
        BY <1>1 DEF GroupShaped
    <2>2. Len(cur) - 1 < MaxLinks
        BY <1>1
    <2>3. \A n \in Nat : n \in 1..MaxLinks + 1 /\ n - 1 < MaxLinks
                          => n \in 1..MaxLinks
        BY DEF MaxLinks
    <2>4. Len(cur) \in Nat
        BY <1>1
    <2>5. QED
        BY <2>1, <2>2, <2>3, <2>4
<1>3. ArbIdx(Tail(cur)) = Len(cur) - 1
    BY <1>1, <1>2 DEF ArbIdx
<1>4. LinkIdStr(ArbIdx(groups), ArbIdx(Tail(cur))) = PolicyId(Len(groups) + 1, Len(cur) + 1)
    BY <1>2, <1>3 DEF ArbIdx, PolicyId
<1>5. PolicyId(Len(groups) + 1, Len(cur) + 1) \in IdSet
    <2>1. Len(groups) + 1 \in 1..MaxGroups /\ Len(cur) + 1 \in 1..MaxLinks + 1
        BY <1>1, <1>2 DEF MaxGroups, MaxLinks
    <2>2. QED
        BY <2>1, PolicyIdInIdSet
<1>6. cur' = Append(cur, PolicyId(Len(groups) + 1, Len(cur) + 1))
    BY <1>4 DEF GenLink
<1>7. cur' \in Seq(IdSet) /\ GroupShaped(cur', Len(groups) + 1)
    <2>1. Len(cur') = Len(cur) + 1 /\ Len(cur') \in 1..MaxLinks + 1
        BY <1>1, <1>2, <1>5, <1>6 DEF MaxLinks
    <2>2. \A m \in 1..Len(cur') : cur'[m] = PolicyId(Len(groups) + 1, m)
        BY <1>1, <1>5, <1>6, <2>1 DEF GroupShaped
    <2>3. QED
        BY <1>1, <1>5, <1>6, <2>1, <2>2 DEF GroupShaped
<1>8. UNCHANGED <<pc, groups, entitiesOk, gi, policyset, reqIdx, status, log, outcomes>>
    BY DEF GenLink
<1>9. PTypeOK'
    BY <1>7, <1>8 DEF IInv, PTypeOK
<1>10. LinksInv'
    BY <1>1, <1>7, <1>8 DEF LinksInv
<1>11. QED
    BY <1>8, <1>9, <1>10, Frame
       DEF IInv, GroupsInv, PolicyIdsUnique, RunInv,
           DriverInv

LEMMA EndLinksStep == IInv /\ EndLinks => IInv'
<1> SUFFICES ASSUME IInv, EndLinks PROVE IInv'
    OBVIOUS
<1>1. /\ pc = "links"
      /\ Len(groups) < MaxGroups /\ GroupShaped(cur, Len(groups) + 1)
      /\ cur \in Seq(IdSet) /\ groups \in Seq(Seq(IdSet))
    BY DEF EndLinks, IInv, LinksInv, PTypeOK
<1>2. /\ groups' \in Seq(Seq(IdSet))
      /\ Len(groups') = Len(groups) + 1
      /\ groups'[Len(groups) + 1] = cur
      /\ \A k \in 1..Len(groups) : groups'[k] = groups[k]
    BY <1>1 DEF EndLinks
<1>3. \A k \in 1..Len(groups') : GroupShaped(groups'[k], k)
    <2> SUFFICES ASSUME NEW k \in 1..Len(groups') PROVE GroupShaped(groups'[k], k)
        OBVIOUS
    <2>1. CASE k \in 1..Len(groups)
        BY <1>2, <2>1 DEF IInv, GroupsInv
    <2>2. CASE k = Len(groups) + 1
        BY <1>1, <1>2, <2>2
    <2>3. QED
        BY <1>2, <2>1, <2>2
<1>4. GroupsInv'
    <2>1. Len(groups') <= MaxGroups
        BY <1>1, <1>2 DEF MaxGroups
    <2>2. QED
        BY <1>3, <2>1 DEF GroupsInv
<1>5. UNCHANGED <<cur, entitiesOk, gi, policyset, reqIdx, status, log, outcomes>> /\ pc' = "groups"
    BY DEF EndLinks
<1>6. PTypeOK'
    BY <1>2, <1>5 DEF IInv, PTypeOK
<1>7. PolicyIdsUnique'
    BY <1>5 DEF IInv, PolicyIdsUnique
<1>8. DriverInv'
    BY <1>1, <1>5 DEF IInv, DriverInv
<1>9. QED
    BY <1>4, <1>5, <1>6, <1>7, <1>8 DEF IInv, LinksInv, RunInv

LEMMA StartHarnessStep == IInv /\ StartHarness => IInv'
<1> SUFFICES ASSUME IInv, StartHarness PROVE IInv'
    OBVIOUS
<1>1. /\ pc = "harness" /\ policyset' = << >> /\ gi' = 0 /\ reqIdx' = 0
      /\ status' = NoStatus
      /\ UNCHANGED <<groups, cur, log, outcomes>>
      /\ \/ entitiesOk' = TRUE /\ pc' = "run"
         \/ entitiesOk' = FALSE /\ pc' = "emit"
    BY DEF StartHarness
<1>2. entitiesOk' \in BOOLEAN
    BY <1>1, Zenon
<1>3. PTypeOK'
    BY <1>1, <1>2 DEF IInv, PTypeOK, NumRequests, NoStatus, TerminalStatus
<1>4. RunInv' /\ LinksInv'
    BY <1>1 DEF RunInv, LinksInv
<1>5. GroupsInv' /\ DriverInv' /\ PolicyIdsUnique'
    BY <1>1 DEF IInv, GroupsInv, DriverInv, PolicyIdsUnique
<1>6. QED
    BY <1>3, <1>4, <1>5 DEF IInv

LEMMA AuthRequestStep == IInv /\ AuthRequest => IInv'
<1> SUFFICES ASSUME IInv, AuthRequest PROVE IInv'
    OBVIOUS
<1>1. /\ pc = "run" /\ reqIdx < NumRequests
      /\ UNCHANGED <<groups, cur, entitiesOk, gi, policyset, status, log>>
    BY DEF AuthRequest
<1>2. CASE reqIdx' = reqIdx + 1 /\ UNCHANGED <<pc, outcomes>>
    <2>1. PTypeOK'
        BY <1>1, <1>2 DEF IInv, PTypeOK, NumRequests
    <2>2. QED
        BY <1>1, <1>2, <2>1, Frame DEF IInv, LinksInv, RunInv, DriverInv
<1>3. CASE EndTrial("fault") /\ UNCHANGED reqIdx
    <2>1. PTypeOK'
        BY <1>1, <1>3 DEF IInv, PTypeOK, EndTrial
    <2>2. QED
        BY <1>1, <1>3, <2>1, Frame DEF IInv, EndTrial, LinksInv, RunInv,
                                        DriverInv
<1>4. QED
    BY <1>2, <1>3 DEF AuthRequest

LEMMA EmitStep == IInv /\ Emit => IInv'
<1> SUFFICES ASSUME IInv, Emit PROVE IInv'
    OBVIOUS
<1>1. /\ pc' = "generate" /\ outcomes' = Append(outcomes, "completed")
      /\ UNCHANGED <<groups, cur, entitiesOk, gi, policyset, reqIdx, status>>
      /\ log' = IF ObsEnabled THEN Append(log, ObsRecord) ELSE log
    BY DEF Emit, EndTrial, AppendRecord
<1>3. ObsRecord \in Record
    BY DEF IInv, PTypeOK, ObsRecord, Record, trial, NumRequests
<1>4. CASE ObsEnabled
    <2>1. log' = Append(log, ObsRecord)
        BY <1>1, <1>4
    <2>2. /\ log' \in Seq(Record)
          /\ Len(log') = Len(log) + 1
          /\ \A i \in 1..Len(log) : log'[i] = log[i]
          /\ log'[Len(log) + 1] = ObsRecord
        BY <1>3, <2>1 DEF IInv, PTypeOK
    <2>4. PTypeOK'
        BY <1>1, <2>2 DEF IInv, PTypeOK
    <2>5. QED
        BY <1>1, <2>4 DEF IInv, GroupsInv, LinksInv, RunInv, DriverInv,
                                PolicyIdsUnique
<1>5. CASE ~ObsEnabled
    <2>1. PTypeOK'
        BY <1>1, <1>5 DEF IInv, PTypeOK
    <2>2. QED
        BY <1>1, <1>5, <2>1, Frame DEF IInv, LinksInv, RunInv, DriverInv
<1>6. QED
    BY <1>4, <1>5

\* Different group indices, or different positions in one group, give
\* different IDs: the formatting fact TLC checks as an assumption.
LEMMA IdInjective ==
    ASSUME NEW k1 \in 1..MaxGroups, NEW k2 \in 1..MaxGroups,
           NEW m1 \in 1..MaxLinks + 1, NEW m2 \in 1..MaxLinks + 1,
           PolicyId(k1, m1) = PolicyId(k2, m2)
    PROVE  k1 = k2 /\ m1 = m2
BY IdFormatsDistinctAssumption DEF IdFormatsDistinct

\* The step that matters for PolicyIdsUnique: adding group gi + 1 appends
\* IDs of index gi, none of which the policy set holds yet.
LEMMA AddGroupStep == IInv /\ AddGroup => IInv'
<1> SUFFICES ASSUME IInv, AddGroup PROVE IInv'
    OBVIOUS
<1>1. pc = "run" /\ gi < Len(groups)
    BY DEF AddGroup
<1>0. /\ policyset' = policyset \o groups[gi + 1]
      /\ gi' = gi + 1
      /\ UNCHANGED <<pc, groups, cur, entitiesOk, reqIdx, status, log, outcomes>>
    BY DEF AddGroup
<1>2. /\ gi \in Nat
      /\ gi + 1 \in 1..Len(groups)
      /\ gi + 1 \in 1..MaxGroups
    <2>1. gi \in Nat /\ Len(groups) <= MaxGroups /\ Len(groups) \in Nat
        BY DEF IInv, PTypeOK, GroupsInv
    <2>2. QED
        BY <1>1, <2>1 DEF MaxGroups
<1>16. entitiesOk
    BY <1>1, Zenon DEF IInv, RunInv
<1>12. policyset \in Seq(IdSet) /\ groups[gi + 1] \in Seq(IdSet)
    BY <1>2 DEF IInv, PTypeOK
<1>13. GroupShaped(groups[gi + 1], gi + 1)
    BY <1>2 DEF IInv, GroupsInv
<1>14. \A i \in 1..Len(policyset) :
          \E k \in 1..gi, m \in 1..MaxLinks + 1 : policyset[i] = PolicyId(k, m)
    BY <1>1 DEF IInv, RunInv
<1>3. /\ policyset' \in Seq(IdSet)
      /\ Len(policyset') = Len(policyset) + Len(groups[gi + 1])
      /\ \A i \in 1..Len(policyset') :
            policyset'[i] = IF i <= Len(policyset) THEN policyset[i]
                            ELSE groups[gi + 1][i - Len(policyset)]
    BY <1>0, <1>12, ConcatAt
<1>4. Len(groups[gi + 1]) \in 1..MaxLinks + 1
    BY <1>13 DEF GroupShaped
<1>17. \A m \in 1..Len(groups[gi + 1]) : groups[gi + 1][m] = PolicyId(gi + 1, m)
    BY <1>13 DEF GroupShaped
<1>15. Len(policyset) \in Nat /\ Len(groups[gi + 1]) \in Nat
    BY <1>12
\* Where an entry of the new policy set comes from.
<1>5. ASSUME NEW i \in 1..Len(policyset'), i > Len(policyset)
      PROVE  /\ i - Len(policyset) \in 1..MaxLinks + 1
             /\ policyset'[i] = PolicyId(gi + 1, i - Len(policyset))
    <2>1. i - Len(policyset) \in 1..Len(groups[gi + 1])
        BY <1>3, <1>5, <1>15
    <2>2. policyset'[i] = groups[gi + 1][i - Len(policyset)]
        BY <1>3, <1>5
    <2>3. groups[gi + 1][i - Len(policyset)] = PolicyId(gi + 1, i - Len(policyset))
        BY <1>17, <2>1
    <2>4. i - Len(policyset) \in 1..MaxLinks + 1
        <3>1. \A x, b \in Nat : b \in 1..MaxLinks + 1 /\ x \in 1..b => x \in 1..MaxLinks + 1
            BY DEF MaxLinks
        <3>2. i - Len(policyset) \in Nat /\ Len(groups[gi + 1]) \in Nat
            BY <1>15, <2>1
        <3>3. QED
            BY <1>4, <2>1, <3>1, <3>2
    <2>5. QED
        BY <2>2, <2>3, <2>4
<1>6. ASSUME NEW i \in 1..Len(policyset'), i <= Len(policyset)
      PROVE  \E k \in 1..gi, m \in 1..MaxLinks + 1 : policyset'[i] = PolicyId(k, m)
    <2>1. policyset'[i] = policyset[i] /\ i \in 1..Len(policyset)
        BY <1>3, <1>6, <1>15
    <2>2. QED
        BY <1>14, <2>1
<1>7. RunInv'
    <2>1. \A i \in 1..Len(policyset') :
             \E k \in 1..gi + 1, m \in 1..MaxLinks + 1 : policyset'[i] = PolicyId(k, m)
        <3> SUFFICES ASSUME NEW i \in 1..Len(policyset')
                     PROVE  \E k \in 1..gi + 1, m \in 1..MaxLinks + 1 :
                               policyset'[i] = PolicyId(k, m)
            OBVIOUS
        <3>1. CASE i <= Len(policyset)
            BY <1>2, <1>6, <3>1
        <3>2. CASE i > Len(policyset)
            BY <1>2, <1>5, <3>2
        <3>3. QED
            BY <1>15, <3>1, <3>2
    <2>2. QED
        BY <1>0, <1>1, <1>2, <1>16, <2>1 DEF RunInv
<1>8. PolicyIdsUnique'
    <2> SUFFICES ASSUME NEW i \in 1..Len(policyset'), NEW j \in 1..Len(policyset'), i # j
                 PROVE  policyset'[i] # policyset'[j]
        BY DEF PolicyIdsUnique
    <2>1. CASE i <= Len(policyset) /\ j <= Len(policyset)
        <3>1. policyset'[i] = policyset[i] /\ policyset'[j] = policyset[j]
              /\ i \in 1..Len(policyset) /\ j \in 1..Len(policyset)
            BY <1>3, <1>15, <2>1
        <3>2. QED
            BY <3>1 DEF IInv, PolicyIdsUnique
    <2>2. CASE i > Len(policyset) /\ j > Len(policyset)
        <3>1. i - Len(policyset) # j - Len(policyset)
            BY <1>15, <2>2
        <3>2. QED
            BY <1>2, <1>5, <2>2, <3>1, IdInjective
    \* An old entry has a group index at most gi, a new one gi + 1.
    <2>3. ASSUME NEW a \in 1..Len(policyset'), NEW b \in 1..Len(policyset'),
                 a <= Len(policyset), b > Len(policyset)
          PROVE  policyset'[a] # policyset'[b]
        <3>1. PICK k \in 1..gi, m \in 1..MaxLinks + 1 : policyset'[a] = PolicyId(k, m)
            BY <1>6, <2>3
        <3>2. policyset'[b] = PolicyId(gi + 1, b - Len(policyset))
              /\ b - Len(policyset) \in 1..MaxLinks + 1
            BY <1>5, <2>3
        <3>3. k \in 1..MaxGroups /\ k # gi + 1
            BY <1>2, <3>1 DEF MaxGroups
        <3>4. QED
            BY <1>2, <3>1, <3>2, <3>3, IdInjective
    <2>4. QED
        BY <1>15, <2>1, <2>2, <2>3
<1>9. PTypeOK'
    BY <1>0, <1>2, <1>3 DEF IInv, PTypeOK
<1>10. QED
    BY <1>0, <1>7, <1>8, <1>9
       DEF IInv, GroupsInv, LinksInv, DriverInv

LEMMA IInvStep == IInv /\ [Next]_vars => IInv'
<1> SUFFICES ASSUME IInv, [Next]_vars PROVE IInv'
    OBVIOUS
<1>1. CASE GenHierarchy
    BY <1>1, GenHierarchyStep
<1>2. CASE GenGroup
    BY <1>2, GenGroupStep
<1>3. CASE EndGroups
    BY <1>3, EndGroupsStep
<1>4. CASE GenLink
    BY <1>4, GenLinkStep
<1>5. CASE EndLinks
    BY <1>5, EndLinksStep
<1>6. CASE GenRequests
    BY <1>6, GenRequestsStep
<1>7. CASE GenerationError
    BY <1>7, GenerationErrorStep
<1>8. CASE StartHarness
    BY <1>8, StartHarnessStep
<1>9. CASE AddGroup
    BY <1>9, AddGroupStep
<1>10. CASE AuthRequest
    BY <1>10, AuthRequestStep
<1>11. CASE Emit
    BY <1>11, EmitStep
<1>12. CASE DriverDone \/ UNCHANGED vars
    BY <1>12, DriverDoneStep
<1>13. QED
    BY <1>1, <1>2, <1>3, <1>4, <1>5, <1>6, <1>7, <1>8, <1>9, <1>10, <1>11, <1>12
       DEF Next

LEMMA IInvInvariant == Spec => []IInv
BY IInvInit, IInvStep, PTL DEF Spec

\* Spec 3: the policy set test_rbac builds never holds two policies with
\* one ID, for any number of trials and any shape of groups and links
\* arbitrary_vec draws, given that format! keeps distinct indices apart.
THEOREM IdsUnique == Spec => []PolicyIdsUnique
<1>1. IInv => PolicyIdsUnique
    BY DEF IInv
<1>2. QED
    BY IInvInvariant, <1>1, PTL

-----------------------------------------------------------------------------
(* The RBAC target implements the abstract trial log.                     *)

\* Ending a trial extends the mapped list of finished trials by one entry.
LEMMA FinishedAppend ==
    ASSUME PTypeOK, NEW how \in {"completed", "gen_skip", "fault"},
           outcomes' = Append(outcomes, how)
    PROVE  finishedBar' = Append(finishedBar,
                                 IF how = "completed" THEN "completed" ELSE "abandoned")
BY DEF PTypeOK, finishedBar

\* Appending the record extends the mapped file by the record's line.
LEMMA LinesAppend ==
    ASSUME PTypeOK, log' = Append(log, ObsRecord)
    PROVE  linesBar' = Append(linesBar, [trial |-> trial, status |-> status])
BY DEF PTypeOK, linesBar, ObsRecord

\* An input the driver drops and a disagreement of run_auth_test end the
\* running trial and write nothing: an abandoned trial.
LEMMA AbandonStep ==
    ASSUME IInv, pc # "generate" \/ Len(outcomes) < MaxTrials,
           outcomes' = Append(outcomes, "fault") \/ outcomes' = Append(outcomes, "gen_skip"),
           UNCHANGED log
    PROVE  TL!Abandon
<1>1. finishedBar' = Append(finishedBar, "abandoned")
    BY FinishedAppend DEF IInv
<1>2. Len(finishedBar) = Len(outcomes) /\ Len(outcomes) < MaxTrials
    BY DEF finishedBar, IInv, DriverInv
<1>3. QED
    BY <1>1, <1>2 DEF TL!Abandon, linesBar

\* Every behaviour of the RBAC target, seen through finishedBar and
\* linesBar, is a behaviour of the abstract trial log: one record per
\* trial that returns from test_rbac, appended as it ends.
THEOREM RbacRefinement == Spec => ImplementsTrialLog
<1>1. Init => TL!Init
    BY DEF Init, TL!Init, finishedBar, linesBar
<1>2. IInv /\ [Next]_vars => [TL!Next]_TL!vars
    <2> SUFFICES ASSUME IInv, [Next]_vars PROVE [TL!Next]_TL!vars
        OBVIOUS
    <2>0. CASE UNCHANGED <<outcomes, log>>
        BY <2>0 DEF TL!vars, finishedBar, linesBar
    <2>1. CASE GenHierarchy \/ GenGroup \/ EndGroups \/ GenLink \/ EndLinks
               \/ GenRequests \/ StartHarness \/ AddGroup \/ DriverDone \/ UNCHANGED vars
        BY <2>1, <2>0 DEF GenHierarchy, GenGroup, EndGroups, GenLink, EndLinks,
                          GenRequests, StartHarness, AddGroup, DriverDone, vars
    <2>2. CASE GenerationError
        BY <2>2, AbandonStep DEF GenerationError, EndTrial, TL!Next
    <2>3. CASE AuthRequest
        <3>1. CASE UNCHANGED outcomes
            BY <2>3, <3>1, <2>0 DEF AuthRequest
        <3>2. CASE outcomes' = Append(outcomes, "fault")
            BY <2>3, <3>2, AbandonStep DEF AuthRequest, TL!Next
        <3>3. QED
            BY <2>3, <3>1, <3>2 DEF AuthRequest, EndTrial
    <2>4. CASE Emit
        <3>1. finishedBar' = Append(finishedBar, "completed")
            BY <2>4, FinishedAppend DEF Emit, EndTrial, IInv
        <3>2. Len(finishedBar) = Len(outcomes) /\ Len(finishedBar) < MaxTrials
            BY <2>4 DEF finishedBar, Emit, IInv, DriverInv
        <3>3. status \in TL!Status
            BY DEF IInv, PTypeOK, TerminalStatus, NoStatus, TL!Status
        <3>4. linesBar' = IF ObsEnabled
                            THEN Append(linesBar, [trial |-> Len(finishedBar) + 1,
                                                   status |-> status])
                            ELSE linesBar
            <4>1. CASE ObsEnabled
                BY <2>4, <4>1, <3>2, LinesAppend DEF Emit, AppendRecord, trial, IInv
            <4>2. CASE ~ObsEnabled
                BY <2>4, <4>2 DEF Emit, AppendRecord, linesBar
            <4>3. QED
                BY <4>1, <4>2
        <3>5. TL!Complete(status)
            BY <3>1, <3>2, <3>4 DEF TL!Complete
        <3>6. QED
            BY <3>3, <3>5 DEF TL!Next
    <2>5. QED
        BY <2>1, <2>2, <2>3, <2>4 DEF Next
<1>3. QED
    BY <1>1, <1>2, IInvInvariant, PTL DEF Spec, TL!Spec, ImplementsTrialLog

=============================================================================
