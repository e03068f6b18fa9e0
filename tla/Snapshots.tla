------------------------------ MODULE Snapshots ------------------------------
(* The placement controller: how the policy and the selected resources of a  *)
(* placement become numbered snapshots on the hub.                            *)
(*                                                                            *)
(* pkg/controllers/placement/controller.go, pkg/utils/controller/             *)
(* {policy,resource}_snapshot_resolver.go, pkg/controllers/resourcechange,    *)
(* pkg/controllers/schedulingpolicysnapshot and placementwatcher.             *)
(*                                                                            *)
(* Both kinds of snapshots are read from informer caches that apply the       *)
(* controller's own writes later, one event at a time (policyLog,             *)
(* resourceLog). An update succeeds only on the stored version of an object,  *)
(* which is the case when no event about it is under way; a create fails when *)
(* the name is taken. A pass can fail at every call, which also stands for a  *)
(* restart: the pass is abandoned and the placement is queued again.          *)
EXTENDS Integers, FiniteSets, Sequences, FiniteSetsExt, SequencesExt

CONSTANTS
    Policies,       \* the scheduling policies, number of clusters left out
    Numbers,        \* values of spec.policy.numberOfClusters
    Resources,      \* the objects the selectors of the placement match
    MaxContent,     \* bound: contents 1..MaxContent of an object, 0: absent
    RevisionLimit,  \* spec.revisionHistoryLimit
    Collects,       \* whether changes are collected for a while (the resolver's Config)
    Reverts,        \* whether users go back to a policy or a content they used before
    MaxIndex,       \* bound: snapshots of a kind, indices 1..MaxIndex
    MaxEdits,       \* bound: changes of the spec and of resources
    MaxFaults,      \* bound: failed calls
    Present         \* the objects that exist at first

ASSUME SnapshotsAssumption ==
    /\ RevisionLimit \in Nat \ {0}
    /\ {MaxContent, MaxIndex, MaxEdits, MaxFaults} \subseteq Nat
    /\ {Collects, Reverts} \subseteq BOOLEAN
    /\ IsFiniteSet(Resources) /\ Present \subseteq Resources /\ Policies # {} /\ Numbers # {}

VARIABLES
    placement,      \* the stored placement
    seen,           \* the placement in the controller's cache
    policies,       \* the stored policy snapshots, by index
    policyLog,      \* their events on the way to the cache
    policySeen,     \* the policy snapshots in the cache
    groups,         \* the stored resource snapshots, grouped by index
    resourceLog,
    groupSeen,
    contents,       \* what the watched resources are now
    changed,        \* the queue of the resource change controller
    rolled,         \* the resource index the bindings have reached, 0: none
    elapsed,        \* whether the time to collect changes is over
    queued,         \* whether the placement waits in the controller's queue
    job,            \* the pass in progress
    budget          \* edits and faults so far; policies and contents used;
                    \* whether a change was handled before the status listed its object

vars == <<placement, seen, policies, policyLog, policySeen, groups, resourceLog, groupSeen,
          contents, changed, rolled, elapsed, queued, job, budget>>

policyVars == <<policies, policyLog, policySeen>>
groupVars == <<groups, resourceLog, groupSeen>>
worldVars == <<contents, changed, rolled, elapsed>>

-----------------------------------------------------------------------------
(* Objects. *)

Indices == 1..MaxIndex
Generations == 0..(MaxEdits + 2)
Contents == [Resources -> 0..MaxContent]

\* The objects a content selects.
Selected(c) == {r \in Resources : c[r] > 0}

\* The number of snapshots that hold it: SplitSelectedResources with room for one
\* object in each, at least a master.
Parts(c) == Max({1, Cardinality(Selected(c))})
AllParts == 0..Max({0, Cardinality(Resources) - 1})

PlacementStatus ==
    [gen : Generations, scheduled : {"None", "Unknown", "True"},
     index : 0..MaxIndex, selected : SUBSET Resources]

NoStatus == [gen |-> 0, scheduled |-> "None", index |-> 0, selected |-> {}]

PlacementObj ==
    [phase : {"Absent", "Live", "Deleting"}, gen : Generations, policy : Policies,
     number : Numbers, finalizer : BOOLEAN, status : PlacementStatus]

\* A policy snapshot: label is-latest, policy hash, the annotations with the
\* generation and the number of clusters, and status.observedCRPGeneration.
PolicySnapshot ==
    [exists : BOOLEAN, latest : BOOLEAN, policy : Policies, gen : Generations,
     number : Numbers, observed : Generations]

\* A group of resource snapshots: the parts that exist (0 is the master), and
\* what the master says: label is-latest, group hash, number of snapshots, and
\* whether a candidate for the next group was detected.
Group ==
    [parts : SUBSET AllParts, latest : BOOLEAN, hash : Contents,
     count : 1..(Cardinality(AllParts)), detected : BOOLEAN]

NoPolicySnapshot == [exists |-> FALSE, latest |-> FALSE, policy |-> CHOOSE p \in Policies : TRUE,
                     gen |-> 0, number |-> CHOOSE n \in Numbers : TRUE, observed |-> 0]
NoGroup == [parts |-> {}, latest |-> FALSE, hash |-> [r \in Resources |-> 0], count |-> 1,
            detected |-> FALSE]

NoJob == [pc |-> "Idle", base |-> [phase |-> "Absent"], hash |-> [r \in Resources |-> 0],
          policy |-> 0, observed |-> 0, group |-> 0, part |-> 0, prune |-> <<>>,
          wait |-> FALSE]

-----------------------------------------------------------------------------
(* Reading the caches. *)

\* Indices of the snapshots in a cache, and those that carry the label.
PolicyIndices(ps) == {i \in Indices : ps[i].exists}
ActivePolicies(ps) == {i \in PolicyIndices(ps) : ps[i].latest}
GroupIndices(gs) == {i \in Indices : gs[i].parts # {}}
LatestGroups(gs) == {i \in Indices : 0 \in gs[i].parts /\ gs[i].latest}

Ascending(S) == SelectSeq([i \in 1..(MaxIndex + Cardinality(Resources)) |-> i], LAMBDA i : i \in S)

\* lookupLatestSchedulingPolicySnapshot: the active snapshot, or the one with
\* the largest index, or none (0).
LookupLatestPolicy ==
    IF ActivePolicies(policySeen) # {} THEN Max(ActivePolicies(policySeen))
    ELSE Max(PolicyIndices(policySeen) \cup {0})

\* lookupLatestResourceSnapshot: with several labelled masters the list decides.
LookupLatestGroup ==
    IF LatestGroups(groupSeen) # {} THEN LatestGroups(groupSeen)
    ELSE {Max(GroupIndices(groupSeen) \cup {0})}

\* The version in the cache is the stored one.
PolicyFresh(i) == \A k \in DOMAIN policyLog : policyLog[k].index # i
MasterFresh(i) ==
    \A k \in DOMAIN resourceLog : resourceLog[k].index = i => resourceLog[k].part # 0

-----------------------------------------------------------------------------
(* Writes: the object changes now, the cache when the event arrives. *)

WritePolicy(i, value) ==
    /\ policies' = [policies EXCEPT ![i] = value]
    /\ policyLog' = Append(policyLog, [index |-> i, value |-> value])
    /\ UNCHANGED policySeen

WriteGroup(i, part, value) ==
    /\ groups' = [groups EXCEPT ![i] = value]
    /\ resourceLog' = Append(resourceLog, [index |-> i, part |-> part, value |-> value])
    /\ UNCHANGED groupSeen

\* Mutant: a pass that ends with an error is forgotten.
AbortForGood == job' = NoJob /\ UNCHANGED queued

\* A pass that ends with an error is queued again.
Abort == job' = NoJob /\ queued' = TRUE

-----------------------------------------------------------------------------
(* Reconcile: handleDelete. *)

StartDelete ==
    /\ queued /\ job.pc = "Idle"
    /\ seen.phase # "Live"
    /\ queued' = FALSE
    /\ job' = IF seen.phase = "Deleting" /\ seen.finalizer
              THEN [NoJob EXCEPT !.pc = "DeletePolicies", !.base = seen]
              ELSE NoJob
    /\ UNCHANGED <<placement, seen, policyVars, groupVars, worldVars, budget>>

\* DeleteAllOf works on what is stored.
DeletePolicySnapshots ==
    /\ job.pc = "DeletePolicies"
    /\ LET gone == Ascending(PolicyIndices(policies))
       IN  /\ policies' = [i \in Indices |-> NoPolicySnapshot]
           /\ policyLog' = policyLog \o [k \in DOMAIN gone |->
                                [index |-> gone[k], value |-> NoPolicySnapshot]]
    /\ job' = [job EXCEPT !.pc = "DeleteGroups"]
    /\ UNCHANGED <<placement, seen, policySeen, groupVars, worldVars, queued, budget>>

DeleteResourceSnapshots ==
    /\ job.pc = "DeleteGroups"
    /\ LET gone == Ascending(GroupIndices(groups))
       IN  /\ groups' = [i \in Indices |-> NoGroup]
           /\ resourceLog' = resourceLog \o [k \in DOMAIN gone |->
                                [index |-> gone[k], part |-> 0, value |-> NoGroup]]
    /\ job' = [job EXCEPT !.pc = "RemoveFinalizer"]
    /\ UNCHANGED <<placement, seen, policyVars, groupSeen, worldVars, queued, budget>>

RemoveFinalizer ==
    /\ job.pc = "RemoveFinalizer"
    /\ IF placement = job.base
       THEN /\ placement' = [placement EXCEPT !.phase = "Absent", !.finalizer = FALSE]
            /\ job' = NoJob
            /\ UNCHANGED queued
       ELSE /\ Abort
            /\ UNCHANGED placement
    /\ UNCHANGED <<seen, policyVars, groupVars, worldVars, budget>>

-----------------------------------------------------------------------------
(* Reconcile: handleUpdate. *)

\* The finalizer is added first; the resources are selected from the informers
\* of the watched kinds.
Start ==
    /\ queued /\ job.pc = "Idle"
    /\ seen.phase = "Live"
    /\ IF seen.finalizer \/ placement = seen
       THEN /\ placement' = IF seen.finalizer THEN placement
                            ELSE [placement EXCEPT !.finalizer = TRUE]
            /\ job' = [NoJob EXCEPT !.pc = "Policy",
                                    !.base = [seen EXCEPT !.finalizer = TRUE],
                                    !.hash = contents]
            /\ queued' = FALSE
       ELSE UNCHANGED <<placement, job, queued>>
    /\ UNCHANGED <<seen, policyVars, groupVars, worldVars, budget>>

\* ensureLatestPolicySnapshot: label and annotations follow the placement.
EnsuredPolicy(snapshot) ==
    [snapshot EXCEPT !.latest = TRUE, !.gen = job.base.gen, !.number = job.base.number]

\* getOrCreateSchedulingPolicySnapshot: the latest snapshot has this policy.
KeepPolicy(i) ==
    /\ i > 0 /\ policySeen[i].policy = job.base.policy
    /\ LET new == EnsuredPolicy(policySeen[i])
       IN  IF new = policySeen[i] \/ PolicyFresh(i)
           THEN /\ IF new = policySeen[i] THEN UNCHANGED policyVars ELSE WritePolicy(i, new)
                /\ job' = [job EXCEPT !.pc = "Resources", !.policy = i, !.observed = new.observed]
                /\ UNCHANGED queued
           ELSE UNCHANGED policyVars /\ Abort

\* It has another policy: take the label away before a new one is created.
ReplacePolicy(i) ==
    /\ i > 0 /\ policySeen[i].policy # job.base.policy /\ policySeen[i].latest
    /\ IF PolicyFresh(i)
       THEN /\ WritePolicy(i, [policySeen[i] EXCEPT !.latest = FALSE])
            /\ job' = [job EXCEPT !.pc = "ListPolicies", !.policy = i]
            /\ UNCHANGED queued
       ELSE UNCHANGED policyVars /\ Abort

\* There is none, or it lost its label in a pass that did not finish.
SucceedPolicy(i) ==
    /\ i > 0 => policySeen[i].policy # job.base.policy /\ ~policySeen[i].latest
    /\ job' = [job EXCEPT !.pc = "ListPolicies", !.policy = i]
    /\ UNCHANGED <<policyVars, queued>>

\* LookupLatestPolicySnapshot gives up when several snapshots are active.
GetPolicySnapshot ==
    /\ job.pc = "Policy"
    /\ IF Cardinality(ActivePolicies(policySeen)) > 1
       THEN Abort /\ UNCHANGED policyVars
       ELSE LET i == LookupLatestPolicy
            IN  KeepPolicy(i) \/ ReplacePolicy(i) \/ SucceedPolicy(i)
    /\ UNCHANGED <<placement, seen, groupVars, worldVars, budget>>

\* Mutant: no slot is kept for the new snapshot.
RedundantPoliciesNoSlot ==
    LET items == Ascending(PolicyIndices(policySeen))
    IN  SubSeq(items, 1, Len(items) - RevisionLimit)

\* deleteRedundantSchedulingPolicySnapshots: the oldest ones in the cache, so
\* that one slot is free.
RedundantPolicies ==
    LET items == Ascending(PolicyIndices(policySeen))
    IN  SubSeq(items, 1, Len(items) - RevisionLimit + 1)

\* The list is read once, before the first deletion.
PoliciesToPrune == IF job.pc = "ListPolicies" THEN RedundantPolicies ELSE job.prune

PrunePolicy ==
    /\ job.pc \in {"ListPolicies", "PrunePolicies"} /\ PoliciesToPrune # <<>>
    /\ LET i == Head(PoliciesToPrune)
       IN  IF policies[i].exists THEN WritePolicy(i, NoPolicySnapshot) ELSE UNCHANGED policyVars
    /\ job' = [job EXCEPT !.pc = "PrunePolicies", !.prune = Tail(PoliciesToPrune)]
    /\ UNCHANGED <<placement, seen, groupVars, worldVars, queued, budget>>

CreatePolicy ==
    /\ job.pc \in {"ListPolicies", "PrunePolicies"} /\ PoliciesToPrune = <<>>
    /\ job.policy < MaxIndex
    /\ LET i == job.policy + 1
       IN  IF policies[i].exists
           THEN Abort /\ UNCHANGED policyVars
           ELSE /\ WritePolicy(i, [exists |-> TRUE, latest |-> TRUE, policy |-> job.base.policy,
                                   gen |-> job.base.gen, number |-> job.base.number,
                                   observed |-> 0])
                /\ job' = [job EXCEPT !.pc = "Resources", !.policy = i, !.observed = 0]
                /\ UNCHANGED queued
    /\ UNCHANGED <<placement, seen, groupVars, worldVars, budget>>

-----------------------------------------------------------------------------
(* GetOrCreateResourceSnapshot. *)

\* The last snapshot in the cache is not a master: its annotations are missing.
MasterMissing(g) == g > 0 /\ 0 \notin groupSeen[g].parts

\* The latest group holds the selected resources: label it, and go on with the
\* parts that are missing.
KeepGroup(g) ==
    /\ job.pc = "Resources"
    /\ g > 0 /\ ~MasterMissing(g) /\ groupSeen[g].hash = job.hash
    /\ IF groupSeen[g].latest \/ MasterFresh(g)
       THEN /\ IF groupSeen[g].latest THEN UNCHANGED groupVars
               ELSE WriteGroup(g, 0, [groups[g] EXCEPT !.latest = TRUE])
            /\ LET have == Cardinality(groupSeen[g].parts)
               IN  job' = [job EXCEPT !.group = g, !.part = have,
                               !.pc = IF have = groupSeen[g].count THEN "Status" ELSE "CreateGroup"]
            /\ UNCHANGED queued
       ELSE UNCHANGED groupVars /\ Abort

\* shouldCreateNewResourceSnapshotNow: remember when the change was detected.
DetectCandidate(g) ==
    /\ job.pc = "Resources"
    /\ g > 0 /\ ~MasterMissing(g) /\ groupSeen[g].hash # job.hash /\ groupSeen[g].latest
    /\ Collects /\ ~groupSeen[g].detected
    /\ IF MasterFresh(g)
       THEN /\ WriteGroup(g, 0, [groups[g] EXCEPT !.detected = TRUE])
            /\ job' = [job EXCEPT !.pc = "Decide", !.group = g]
            /\ UNCHANGED queued
       ELSE UNCHANGED groupVars /\ Abort

\* Whether the time for a new group has come.
CreateNow == ~Collects \/ elapsed

\* Wait for more changes, or take the label from the old group.
ReplaceGroup(g) ==
    /\ \/ job.pc = "Decide" /\ g = job.group
       \/ /\ job.pc = "Resources"
          /\ g > 0 /\ ~MasterMissing(g) /\ groupSeen[g].hash # job.hash /\ groupSeen[g].latest
          /\ Collects => groupSeen[g].detected
    /\ \/ /\ ~CreateNow
          /\ UNCHANGED groupVars
          /\ IF Cardinality(groupSeen[g].parts) = groupSeen[g].count
             THEN /\ job' = [job EXCEPT !.pc = "Status", !.group = g, !.wait = TRUE,
                                        !.hash = groupSeen[g].hash]
                  /\ UNCHANGED queued
             ELSE Abort
       \/ /\ CreateNow
          /\ IF job.pc = "Decide" \/ MasterFresh(g)
             THEN /\ WriteGroup(g, 0, [groups[g] EXCEPT !.latest = FALSE])
                  /\ job' = [job EXCEPT !.pc = "ListGroups", !.group = g]
                  /\ UNCHANGED queued
             ELSE UNCHANGED groupVars /\ Abort

\* No group yet, or one that lost its label in a pass that did not finish.
SucceedGroup(g) ==
    /\ job.pc = "Resources"
    /\ IF MasterMissing(g)
       THEN Abort
       ELSE /\ g > 0 => groupSeen[g].hash # job.hash /\ ~groupSeen[g].latest
            /\ job' = [job EXCEPT !.pc = "ListGroups", !.group = g]
            /\ UNCHANGED queued
    /\ UNCHANGED groupVars

GetGroup ==
    /\ \E g \in LookupLatestGroup \cup {job.group} :
           /\ job.pc = "Decide" \/ g \in LookupLatestGroup
           /\ KeepGroup(g) \/ DetectCandidate(g) \/ ReplaceGroup(g) \/ SucceedGroup(g)
    /\ UNCHANGED <<placement, seen, policyVars, worldVars, budget>>

\* deleteRedundantResourceSnapshots: from the newest group in the cache to the
\* oldest, the master before the rest of a group (listSortedResourceSnapshots).
RedundantGroups ==
    LET newest == Reverse(Ascending(GroupIndices(groupSeen)))
        objects(i) == (IF 0 \in groupSeen[i].parts THEN <<<<i, 0>>>> ELSE <<>>)
                      \o LET subs == Reverse(Ascending(groupSeen[i].parts \ {0}))
                         IN  [k \in DOMAIN subs |-> <<i, subs[k]>>]
        all == FlattenSeq([k \in DOMAIN newest |-> objects(newest[k])])
    IN  IF Len(all) < RevisionLimit THEN <<>>
        ELSE FlattenSeq([k \in 1..(Len(newest) - RevisionLimit + 1) |->
                            objects(newest[k + RevisionLimit - 1])])

GroupsToPrune == IF job.pc = "ListGroups" THEN RedundantGroups ELSE job.prune

WithoutPart(g, part) ==
    LET left == g.parts \ {part}
    IN  IF part = 0 \/ left = {} THEN [NoGroup EXCEPT !.parts = left]
        ELSE [g EXCEPT !.parts = left]

PruneGroup ==
    /\ job.pc \in {"ListGroups", "PruneGroups"} /\ GroupsToPrune # <<>>
    /\ LET i == Head(GroupsToPrune)[1]
           part == Head(GroupsToPrune)[2]
       IN  IF part \in groups[i].parts
           THEN WriteGroup(i, part, WithoutPart(groups[i], part))
           ELSE UNCHANGED groupVars
    /\ job' = [job EXCEPT !.pc = "PruneGroups", !.prune = Tail(GroupsToPrune)]
    /\ UNCHANGED <<placement, seen, policyVars, worldVars, queued, budget>>

\* Mutant: one too early.
LastPartEarly(part, count) == part + 2 >= count

\* The loop over the resources ends with the last part.
LastPart(part, count) == part + 1 >= count

\* The loop over the split resources: the master first (BuildMasterResource-
\* Snapshot), then the rest (BuildSubIndexResourceSnapshot).
CreatePart ==
    /\ \/ job.pc = "CreateGroup"
       \/ /\ job.pc \in {"ListGroups", "PruneGroups"}
          /\ GroupsToPrune = <<>> /\ job.group < MaxIndex
    /\ LET i == IF job.pc = "CreateGroup" THEN job.group ELSE job.group + 1
           part == IF job.pc = "CreateGroup" THEN job.part ELSE 0
           count == Parts(job.hash)
           new == IF part = 0
                  THEN [parts |-> groups[i].parts \cup {0}, latest |-> TRUE, hash |-> job.hash,
                        count |-> count, detected |-> FALSE]
                  ELSE [groups[i] EXCEPT !.parts = @ \cup {part}]
       IN  IF part \in groups[i].parts
           THEN Abort /\ UNCHANGED <<groupVars, elapsed>>
           ELSE /\ WriteGroup(i, part, new)
                /\ job' = [job EXCEPT !.group = i, !.part = part + 1,
                                      !.pc = IF LastPart(part, count) THEN "Status" ELSE "CreateGroup"]
                /\ elapsed' = (elapsed /\ part # 0)
                /\ UNCHANGED queued
    /\ UNCHANGED <<placement, seen, policyVars, contents, changed, rolled, budget>>

-----------------------------------------------------------------------------
(* The status, and when the placement is looked at again. *)

\* buildScheduledCondition: the scheduler has to have seen this generation.
Scheduled == IF job.observed < job.base.gen THEN "Unknown" ELSE "True"

\* isRolloutCompleted: every binding has reached the latest resources.
Completed == Scheduled = "True" /\ rolled = job.group

UpdateStatus ==
    /\ job.pc = "Status"
    /\ IF placement = job.base
       THEN /\ placement' = [placement EXCEPT !.status =
                                [gen |-> job.base.gen, scheduled |-> Scheduled,
                                 index |-> job.group, selected |-> Selected(job.hash)]]
            /\ queued' = (queued \/ ~Completed \/ job.wait)
            /\ job' = NoJob
       ELSE /\ Abort
            /\ UNCHANGED placement
    /\ UNCHANGED <<seen, policyVars, groupVars, worldVars, budget>>

\* A call fails, or the controller restarts.
Fail ==
    /\ job.pc # "Idle"
    /\ budget.faults < MaxFaults
    /\ budget' = [budget EXCEPT !.faults = @ + 1]
    /\ Abort
    /\ UNCHANGED <<placement, seen, policyVars, groupVars, worldVars>>

Reconcile ==
    \/ StartDelete \/ DeletePolicySnapshots \/ DeleteResourceSnapshots \/ RemoveFinalizer
    \/ Start \/ GetPolicySnapshot \/ PrunePolicy \/ CreatePolicy
    \/ GetGroup \/ PruneGroup \/ CreatePart \/ UpdateStatus

-----------------------------------------------------------------------------
(* What wakes the controller. *)

\* The placement watcher passes on changes of the generation.
DeliverPlacement ==
    /\ seen # placement
    /\ seen' = placement
    /\ queued' = (queued \/ seen.gen # placement.gen \/ seen.phase # placement.phase)
    /\ UNCHANGED <<placement, policyVars, groupVars, worldVars, job, budget>>

\* The policy snapshot watcher passes on updates of the status, not creations
\* and deletions.
PolicyEventWakes(old, new) == old.exists /\ new.exists /\ old.observed # new.observed

DeliverPolicy ==
    /\ policyLog # <<>>
    /\ LET e == Head(policyLog)
       IN  /\ policySeen' = [policySeen EXCEPT ![e.index] = e.value]
           /\ queued' = (queued \/ PolicyEventWakes(policySeen[e.index], e.value))
    /\ policyLog' = Tail(policyLog)
    /\ UNCHANGED <<placement, seen, policies, groupVars, worldVars, job, budget>>

DeliverGroup ==
    /\ resourceLog # <<>>
    /\ groupSeen' = [groupSeen EXCEPT ![Head(resourceLog).index] = Head(resourceLog).value]
    /\ resourceLog' = Tail(resourceLog)
    /\ UNCHANGED <<placement, seen, policyVars, groups, worldVars, queued, job, budget>>

\* The placements a change concerns: those whose selectors match the object,
\* and those whose status says that they selected it.
Affected(r) == seen.phase = "Live" /\ (contents[r] > 0 \/ r \in seen.status.selected)

\* The object is part of a snapshot, or of the pass in progress, and the status
\* in the cache does not say so yet.
HandledEarly(r) ==
    /\ r \notin seen.status.selected
    /\ \/ r \in Selected(job.hash)
       \/ \E i \in Indices : 0 \in groups[i].parts /\ r \in Selected(groups[i].hash)

ResourceChange(r) ==
    /\ r \in changed
    /\ changed' = changed \ {r}
    /\ queued' = (queued \/ Affected(r))
    /\ budget' = [budget EXCEPT !.early = @ \/ HandledEarly(r)]
    /\ UNCHANGED <<placement, seen, policyVars, groupVars, contents, rolled, elapsed, job>>

TimeElapses ==
    /\ Collects /\ ~elapsed
    /\ \E i \in LatestGroups(groups) : groups[i].detected
    /\ elapsed' = TRUE
    /\ UNCHANGED <<placement, seen, policyVars, groupVars, contents, changed, rolled, queued,
                   job, budget>>

-----------------------------------------------------------------------------
(* The rest of the system. *)

\* The scheduler writes its decision into the status of the active snapshot.
Schedule(i) ==
    /\ policies[i].exists /\ policies[i].latest
    /\ policies[i].observed # policies[i].gen
    /\ WritePolicy(i, [policies[i] EXCEPT !.observed = policies[i].gen])
    /\ UNCHANGED <<placement, seen, groupVars, worldVars, queued, job, budget>>

\* The rollout controller brings the bindings to the latest complete group; the
\* binding watcher wakes the placement controller.
RollOut(i) ==
    /\ rolled # i
    /\ i \in LatestGroups(groups)
    /\ Cardinality(groups[i].parts) = groups[i].count
    /\ rolled' = i
    /\ queued' = TRUE
    /\ UNCHANGED <<placement, seen, policyVars, groupVars, contents, changed, elapsed, job, budget>>

EditPolicy(p, n) ==
    /\ placement.phase = "Live"
    /\ budget.edits < MaxEdits
    /\ <<p, n>> # <<placement.policy, placement.number>>
    /\ Reverts \/ p = placement.policy \/ p \notin budget.policies
    /\ placement' = [placement EXCEPT !.policy = p, !.number = n, !.gen = @ + 1]
    /\ budget' = [budget EXCEPT !.edits = @ + 1, !.policies = @ \cup {p}]
    /\ UNCHANGED <<seen, policyVars, groupVars, worldVars, queued, job>>

ChangeResource(r, v) ==
    /\ budget.edits < MaxEdits
    /\ v # contents[r]
    /\ Reverts \/ [contents EXCEPT ![r] = v] \notin budget.contents
    /\ contents' = [contents EXCEPT ![r] = v]
    /\ changed' = changed \cup {r}
    /\ budget' = [budget EXCEPT !.edits = @ + 1, !.contents = @ \cup {contents'}]
    /\ UNCHANGED <<placement, seen, policyVars, groupVars, rolled, elapsed, queued, job>>

DeletePlacement ==
    /\ placement.phase = "Live"
    /\ budget.edits < MaxEdits
    /\ placement' = IF placement.finalizer
                    THEN [placement EXCEPT !.phase = "Deleting", !.gen = @ + 1]
                    ELSE [placement EXCEPT !.phase = "Absent"]
    /\ budget' = [budget EXCEPT !.edits = @ + 1]
    /\ UNCHANGED <<seen, policyVars, groupVars, worldVars, queued, job>>

-----------------------------------------------------------------------------
\* A placement that was just created, or one with a full history of RevisionLimit
\* snapshots of each kind, all reported and rolled out.
Init ==
    \E history \in {0, RevisionLimit} :
    LET p == CHOOSE q \in Policies : TRUE
        n == CHOOSE m \in Numbers : TRUE
        c == [r \in Resources |-> IF r \in Present THEN 1 ELSE 0]
        old == CHOOSE d \in Contents : d # c
    IN  /\ placement = [phase |-> "Live", gen |-> 1, policy |-> p, number |-> n,
                        finalizer |-> history > 0,
                        status |-> IF history = 0 THEN NoStatus
                                   ELSE [gen |-> 1, scheduled |-> "True", index |-> history,
                                         selected |-> Selected(c)]]
        /\ seen = IF history = 0 THEN [placement EXCEPT !.phase = "Absent", !.gen = 0]
                  ELSE placement
        /\ policies = [i \in Indices |->
               IF i > history THEN NoPolicySnapshot
               ELSE [exists |-> TRUE, latest |-> i = history, gen |-> 1, number |-> n, observed |-> 1,
                     policy |-> IF i = history THEN p ELSE CHOOSE q \in Policies : q # p]]
        /\ policySeen = policies
        /\ policyLog = <<>>
        /\ groups = [i \in Indices |->
               IF i > history THEN NoGroup
               ELSE LET h == IF i = history THEN c ELSE old
                    IN  [parts |-> 0..(Parts(h) - 1), latest |-> i = history, hash |-> h,
                         count |-> Parts(h), detected |-> FALSE]]
        /\ groupSeen = groups
        /\ resourceLog = <<>>
        /\ contents = c
        /\ changed = {}
        /\ rolled = history
        /\ elapsed = FALSE
        /\ queued = FALSE
        /\ job = NoJob
        /\ budget = [edits |-> 0, faults |-> 0, early |-> FALSE,
                     policies |-> {p} \cup {policies[i].policy : i \in 1..history},
                     contents |-> {c} \cup {groups[i].hash : i \in 1..history}]

Informers == DeliverPlacement \/ DeliverPolicy \/ DeliverGroup

Users ==
    \/ \E p \in Policies, n \in Numbers : EditPolicy(p, n)
    \/ \E r \in Resources, v \in 0..MaxContent : ChangeResource(r, v)
    \/ DeletePlacement

\* Everything that happens without a user or a fault, apart from the controller.
Surroundings ==
    \/ Informers
    \/ \E r \in Resources : ResourceChange(r)
    \/ TimeElapses
    \/ \E i \in Indices : Schedule(i) \/ RollOut(i)

Next == Reconcile \/ Fail \/ Surroundings \/ Users

Spec == Init /\ [][Next]_vars

\* The work queue runs the controller; informers, the other controllers and the
\* clock do not all stand still for ever.
FairSpec == Spec /\ WF_vars(Reconcile) /\ WF_vars(Surroundings)

-----------------------------------------------------------------------------
(* Properties. *)

\* Every object, cached or stored, has its type; a group has at least a master
\* (GetOrCreateResourceSnapshot on an empty selection).
TypeOK ==
    /\ placement \in PlacementObj /\ seen \in PlacementObj
    /\ policies \in [Indices -> PolicySnapshot] /\ policySeen \in [Indices -> PolicySnapshot]
    /\ groups \in [Indices -> Group] /\ groupSeen \in [Indices -> Group]
    /\ contents \in Contents /\ changed \subseteq Resources
    /\ rolled \in 0..MaxIndex
    /\ {elapsed, queued} \subseteq BOOLEAN

\* The history of either kind never exceeds revisionHistoryLimit, although the
\* lists that are pruned come from a lagging cache (deleteRedundant*).
HistoryBounded ==
    /\ Cardinality(PolicyIndices(policies)) <= RevisionLimit
    /\ Cardinality(GroupIndices(groups)) <= RevisionLimit

\* The status claims only what happened: Scheduled is true for the current
\* generation when the scheduler has observed it, and the observed resource index is that of a group
\* whose parts were all created (setPlacementStatus).
ReportIsEarned ==
    placement.phase = "Live" =>
        /\ placement.status.scheduled = "True" /\ placement.status.gen = placement.gen =>
               \E i \in PolicyIndices(policies) : policies[i].observed >= placement.status.gen
        /\ LET g == placement.status.index
           IN  g > 0 /\ 0 \in groups[g].parts =>
                   Cardinality(groups[g].parts) = groups[g].count

\* Snapshots and status agree with the spec and the watched objects.
UpToDate ==
    /\ \E i \in ActivePolicies(policies) :
           /\ policies[i].policy = placement.policy
           /\ policies[i].number = placement.number
           /\ policies[i].gen = placement.gen
    /\ \E i \in LatestGroups(groups) :
           /\ groups[i].hash = contents
           /\ Cardinality(groups[i].parts) = groups[i].count
           /\ placement.status.index = i
    /\ placement.status.gen = placement.gen
    /\ placement.status.selected = Selected(contents)

\* Every edit, every change of a selected object and every fault is followed by
\* a complete pass: in the end the latest snapshots and the status are those of
\* the current spec and objects, and a deleted placement is gone.  Excepted is
\* a selected object that was deleted before a status named it (budget.early):
\* nothing wakes the placement for it.
Settles ==
    <>[](/\ placement.phase # "Deleting"
         /\ placement.phase = "Live" /\ ~budget.early => UpToDate)

=============================================================================
