----------------------------- MODULE Scheduler -----------------------------
(***************************************************************************)
(* The scheduler: one scheduling cycle at a time for the placement (the    *)
(* work queue never hands one key to two workers).  A cycle lists the      *)
(* bindings straight from the API server, computes what to do from that    *)
(* list, the cached clusters and the cached policy snapshot, and then      *)
(* performs the writes it planned, one API call at a time, while the other *)
(* controllers go on writing the same bindings.                            *)
(*                                                                         *)
(* sched holds the plan: the writes not yet performed.  The fields are in  *)
(* the order in which the code issues the groups of calls; the calls of    *)
(* one group run in parallel, hence in any order.                          *)
(***************************************************************************)
EXTENDS Hub, FiniteSetsExt

CONSTANTS
    Eligible,       \* the clusters that pass the filters, for each policy
    BatchLimit      \* the largest batch a plugin allows per PickN cycle

ASSUME SchedulerAssumption ==
    /\ Eligible \in [1..MaxPolicy -> SUBSET Cluster]
    /\ BatchLimit \in Nat \ {0}

VARIABLES
    sched,          \* the scheduling cycle or cleanup in progress
    decided         \* the clusters selected in the policy snapshot's status

IdleScheduler ==
    [pc |-> "idle", unfinalize |-> {}, dangling |-> {}, create |-> {},
     patch |-> {}, drop |-> {}, wipe |-> {}, erase |-> {},
     policy |-> [index |-> 0, number |-> 0], publish |-> FALSE,
     selected |-> {}]

SchedulerPlan ==
    [pc         : {"idle", "cycle", "cleanup"},
     unfinalize : SUBSET Binding,   \* deleting: remove our finalizer
     dangling   : SUBSET Binding,   \* cluster left: mark unscheduled
     create     : SUBSET Cluster,   \* picked, no binding yet
     patch      : SUBSET Binding,   \* picked again: new policy
     drop       : SUBSET Binding,   \* not picked: mark unscheduled
     wipe       : SUBSET Binding,   \* cleanup: remove our finalizer
     erase      : SUBSET Binding,   \* cleanup: then delete
     policy     : [index : 0..MaxPolicy, number : Nat],
     publish    : BOOLEAN,          \* the decision is to be published
     selected   : SUBSET Cluster]   \* the decision

SchedulerTypeOK ==
    /\ sched \in SchedulerPlan
    /\ decided \subseteq Cluster

----------------------------------------------------------------------------
(* classifyBindings, over the listed bindings, the cached clusters and the *)
(* cached policy snapshot.                                                 *)

Unscheduled == {b \in Live : binding[b].state = "Unscheduled"}

Dangling ==
    {b \in Live \ Unscheduled : binding[b].cluster \notin cache.clusters}

Obsolete ==
    {b \in Live \ (Unscheduled \cup Dangling) :
        binding[b].policy # cache.policy.index}

ToUnfinalize == {b \in Deleting : binding[b].schedFin}

\* The scheduled and the bound bindings of the code.
Active == Live \ (Unscheduled \cup Dangling \cup Obsolete)

ActiveScheduled == {b \in Active : binding[b].state = "Scheduled"}

----------------------------------------------------------------------------
(* The three kinds of cycle.                                               *)

\* runFilterPlugins: the clusters every filter plugin lets pass for the policy.
Passed == Eligible[cache.policy.index] \cap cache.clusters

\* The same-placement plugin drops the clusters that have a binding of this
\* policy already; they count neither as passed nor as filtered out.
AlreadySelected == ClustersOf(Active)

Candidates == Passed \ AlreadySelected

\* runScorePlugins and pickTopNScoredClusters.  Which candidates score best is
\* left open: the affinity terms and the spread of the fleet decide it.
TopScored(n) == kSubset(n, Candidates)

\* Mutant: deselected bindings are not looked at.
ReusableObsolete == Obsolete

\* The bindings a cycle may take up again when it picks their clusters.
Reusable == Obsolete \cup Unscheduled

\* The decisions published for a cycle that picks some clusters: those and the
\* ones it keeps.
Decisions(picked) == picked \cup ClustersOf(Active)

\* crossReferencePickedClustersAndDeDupBindings: reuse the obsolete and the
\* unscheduled bindings of the picked clusters, create the missing ones, drop
\* the obsolete ones of the other clusters.  An unscheduled binding without the
\* previous-state annotation is an unexpected behaviour: the cycle ends there.
CrossReference(picked, publish) ==
    LET patch == {b \in Reusable : binding[b].cluster \in picked}
    IN  IF \E b \in patch \cap Unscheduled : binding[b].prev = None
        THEN IdleScheduler
        ELSE [IdleScheduler EXCEPT
                !.create   = picked \ ClustersOf(Reusable),
                !.patch    = patch,
                !.drop     = Obsolete \ patch,
                !.publish  = publish,
                !.selected = Decisions(picked)]

PickAllPlans == {CrossReference(Candidates, TRUE)}

\* crossReferenceClustersWithTargetNames: the targets named by the policy that
\* are in the fleet.
ValidTargets == Passed

\* newSchedulingDecisionsForPickFixedPlacementType: the targets that are invalid
\* or not found are listed, but not as selected.
FixedDecisions(valid) == valid

\* crossReferenceValidTargetsWithBindings: a target with a binding of this policy
\* keeps it, one with an obsolete binding gets that one, one with a deselected
\* binding gets that one back, and any other gets a new one.
CrossReferenceTargets(valid) ==
    LET open    == valid \ ClustersOf(Active)
        renewed == {b \in Obsolete : binding[b].cluster \in open}
        resumed == {b \in Unscheduled : binding[b].cluster \in open \ ClustersOf(renewed)}
    IN  IF \E b \in resumed : binding[b].prev = None
        THEN IdleScheduler
        ELSE [IdleScheduler EXCEPT
                !.create   = open \ ClustersOf(renewed \cup resumed),
                !.patch    = renewed \cup resumed,
                !.drop     = {b \in Obsolete : binding[b].cluster \notin valid},
                !.publish  = TRUE,
                !.selected = FixedDecisions(valid)]

\* A policy without targets ends the cycle at once.
PickFixedPlans ==
    IF Eligible[cache.policy.index] = {}
    THEN {IdleScheduler}
    ELSE {CrossReferenceTargets(ValidTargets)}

\* downscale: scheduled bindings first, then bound ones.
Trims(count) ==
    {T \in SUBSET Active :
        /\ Cardinality(T) = count
        /\ T \subseteq ActiveScheduled \/ ActiveScheduled \subseteq T}

\* shouldDownscale: there are enough bindings of this policy, or too many.
ShouldDownscale(desired, present) == desired <= present

\* runPostBatchPlugins: the smallest batch a plugin asks for, and at most the
\* clusters that are wanted.
BatchSizeLimit(desired) == Min({desired, BatchLimit})

\* calcNumOfClustersToSelect
NumToSelect(desired) == Min({desired, BatchSizeLimit(desired), Cardinality(Candidates)})

\* shouldRequeue: a plugin limits the batch and the batch was filled.
ShouldRequeue(desired, picked) ==
    desired > BatchSizeLimit(desired) /\ picked = BatchSizeLimit(desired)

PickNPlans ==
    LET desired == cache.policy.number
        present == Cardinality(Active)
        batch   == NumToSelect(desired - present)
        requeue == ShouldRequeue(desired - present, batch)
    IN  IF ShouldDownscale(desired, present)
        THEN {[IdleScheduler EXCEPT
                 !.drop     = Obsolete \cup T,
                 !.publish  = TRUE,
                 !.selected = ClustersOf(Active \ T)] :
                 T \in Trims(present - desired)}
        ELSE {CrossReference(P, ~requeue) : P \in TopScored(batch)}

Plans ==
    CASE PlacementType = "PickAll"   -> PickAllPlans
      [] PlacementType = "PickN"     -> PickNPlans
      [] PlacementType = "PickFixed" -> PickFixedPlans

----------------------------------------------------------------------------
\* lookupLatestPolicySnapshot finds one.
HasPolicy == cache.policy.index > 0

AddSchedulerCleanupFinalizer ==
    /\ sched.pc = "idle"
    /\ cache.placement.phase = "active"
    /\ HasPolicy
    /\ hub.placement.phase = "active"
    /\ ~hub.placement.fin
    /\ hub' = [hub EXCEPT !.placement.fin = TRUE]
    /\ UNCHANGED <<binding, schedFresh, rolloutFresh, cache, sched, decided>>

\* updatePolicySnapshotStatusFromBindings skips decisions that are the published
\* ones.
NewDecisions(plan) == plan.publish /\ plan.selected # decided

\* RunSchedulingCycleFor up to its first write.  A cycle that would write
\* nothing is left out.
StartCycle ==
    /\ sched.pc = "idle"
    /\ cache.placement.phase = "active"
    /\ cache.placement.fin
    /\ HasPolicy
    /\ \E plan \in Plans :
          /\ \/ ToUnfinalize # {} \/ Dangling # {}
             \/ plan.create # {} \/ plan.patch # {} \/ plan.drop # {}
             \/ NewDecisions(plan)
          /\ sched' = [plan EXCEPT !.pc = "cycle",
                                   !.unfinalize = ToUnfinalize,
                                   !.dangling = Dangling,
                                   !.policy = cache.policy]
    /\ schedFresh' = Existing
    /\ UNCHANGED <<binding, rolloutFresh, hub, cache, decided>>

\* removeFinalizerAndUpdate, retried on a conflict with the latest version.
RemoveFinalizer(b) ==
    /\ b \in sched.unfinalize \cap Existing
    /\ SchedulerWrites(b, Finalize([binding[b] EXCEPT !.schedFin = FALSE]))
    /\ sched' = [sched EXCEPT !.unfinalize = @ \ {b}]
    /\ UNCHANGED <<schedFresh, hub, cache, decided>>

\* generateBinding: a new name, the scheduler's finalizer, no resource snapshot.
GenerateBinding(c) ==
    [AbsentBinding EXCEPT !.phase = "live", !.cluster = c,
                          !.policy = sched.policy.index, !.schedFin = TRUE]

CreateBinding(c, b) ==
    /\ sched.unfinalize = {} /\ sched.dangling = {}
    /\ c \in sched.create
    /\ binding[b].phase = "absent"
    /\ SchedulerWrites(b, GenerateBinding(c))
    /\ sched' = [sched EXCEPT !.create = @ \ {c}]
    /\ UNCHANGED <<schedFresh, hub, cache, decided>>

\* patchBindings, with the optimistic lock.  A reused unscheduled binding gets
\* back the state recorded in its annotation; the annotation itself stays, for
\* it is removed from the object the patch is computed against.
PatchBinding(b) ==
    /\ sched.unfinalize = {} /\ sched.dangling = {} /\ sched.create = {}
    /\ b \in sched.patch \cap schedFresh
    /\ LET old == binding[b]
       IN  SchedulerWrites(b, NewGeneration(
              [old EXCEPT !.policy = sched.policy.index,
                          !.state = IF @ = "Unscheduled" THEN old.prev ELSE @]))
    /\ sched' = [sched EXCEPT !.patch = @ \ {b}]
    /\ UNCHANGED <<schedFresh, hub, cache, decided>>

\* The bindings whose turn it is to be marked unscheduled.
MarkTurn ==
    IF sched.unfinalize # {} THEN {}
    ELSE IF sched.dangling # {} THEN sched.dangling
    ELSE IF sched.create # {} \/ sched.patch # {} THEN {}
    ELSE sched.drop

\* Mutant: the binding also loses its resource snapshot.
MarkUnscheduledAfresh(b, prev) ==
    /\ b \in MarkTurn \cap Existing
    /\ SchedulerWrites(b, NewGeneration(
          [binding[b] EXCEPT !.state = "Unscheduled", !.prev = prev, !.snap = 0]))
    /\ sched' = [sched EXCEPT !.dangling = @ \ {b}, !.drop = @ \ {b}]
    /\ UNCHANGED <<schedFresh, hub, cache, decided>>

\* markUnscheduledForAndUpdate, retried on a conflict with the latest version.
\* prev is what the annotation records: the state the object in hand has.
MarkUnscheduledAs(b, prev) ==
    /\ b \in MarkTurn \cap Existing
    /\ SchedulerWrites(b, NewGeneration(
          [binding[b] EXCEPT !.state = "Unscheduled", !.prev = prev]))
    /\ sched' = [sched EXCEPT !.dangling = @ \ {b}, !.drop = @ \ {b}]
    /\ UNCHANGED <<schedFresh, hub, cache, decided>>

MarkUnscheduled(b) == MarkUnscheduledAs(b, binding[b].state)

\* The same after an attempt that the API server refused as unavailable: the
\* object in hand was already changed and the new attempt records its state.
RetryMarkUnscheduled(b) ==
    /\ b \in schedFresh
    /\ MarkUnscheduledAs(b, "Unscheduled")

\* updatePolicySnapshotStatus: refused when the policy snapshot has changed
\* since it was read (a newer one, or another number of clusters).
FinishCycle ==
    /\ sched.pc = "cycle"
    /\ sched.unfinalize = {} /\ sched.dangling = {} /\ sched.create = {}
    /\ sched.patch = {} /\ sched.drop = {}
    /\ decided' = IF sched.publish /\ sched.policy = hub.policy
                  THEN sched.selected
                  ELSE decided
    /\ sched' = IdleScheduler
    /\ schedFresh' = {}
    /\ UNCHANGED <<binding, rolloutFresh, hub, cache>>

----------------------------------------------------------------------------
(* cleanUpAllBindingsFor a deleted placement.                              *)

StartCleanup ==
    /\ sched.pc = "idle"
    /\ cache.placement.phase = "deleting"
    /\ cache.placement.fin
    /\ sched' = [IdleScheduler EXCEPT !.pc = "cleanup", !.wipe = Existing]
    /\ schedFresh' = Existing
    /\ UNCHANGED <<binding, rolloutFresh, hub, cache, decided>>

\* The loop takes one binding at a time: remove the finalizer, then delete.
CleanupFinalizer(b) ==
    /\ sched.erase = {}
    /\ b \in sched.wipe \cap schedFresh
    /\ SchedulerWrites(b, Finalize([binding[b] EXCEPT !.schedFin = FALSE]))
    /\ sched' = [sched EXCEPT !.wipe = @ \ {b},
                              !.erase = {b} \cap Live]
    /\ UNCHANGED <<schedFresh, hub, cache, decided>>

CleanupDelete(b) ==
    /\ b \in sched.erase
    /\ SchedulerWrites(b, MarkDeleting(binding[b]))
    /\ sched' = [sched EXCEPT !.erase = {}]
    /\ UNCHANGED <<schedFresh, hub, cache, decided>>

\* Mutant: the placement is let go as soon as the finalizers are removed.
FinishCleanupEarly ==
    /\ sched.pc = "cleanup"
    /\ sched.wipe = {}
    /\ hub' = [hub EXCEPT !.placement.phase = "gone", !.placement.fin = FALSE]
    /\ sched' = IdleScheduler
    /\ schedFresh' = {}
    /\ UNCHANGED <<binding, rolloutFresh, cache, decided>>

FinishCleanup ==
    /\ sched.pc = "cleanup"
    /\ sched.wipe = {} /\ sched.erase = {}
    /\ hub' = [hub EXCEPT !.placement.phase = "gone", !.placement.fin = FALSE]
    /\ sched' = IdleScheduler
    /\ schedFresh' = {}
    /\ UNCHANGED <<binding, rolloutFresh, cache, decided>>

----------------------------------------------------------------------------
\* A refused call: a version conflict that is not retried, or an object that is
\* gone.  The rest of the plan is given up and the key is queued again.
Refused ==
    \/ (sched.unfinalize \cup MarkTurn) \ Existing # {}
    \/ /\ sched.unfinalize = {} /\ sched.dangling = {} /\ sched.create = {}
       /\ sched.patch \ schedFresh # {}
    \/ sched.erase = {} /\ sched.wipe \ schedFresh # {}

AbandonCycle ==
    /\ sched.pc # "idle"
    /\ sched' = IdleScheduler
    /\ schedFresh' = {}
    /\ UNCHANGED <<binding, rolloutFresh, hub, cache, decided>>

SchedulerRefused == Refused /\ AbandonCycle

SchedulerInit ==
    /\ sched = IdleScheduler
    /\ decided = {}

SchedulerStep ==
    \/ AddSchedulerCleanupFinalizer
    \/ StartCycle
    \/ \E b \in Binding :
          \/ RemoveFinalizer(b)
          \/ PatchBinding(b)
          \/ MarkUnscheduled(b)
          \/ CleanupFinalizer(b)
          \/ CleanupDelete(b)
    \/ \E c \in Cluster, b \in Binding : CreateBinding(c, b)
    \/ FinishCycle
    \/ StartCleanup
    \/ FinishCleanup
    \/ SchedulerRefused
============================================================================
