-------------------------- MODULE PlacementProofs --------------------------
(***************************************************************************)
(* The scheduler, the rollout controller and the work generator together,  *)
(* for any number of bindings and clusters: types, at most one binding in  *)
(* use on a cluster, the refinement of the life of a binding; then the     *)
(* snapshots, the Works and the end of a placement.                        *)
(***************************************************************************)
EXTENDS Placement, FiniteSetTheorems, TLAPS

\* Zenon proves what is not arithmetic; SMT is cited for the rest.
USE ZenonT(30)

USE HubAssumption DEF BindingState, Report

\* What the writes of the controllers do to a stored binding.
LEMMA NewGenerationType ==
    ASSUME NEW r \in ResourceBinding
    PROVE  /\ NewGeneration(r) \in ResourceBinding
           /\ NewGeneration(r).phase = r.phase
           /\ NewGeneration(r).cluster = r.cluster
           /\ NewGeneration(r).state = r.state
           /\ NewGeneration(r).prev = r.prev
BY DEF NewGeneration, ResourceBinding

\* The records of a name not yet used and of a removed binding.
LEMMA AbsentType ==
    AbsentBinding \in ResourceBinding /\ GoneBinding \in ResourceBinding
<1>1. AbsentBinding \in ResourceBinding
  BY SMTT(60), HubAssumption DEF AbsentBinding, ResourceBinding, HubAssumption
<1>2. GoneBinding \in ResourceBinding
  BY <1>1 DEF GoneBinding, ResourceBinding
<1> QED BY <1>1, <1>2

\* Finalize either leaves a binding alone or removes a deleting one.
LEMMA FinalizeType ==
    ASSUME NEW r \in ResourceBinding
    PROVE  /\ Finalize(r) \in ResourceBinding
           /\ \/ Finalize(r) = r
              \/ r.phase = "deleting" /\ Finalize(r) = GoneBinding
BY AbsentType DEF Finalize

\* A delete call marks a live binding or removes it, and keeps its cluster.
LEMMA MarkDeletingType ==
    ASSUME NEW r \in ResourceBinding
    PROVE  /\ MarkDeleting(r) \in ResourceBinding
           /\ \/ MarkDeleting(r) = r /\ r.phase # "live"
              \/ r.phase = "live" /\ MarkDeleting(r) = GoneBinding
              \/ /\ r.phase = "live"
                 /\ MarkDeleting(r).phase = "deleting"
                 /\ MarkDeleting(r).cluster = r.cluster
                 /\ MarkDeleting(r).state = r.state
                 /\ MarkDeleting(r).prev = r.prev
<1> DEFINE d == [r EXCEPT !.phase = "deleting"]
<1>1. d \in ResourceBinding /\ d.phase = "deleting" /\ d.cluster = r.cluster
         /\ d.state = r.state /\ d.prev = r.prev
  BY DEF ResourceBinding
<1>2. NewGeneration(d) \in ResourceBinding /\ NewGeneration(d).phase = "deleting"
         /\ NewGeneration(d).cluster = r.cluster
         /\ NewGeneration(d).state = r.state /\ NewGeneration(d).prev = r.prev
  BY <1>1, NewGenerationType
<1> HIDE DEF d
<1>3. CASE r.phase = "live"
  <2>1. MarkDeleting(r) = Finalize(NewGeneration(d))
    BY <1>3 DEF MarkDeleting, d
  <2> QED BY <2>1, <1>2, <1>3, FinalizeType
<1>4. CASE r.phase # "live"
  BY <1>4 DEF MarkDeleting
<1> QED BY <1>3, <1>4

----------------------------------------------------------------------------
(* The writes, by what they do to the life of a binding.                   *)

Core ==
    /\ binding \in [Binding -> ResourceBinding]
    /\ rollout.update \subseteq Binding
    /\ OneLivePerCluster
    /\ NoBoundBesideDeleting
    /\ CreatesOnFreeClusters
    /\ UpdatesOnCleanClusters
    /\ UnscheduledRemembers

Holds(r) ==
    \/ r.state = "Bound"
    \/ r.state = "Unscheduled" /\ r.prev = "Bound"

\* Nothing new is planned.
PlansShrink ==
    /\ sched'.create \subseteq sched.create
    /\ rollout'.update \subseteq rollout.update

\* Phase and cluster stay and no resources are put anywhere.
Touches(b, r) ==
    /\ r.phase = binding[b].phase
    /\ r.cluster = binding[b].cluster
    /\ Holds(r) => Holds(binding[b])
    /\ r.state = "Unscheduled" => r.prev # None

\* A binding starts to be deleted, or goes away.
Retires(b, r) ==
    \/ r = GoneBinding /\ binding[b].phase \in {"live", "deleting"}
    \/ /\ binding[b].phase = "live"
       /\ r.phase = "deleting"
       /\ r.cluster = binding[b].cluster
       /\ r.state = binding[b].state
       /\ r.prev = binding[b].prev

\* A binding the rollout controller has planned to update is bound.
Binds(b, r) ==
    /\ b \in rollout.update
    /\ r.phase = binding[b].phase
    /\ r.cluster = binding[b].cluster
    /\ r.state = "Bound"

\* A binding comes into use on a cluster the scheduler has planned.
Creates(b, r, c) ==
    /\ c \in sched.create
    /\ sched'.create = sched.create \ {c}
    /\ rollout'.update \subseteq rollout.update
    /\ binding[b].phase = "absent"
    /\ r.phase = "live" /\ r.cluster = c /\ r.state = "Scheduled"

Writes ==
    \E b \in Binding, r \in ResourceBinding :
        /\ Store(b, r)
        /\ \/ PlansShrink /\ (Touches(b, r) \/ Retires(b, r) \/ Binds(b, r))
           \/ \E c \in Cluster : Creates(b, r, c)

----------------------------------------------------------------------------
(* The plans of the scheduler and of the rollout controller.               *)

\* The invariant splits into the types and what is said of the bindings.
LEMMA CoreOfInvariant ==
    InductiveInvariant <=> TypeOK /\ Core
BY DEF InductiveInvariant, Core, TypeOK, HubTypeOK, RolloutTypeOK, RolloutPlan

\* The parts of the hub's state that the plans are computed from.
LEMMA HubFields ==
    ASSUME HubTypeOK
    PROVE  /\ \A b \in Binding : binding[b] \in ResourceBinding
           /\ Live \subseteq Binding /\ Deleting \subseteq Binding
           /\ Existing \subseteq Binding
           /\ cache.clusters \subseteq Cluster
           /\ cache.policy.index \in 0..MaxPolicy /\ cache.policy.number \in Nat
           /\ cache.policy \in [index : 0..MaxPolicy, number : Nat]
           /\ cache.snap \in 0..MaxSnapshot
           /\ cache.placement.number \in Nat
           /\ cache.placement.strategy \in Strategies
BY DEF HubTypeOK, HubObjects, PlacementObj, PolicySnapshot, Live, Deleting, Existing

\* classifyBindings yields bindings, and reusable ones are in use.
LEMMA ClassesType ==
    ASSUME HubTypeOK
    PROVE  /\ Unscheduled \subseteq Live /\ Dangling \subseteq Live
           /\ Obsolete \subseteq Live /\ Active \subseteq Live
           /\ Live = Unscheduled \cup Dangling \cup Obsolete \cup Active
           /\ ToUnfinalize \subseteq Binding
           /\ Reusable = Obsolete \cup Unscheduled
           /\ \A S \in SUBSET Active : ClustersOf(S) \subseteq Cluster
           /\ \A b \in Dangling : binding[b].cluster \notin cache.clusters
           /\ Candidates \subseteq cache.clusters \ ClustersOf(Active)
<1>1. /\ Unscheduled \subseteq Live /\ Dangling \subseteq Live
      /\ Obsolete \subseteq Live /\ Active \subseteq Live
      /\ Live = Unscheduled \cup Dangling \cup Obsolete \cup Active
      /\ \A b \in Dangling : binding[b].cluster \notin cache.clusters
  BY DEF Unscheduled, Dangling, Obsolete, Active
<1>2. ToUnfinalize \subseteq Binding /\ Reusable = Obsolete \cup Unscheduled
  BY DEF ToUnfinalize, Deleting, Reusable
<1>3. \A b \in Active : binding[b].cluster \in cache.clusters
  BY DEF Active, Dangling
<1>4. \A S \in SUBSET Active : ClustersOf(S) \subseteq Cluster
  BY <1>3, HubFields DEF ClustersOf
<1>5. Candidates \subseteq cache.clusters \ ClustersOf(Active)
  BY DEF Candidates, Passed, AlreadySelected
<1> QED BY <1>1, <1>2, <1>4, <1>5

\* What the scheduler needs of a plan it starts.
GoodPlan(plan) ==
    /\ plan \in SchedulerPlan
    /\ \A c \in plan.create : \A b \in Live : binding[b].cluster # c

\* A scheduler at rest plans to create nothing.
LEMMA IdleIsGood == GoodPlan(IdleScheduler)
BY SMTT(60) DEF GoodPlan, SchedulerPlan, IdleScheduler

\* crossReferencePickedClustersAndDeDupBindings creates bindings only for
\* clusters without one in use: every live binding there would be reused.
LEMMA CrossReferenceIsGood ==
    ASSUME HubTypeOK, NEW picked \in SUBSET Candidates, NEW publish \in BOOLEAN
    PROVE  GoodPlan(CrossReference(picked, publish))
<1> DEFINE patch == {b \in Reusable : binding[b].cluster \in picked}
           plan == [IdleScheduler EXCEPT
                      !.create   = picked \ ClustersOf(Reusable),
                      !.patch    = patch,
                      !.drop     = Obsolete \ patch,
                      !.publish  = publish,
                      !.selected = Decisions(picked)]
<1>1. CrossReference(picked, publish) = IdleScheduler \/ CrossReference(picked, publish) = plan
  BY DEF CrossReference
<1>2. /\ picked \subseteq Cluster /\ ClustersOf(Active) \subseteq Cluster
      /\ patch \subseteq Binding /\ Obsolete \subseteq Binding
  BY ClassesType, HubFields
<1>3. \A c \in picked \ ClustersOf(Reusable) : \A b \in Live : binding[b].cluster # c
  BY ClassesType DEF ClustersOf
<1>4. GoodPlan(plan)
  <2> DEFINE missing == picked \ ClustersOf(Reusable)
             rest == Obsolete \ patch
             chosen == Decisions(picked)
  <2>1. /\ missing \in SUBSET Cluster /\ patch \in SUBSET Binding
        /\ rest \in SUBSET Binding /\ chosen \in SUBSET Cluster
        /\ \A c \in missing : \A b \in Live : binding[b].cluster # c
    BY <1>2, <1>3 DEF Decisions
  <2> HIDE DEF missing, patch, rest, chosen
  <2>2. plan = [IdleScheduler EXCEPT !.create = missing, !.patch = patch, !.drop = rest,
                                     !.publish = publish, !.selected = chosen]
    BY DEF missing, rest, chosen
  <2>3. plan \in SchedulerPlan /\ plan.create = missing
    BY <2>1, <2>2, IdleIsGood DEF SchedulerPlan, GoodPlan
  <2> QED BY <2>1, <2>3 DEF GoodPlan
<1> QED BY <1>1, <1>4, IdleIsGood

\* crossReferenceValidTargetsWithBindings creates bindings only for clusters
\* without one in use: each of the cases before the last takes one up.
LEMMA CrossReferenceTargetsIsGood ==
    ASSUME HubTypeOK, NEW valid \in SUBSET cache.clusters
    PROVE  GoodPlan(CrossReferenceTargets(valid))
<1> DEFINE open    == valid \ ClustersOf(Active)
           renewed == {b \in Obsolete : binding[b].cluster \in open}
           resumed == {b \in Unscheduled : binding[b].cluster \in open \ ClustersOf(renewed)}
           missing == open \ ClustersOf(renewed \cup resumed)
           patch   == renewed \cup resumed
           rest    == {b \in Obsolete : binding[b].cluster \notin valid}
           plan    == [IdleScheduler EXCEPT
                         !.create = missing, !.patch = patch, !.drop = rest,
                         !.publish = TRUE, !.selected = valid]
<1>1. CrossReferenceTargets(valid) = IdleScheduler \/ CrossReferenceTargets(valid) = plan
  BY DEF CrossReferenceTargets, FixedDecisions
<1>2. /\ valid \in SUBSET Cluster /\ missing \in SUBSET Cluster
      /\ patch \in SUBSET Binding /\ rest \in SUBSET Binding
  BY ClassesType, HubFields
<1>3. ASSUME NEW c \in missing, NEW b \in Live PROVE binding[b].cluster # c
  <2>1. CASE b \in Dangling
    BY <2>1, ClassesType
  <2>2. CASE b \in Active
    BY <2>2 DEF ClustersOf
  <2>3. CASE b \in Obsolete
    BY <2>3 DEF ClustersOf
  <2>4. CASE b \in Unscheduled
    BY <2>4 DEF ClustersOf
  <2> QED BY <2>1, <2>2, <2>3, <2>4, ClassesType
<1> HIDE DEF missing, patch, rest
<1>4. plan \in SchedulerPlan /\ plan.create = missing
  BY <1>2, IdleIsGood DEF SchedulerPlan, GoodPlan
<1>5. GoodPlan(plan)
  BY <1>3, <1>4 DEF GoodPlan
<1> QED BY <1>1, <1>5, IdleIsGood

\* So does a cycle of any of the three placement types.
LEMMA PlansAreGood ==
    ASSUME HubTypeOK, NEW plan \in Plans
    PROVE  GoodPlan(plan)
<1>1. Candidates \in SUBSET Candidates
  OBVIOUS
<1>2. CASE plan \in PickAllPlans
  BY <1>1, <1>2, CrossReferenceIsGood DEF PickAllPlans
<1>3. CASE plan \in PickFixedPlans
  <2>1. plan = IdleScheduler \/ plan = CrossReferenceTargets(ValidTargets)
    BY <1>3 DEF PickFixedPlans
  <2>2. ValidTargets \in SUBSET cache.clusters
    BY DEF ValidTargets, Passed
  <2> QED BY <2>1, <2>2, CrossReferenceTargetsIsGood, IdleIsGood
<1>4. CASE plan \in PickNPlans
  <2>1. ASSUME NEW T \in SUBSET Active
        PROVE  GoodPlan([IdleScheduler EXCEPT !.drop = Obsolete \cup T,
                                              !.publish = TRUE,
                                              !.selected = ClustersOf(Active \ T)])
    <3>1. ClustersOf(Active \ T) \subseteq Cluster /\ Obsolete \cup T \subseteq Binding
      BY ClassesType, HubFields
    <3> QED BY <3>1, IdleIsGood DEF GoodPlan, SchedulerPlan
  <2>2. \A n : Trims(n) \subseteq SUBSET Active
    BY DEF Trims
  <2>3. \A n : TopScored(n) \subseteq SUBSET Candidates
    BY DEF TopScored, kSubset
  <2>4. \/ \E T \in SUBSET Active :
              plan = [IdleScheduler EXCEPT !.drop = Obsolete \cup T,
                                           !.publish = TRUE,
                                           !.selected = ClustersOf(Active \ T)]
        \/ \E P \in SUBSET Candidates, publish \in BOOLEAN :
              plan = CrossReference(P, publish)
    <3> DEFINE desired == cache.policy.number
               present == Cardinality(Active)
               batch == NumToSelect(desired - present)
               requeue == ShouldRequeue(desired - present, batch)
    <3>1. (~requeue) \in BOOLEAN
      BY DEF ShouldRequeue
    <3>2. CASE ShouldDownscale(desired, present)
      <4>1. PICK T \in Trims(present - desired) :
              plan = [IdleScheduler EXCEPT !.drop = Obsolete \cup T,
                                           !.publish = TRUE,
                                           !.selected = ClustersOf(Active \ T)]
        BY <1>4, <3>2 DEF PickNPlans
      <4> QED BY <4>1, <2>2
    <3>3. CASE ~ShouldDownscale(desired, present)
      <4>1. PICK P \in TopScored(batch) : plan = CrossReference(P, ~requeue)
        BY <1>4, <3>3 DEF PickNPlans
      <4> HIDE DEF batch, requeue
      <4> QED BY <4>1, <2>3, <3>1
    <3> QED BY <3>2, <3>3
  <2> QED BY <2>1, <2>4, CrossReferenceIsGood
<1> QED BY <1>2, <1>3, <1>4 DEF Plans, HubAssumption

\* What the rollout controller needs of a plan it starts.
GoodRollout(p) ==
    /\ p \in RolloutPlan
    /\ \A b \in p.update :
          /\ binding[b].phase # "absent"
          /\ b \in Live => \A a \in Deleting : binding[a].cluster # binding[b].cluster

\* A rollout controller at rest plans no update.
LEMMA IdleRolloutIsGood ==
    GoodRollout(IdleRollout) /\ IdleRollout.update = {}
BY SMTT(60) DEF GoodRollout, RolloutPlan, IdleRollout, HubAssumption

\* pickBindingsToRoll sorts existing bindings, and the target is a number.
LEMMA RolloutSets ==
    ASSUME HubTypeOK
    PROVE  /\ Scheduled \subseteq Existing /\ Bound \subseteq Existing
           /\ Rolled \subseteq Existing /\ OutOfDate \subseteq Existing
           /\ UpToDate \subseteq Existing /\ RemoveCandidates \subseteq Existing
           /\ RealTarget \in Nat
<1>1. /\ Scheduled \subseteq Existing /\ Bound \subseteq Existing
      /\ Rolled \subseteq Existing /\ OutOfDate \subseteq Existing
      /\ UpToDate \subseteq Existing /\ RemoveCandidates \subseteq Existing
  BY DEF Scheduled, Bound, Rolled, OutOfDate, UpToDate, RemoveCandidates, InState
<1>2. Cardinality(Scheduled \cup Bound) \in Nat
  <2>1. Scheduled \cup Bound \subseteq Binding
    BY <1>1, HubFields
  <2>2. IsFiniteSet(Scheduled \cup Bound)
    BY <2>1, FS_Subset, HubAssumption DEF HubAssumption
  <2> QED BY <2>2, FS_CardinalityType
<1>3. RealTarget \in Nat
  BY <1>2, HubFields DEF RealTarget
<1> QED BY <1>1, <1>3

\* What fits in a budget is taken from the candidates.
LEMMA PicksType ==
    ASSUME NEW S, NEW n, NEW P \in Picks(S, n)
    PROVE  P \subseteq S
BY DEF Picks, kSubset

\* Behind waitForResourcesToCleanUp every planned update is of a binding
\* whose cluster has no other binding being deleted.
LEMMA RollPlanIsGood ==
    ASSUME HubTypeOK, ~WaitForCleanUp,
           NEW rem \in SUBSET RemoveCandidates,
           NEW upd \in SUBSET UpdateCandidates,
           NEW add \in SUBSET Scheduled
    PROVE  GoodRollout(RollPlan(rem, upd, add))
<1> DEFINE p == RollPlan(rem, upd, add)
           stale == {b \in (UpdateCandidates \ upd) \cup (Scheduled \ add) :
                        binding[b].started # "False"}
           refresh == {b \in UpToDate : binding[b].started # "True"}
           update == Failed(OutOfDate) \cup upd \cup add
           ready == Ready(Rolled \ Deleting)
<1>1. /\ stale \in SUBSET Binding /\ refresh \in SUBSET Binding
      /\ update \in SUBSET Existing /\ update \in SUBSET Binding
      /\ rem \in SUBSET Binding /\ ready \in SUBSET Binding
  BY RolloutSets, HubFields DEF Failed, Ready, UpdateCandidates
<1>2. p = [IdleRollout EXCEPT !.pc = "roll", !.stale = stale, !.refresh = refresh,
                              !.update = update, !.delete = rem, !.snap = cache.snap,
                              !.target = RealTarget, !.ready = ready]
  BY DEF RollPlan
<1> HIDE DEF p, stale, refresh, update, ready
<1>3. p \in RolloutPlan /\ p.update = update
  BY <1>1, <1>2, IdleRolloutIsGood, RolloutSets, HubFields DEF RolloutPlan, GoodRollout
<1>4. \A b \in Existing :
        /\ binding[b].phase # "absent"
        /\ b \in Live => \A a \in Deleting : binding[a].cluster # binding[b].cluster
  BY DEF WaitForCleanUp, Siblings, Live, Deleting, Existing
<1> QED BY <1>1, <1>3, <1>4 DEF GoodRollout, p

\* A plan for the apply strategy or for the status updates nothing.
LEMMA OtherPlansAreGood ==
    ASSUME HubTypeOK
    PROVE  GoodRollout(RefreshPlan) /\ GoodRollout(StrategyPlan)
<1> DEFINE refresh == {b \in Scheduled \cup Bound : binding[b].started # "True"}
<1>1. refresh \in SUBSET Binding /\ StrategyOutdated \in SUBSET Binding
  BY RolloutSets, HubFields DEF StrategyOutdated
<1> HIDE DEF refresh
<1>2. RefreshPlan = [IdleRollout EXCEPT !.pc = "roll", !.refresh = refresh]
  BY DEF RefreshPlan, refresh
<1>3. RefreshPlan \in RolloutPlan /\ RefreshPlan.update = {}
  BY <1>1, <1>2, IdleRolloutIsGood DEF RolloutPlan, GoodRollout
<1>4. StrategyPlan \in RolloutPlan /\ StrategyPlan.update = {}
  BY <1>1, HubFields, IdleRolloutIsGood DEF RolloutPlan, GoodRollout, StrategyPlan
<1> QED BY <1>3, <1>4 DEF GoodRollout

----------------------------------------------------------------------------
(* Every kind of step keeps the invariant.                                 *)

\* A new plan, made from the bindings as they are.
Replans ==
    /\ UNCHANGED binding
    /\ sched'.create \subseteq sched.create \/ GoodPlan(sched')
    /\ rollout'.update \subseteq rollout.update \/ GoodRollout(rollout')

USE DEF OneLivePerCluster, NoBoundBesideDeleting, CreatesOnFreeClusters,
        UpdatesOnCleanClusters, UnscheduledRemembers

\* A controller that makes or drops a plan keeps the invariant.
LEMMA ReplansKeep ==
    ASSUME Core, Replans
    PROVE  Core'
BY SMTT(60) DEF Core, Replans, GoodPlan, GoodRollout, RolloutPlan, HoldsResources, Live, Deleting

\* So does a write that leaves a binding on its cluster and gives it nothing.
LEMMA TouchesKeep ==
    ASSUME Core, PlansShrink, NEW b \in Binding, NEW r \in ResourceBinding,
           Store(b, r), Touches(b, r)
    PROVE  Core'
<1>1. \A x \in Binding : /\ binding'[x].phase = binding[x].phase
                         /\ binding'[x].cluster = binding[x].cluster
                         /\ Holds(binding'[x]) => Holds(binding[x])
                         /\ x # b => binding'[x] = binding[x]
                         /\ binding'[b] = r
  BY DEF Core, Store, Touches, Holds
<1>2. /\ binding' \in [Binding -> ResourceBinding]
      /\ rollout'.update \subseteq Binding
  BY DEF Core, Store, PlansShrink
<1>3. Live' = Live /\ Deleting' = Deleting
  BY <1>1 DEF Live, Deleting
<1>4. \A x \in Live : HoldsResources(x)' => HoldsResources(x)
  BY <1>1, <1>3 DEF Live, HoldsResources, Holds
<1>5. OneLivePerCluster' /\ NoBoundBesideDeleting'
  BY SMTT(60), <1>1, <1>3, <1>4 DEF Core, Live, Deleting
<1>6. CreatesOnFreeClusters'
  BY SMTT(60), <1>1, <1>3 DEF Core, PlansShrink, Live
<1>7. UpdatesOnCleanClusters'
  BY SMTT(60), <1>1, <1>3 DEF Core, PlansShrink, Live, Deleting
<1>8. UnscheduledRemembers'
  BY <1>1 DEF Core, Touches
<1> QED BY <1>2, <1>5, <1>6, <1>7, <1>8 DEF Core

\* So does a delete: with one binding in use per cluster, the deleted one
\* has no live sibling.
LEMMA RetiresKeep ==
    ASSUME Core, PlansShrink, NEW b \in Binding, NEW r \in ResourceBinding,
           Store(b, r), Retires(b, r)
    PROVE  Core'
<1>1. CASE r = GoneBinding
  <2>1. r.phase = "gone" /\ r.state = "Scheduled"
    BY <1>1 DEF GoneBinding, AbsentBinding
  <2> QED BY SMTT(60), <2>1 DEF Core, PlansShrink, HoldsResources, Live, Deleting, Store
<1>2. CASE r # GoneBinding
  BY SMTT(60), <1>2 DEF Core, PlansShrink, HoldsResources, Live, Deleting, Store, Retires
<1> QED BY <1>1, <1>2

\* So does an update planned by the rollout controller.
LEMMA BindsKeep ==
    ASSUME Core, PlansShrink, NEW b \in Binding, NEW r \in ResourceBinding,
           Store(b, r), Binds(b, r)
    PROVE  Core'
BY SMTT(60) DEF Core, PlansShrink, HoldsResources, Live, Deleting, Store, Binds

\* So does a creation planned by the scheduler.
LEMMA CreatesKeep ==
    ASSUME Core, NEW b \in Binding, NEW r \in ResourceBinding, NEW c \in Cluster,
           Store(b, r), Creates(b, r, c)
    PROVE  Core'
BY SMTT(60) DEF Core, HoldsResources, Live, Deleting, Store, Creates

\* So does any write of one binding of these kinds.
LEMMA WritesKeep ==
    ASSUME Core, Writes
    PROVE  Core'
BY TouchesKeep, RetiresKeep, BindsKeep, CreatesKeep DEF Writes

----------------------------------------------------------------------------
(* Every step is of one of these kinds, and keeps the types.               *)

\* r differs from the stored binding in other fields only.
Alike(b, r) ==
    /\ r \in ResourceBinding
    /\ r.phase = binding[b].phase
    /\ r.cluster = binding[b].cluster
    /\ r.state = binding[b].state
    /\ r.prev = binding[b].prev

\* A write that keeps phase, cluster, state and annotation touches nothing.
LEMMA AlikeTouches ==
    ASSUME Core, NEW b \in Binding, NEW r, Alike(b, r)
    PROVE  Touches(b, r)
BY DEF Core, Alike, Touches, Holds

\* Removing a finalizer leaves a binding as it was, or removes it.
LEMMA FinalizeWrites ==
    ASSUME Core, NEW b \in Binding, NEW r, Alike(b, r)
    PROVE  /\ Finalize(r) \in ResourceBinding
           /\ Touches(b, Finalize(r)) \/ Retires(b, Finalize(r))
<1>1. r \in ResourceBinding
  BY DEF Alike
<1>2. CASE Finalize(r) = r
  BY <1>1, <1>2, AlikeTouches
<1>3. CASE r.phase = "deleting" /\ Finalize(r) = GoneBinding
  BY <1>3, AbsentType DEF Retires, Alike
<1> QED BY <1>1, <1>2, <1>3, FinalizeType

\* A delete call retires a live binding.
LEMMA DeleteWrites ==
    ASSUME Core, NEW b \in Binding
    PROVE  /\ MarkDeleting(binding[b]) \in ResourceBinding
           /\ \/ Touches(b, MarkDeleting(binding[b]))
              \/ Retires(b, MarkDeleting(binding[b]))
<1>1. binding[b] \in ResourceBinding
  BY DEF Core
<1>2. CASE MarkDeleting(binding[b]) = binding[b]
  BY <1>1, <1>2, AlikeTouches DEF Alike
<1>3. CASE MarkDeleting(binding[b]) # binding[b]
  BY <1>1, <1>3, MarkDeletingType DEF Retires
<1> QED BY <1>1, <1>2, <1>3, MarkDeletingType

\* The parts of the state other than the bindings keep their types.
HubRest ==
    /\ schedFresh \subseteq Binding
    /\ rolloutFresh \subseteq Binding
    /\ hub \in HubObjects
    /\ cache \in HubObjects

SchedulerGoal == (Writes \/ Replans) /\ HubRest' /\ SchedulerTypeOK'

\* markUnscheduledForAndUpdate, first attempt or retry, touches the binding.
LEMMA MarkedKinds ==
    ASSUME InductiveInvariant, UNCHANGED rollout,
           NEW b \in Binding, NEW prev \in BindingState, MarkUnscheduledAs(b, prev),
           prev = "Bound" => binding[b].state = "Bound"
    PROVE  SchedulerGoal
<1>1. Core /\ HubRest /\ SchedulerTypeOK /\ binding[b] \in ResourceBinding
  BY CoreOfInvariant, HubFields DEF TypeOK, HubTypeOK, HubRest
<1> DEFINE new == [binding[b] EXCEPT !.state = "Unscheduled", !.prev = prev]
           r == NewGeneration(new)
<1>2. /\ new \in ResourceBinding /\ new.phase = binding[b].phase
      /\ new.cluster = binding[b].cluster
      /\ new.state = "Unscheduled" /\ new.prev = prev
  BY <1>1 DEF ResourceBinding
<1>3. r \in ResourceBinding /\ Touches(b, r)
  <2> HIDE DEF new
  <2> QED BY <1>2, NewGenerationType DEF Touches, Holds, HubAssumption
<1>4. sched' \in SchedulerPlan /\ sched'.create = sched.create
  BY <1>1 DEF MarkUnscheduledAs, SchedulerTypeOK, SchedulerPlan
<1>5. Writes
  BY <1>3, <1>4 DEF MarkUnscheduledAs, SchedulerWrites, Writes, PlansShrink
<1> QED BY <1>1, <1>4, <1>5
        DEF MarkUnscheduledAs, SchedulerWrites, HubRest, SchedulerTypeOK, SchedulerGoal

\* Every step of the scheduler is a write of one of the kinds, or a new plan.
LEMMA SchedulerKinds ==
    ASSUME InductiveInvariant, SchedulerStep, UNCHANGED rollout
    PROVE  SchedulerGoal
<1> USE CoreOfInvariant DEF SchedulerGoal
<1>0. /\ Core /\ HubTypeOK /\ HubRest /\ SchedulerTypeOK
      /\ \A b \in Binding : binding[b] \in ResourceBinding
      /\ IdleScheduler \in SchedulerPlan /\ IdleScheduler.create = {}
  BY HubFields, IdleIsGood DEF TypeOK, HubTypeOK, HubRest, GoodPlan, IdleScheduler
<1>1. CASE AddSchedulerCleanupFinalizer
  <2>1. hub' \in HubObjects
    BY <1>0, <1>1 DEF AddSchedulerCleanupFinalizer, HubRest, HubObjects, PlacementObj
  <2> QED BY <1>0, <1>1, <2>1 DEF AddSchedulerCleanupFinalizer, Replans, HubRest, SchedulerTypeOK
<1>2. CASE StartCycle
  <2>1. PICK plan \in Plans :
          sched' = [plan EXCEPT !.pc = "cycle", !.unfinalize = ToUnfinalize,
                                !.dangling = Dangling, !.policy = cache.policy]
    BY <1>2 DEF StartCycle
  <2>2. GoodPlan(plan)
    BY <1>0, PlansAreGood
  <2>3. ToUnfinalize \subseteq Binding /\ Dangling \subseteq Binding
    BY <1>0, ClassesType, HubFields
  <2>4. GoodPlan(sched') /\ sched' \in SchedulerPlan
    BY <1>0, <2>1, <2>2, <2>3, HubFields DEF GoodPlan, SchedulerPlan
  <2> QED BY <1>0, <1>2, <2>4, HubFields DEF StartCycle, Replans, HubRest, SchedulerTypeOK
<1>3. ASSUME NEW b \in Binding, RemoveFinalizer(b) PROVE SchedulerGoal
  <2> DEFINE r == [binding[b] EXCEPT !.schedFin = FALSE]
  <2>1. Alike(b, r)
    BY <1>0 DEF Alike, ResourceBinding
  <2>2. sched' \in SchedulerPlan /\ sched'.create = sched.create
    BY <1>0, <1>3 DEF RemoveFinalizer, SchedulerTypeOK, SchedulerPlan
  <2>3. Writes
    BY <1>0, <1>3, <2>1, <2>2, FinalizeWrites
       DEF RemoveFinalizer, SchedulerWrites, Writes, PlansShrink
  <2> QED BY <1>0, <1>3, <2>2, <2>3 DEF RemoveFinalizer, SchedulerWrites, HubRest, SchedulerTypeOK
<1>4. ASSUME NEW b \in Binding, PatchBinding(b) PROVE SchedulerGoal
  <2> DEFINE old == binding[b]
             new == [old EXCEPT !.policy = sched.policy.index,
                                !.state = IF @ = "Unscheduled" THEN old.prev ELSE @]
             r == NewGeneration(new)
             state == IF old.state = "Unscheduled" THEN old.prev ELSE old.state
  <2>1. /\ state \in BindingState /\ old \in ResourceBinding
        /\ sched.policy.index \in 0..MaxPolicy
    BY <1>0 DEF ResourceBinding, Core, SchedulerTypeOK, SchedulerPlan
  <2>2. new = [old EXCEPT !.policy = sched.policy.index, !.state = state]
    OBVIOUS
  <2>3. new \in ResourceBinding /\ new.phase = old.phase /\ new.cluster = old.cluster
           /\ new.prev = old.prev /\ new.state = state
    <3> HIDE DEF old, new, state
    <3> QED BY <2>1, <2>2 DEF ResourceBinding
  <2>4. r \in ResourceBinding /\ Touches(b, r)
    <3> HIDE DEF new
    <3> QED BY <1>0, <2>3, NewGenerationType DEF Touches, Holds, Core, HubAssumption
  <2>5. sched' \in SchedulerPlan /\ sched'.create = sched.create
    BY <1>0, <1>4 DEF PatchBinding, SchedulerTypeOK, SchedulerPlan
  <2>6. Writes
    BY <1>0, <1>4, <2>4, <2>5 DEF PatchBinding, SchedulerWrites, Writes, PlansShrink
  <2> QED BY <1>0, <1>4, <2>5, <2>6 DEF PatchBinding, SchedulerWrites, HubRest, SchedulerTypeOK
<1>6. ASSUME NEW b \in Binding, CleanupFinalizer(b) PROVE SchedulerGoal
  <2> DEFINE r == [binding[b] EXCEPT !.schedFin = FALSE]
  <2>1. Alike(b, r)
    BY <1>0 DEF Alike, ResourceBinding
  <2>2. sched' \in SchedulerPlan /\ sched'.create = sched.create
    BY <1>0, <1>6 DEF CleanupFinalizer, SchedulerTypeOK, SchedulerPlan
  <2>3. Writes
    BY <1>0, <1>6, <2>1, <2>2, FinalizeWrites
       DEF CleanupFinalizer, SchedulerWrites, Writes, PlansShrink
  <2> QED BY <1>0, <1>6, <2>2, <2>3 DEF CleanupFinalizer, SchedulerWrites, HubRest, SchedulerTypeOK
<1>7. ASSUME NEW b \in Binding, CleanupDelete(b) PROVE SchedulerGoal
  <2>1. sched' \in SchedulerPlan /\ sched'.create = sched.create
    BY <1>0, <1>7 DEF CleanupDelete, SchedulerTypeOK, SchedulerPlan
  <2>2. Writes
    BY <1>0, <1>7, <2>1, DeleteWrites DEF CleanupDelete, SchedulerWrites, Writes, PlansShrink
  <2> QED BY <1>0, <1>7, <2>1, <2>2 DEF CleanupDelete, SchedulerWrites, HubRest, SchedulerTypeOK
<1>8. ASSUME NEW c \in Cluster, NEW b \in Binding, CreateBinding(c, b) PROVE SchedulerGoal
  <2> DEFINE i == sched.policy.index
             r == [AbsentBinding EXCEPT !.phase = "live", !.cluster = c,
                                        !.policy = i, !.schedFin = TRUE]
  <2>1. i \in 0..MaxPolicy
    BY <1>0 DEF SchedulerTypeOK, SchedulerPlan
  <2>2. r \in ResourceBinding /\ r.phase = "live" /\ r.cluster = c /\ r.state = "Scheduled"
    <3> HIDE DEF i
    <3>1. AbsentBinding.state = "Scheduled"
      BY DEF AbsentBinding
    <3> QED BY <2>1, <3>1, AbsentType DEF ResourceBinding
  <2>3. sched' \in SchedulerPlan /\ sched'.create = sched.create \ {c}
    BY <1>0, <1>8 DEF CreateBinding, SchedulerTypeOK, SchedulerPlan
  <2>4. Creates(b, r, c) /\ Store(b, r)
    BY <1>8, <2>2, <2>3 DEF Creates, CreateBinding, GenerateBinding, SchedulerWrites
  <2>5. Writes
    BY <2>2, <2>4 DEF Writes
  <2> QED BY <1>0, <1>8, <2>3, <2>5 DEF CreateBinding, SchedulerWrites, HubRest, SchedulerTypeOK
<1>9. CASE FinishCycle
  <2>1. decided' \subseteq Cluster
    BY <1>0, <1>9 DEF FinishCycle, SchedulerTypeOK, SchedulerPlan
  <2> QED BY <1>0, <1>9, <2>1 DEF FinishCycle, Replans, HubRest, SchedulerTypeOK
<1>10. CASE StartCleanup
  <2>1. sched' \in SchedulerPlan /\ sched'.create = {}
    BY <1>0, <1>10, HubFields DEF StartCleanup, SchedulerPlan
  <2> QED BY <1>0, <1>10, <2>1, HubFields DEF StartCleanup, Replans, HubRest, SchedulerTypeOK
<1>11. CASE FinishCleanup
  <2>1. hub' \in HubObjects
    BY <1>0, <1>11 DEF FinishCleanup, HubRest, HubObjects, PlacementObj
  <2> QED BY <1>0, <1>11, <2>1 DEF FinishCleanup, Replans, HubRest, SchedulerTypeOK
<1>12. CASE SchedulerRefused
  BY <1>0, <1>12 DEF SchedulerRefused, AbandonCycle, Replans, HubRest, SchedulerTypeOK
<1>13. ASSUME NEW b \in Binding, MarkUnscheduled(b) PROVE SchedulerGoal
  <2>1. binding[b].state \in BindingState
    BY <1>0 DEF ResourceBinding
  <2> QED BY <1>13, <2>1, MarkedKinds DEF MarkUnscheduled
<1> QED BY <1>1, <1>2, <1>3, <1>4, <1>6, <1>7, <1>8, <1>9, <1>10, <1>11, <1>12, <1>13
        DEF SchedulerStep

RolloutGoal == (Writes \/ Replans) /\ HubRest' /\ RolloutTypeOK'

\* What is left of a rollout plan is a part of it.
LEMMA ContinueType ==
    ASSUME NEW p \in RolloutPlan, p.update \subseteq rollout.update,
           rolloutFresh \subseteq Binding, Continue(p)
    PROVE  /\ RolloutTypeOK'
           /\ rollout'.update \subseteq rollout.update
           /\ rolloutFresh' \subseteq Binding
BY IdleRolloutIsGood DEF Continue, RolloutTypeOK, GoodRollout

\* Taking up a good rollout plan is a new plan.
LEMMA StartPlanKinds ==
    ASSUME InductiveInvariant, UNCHANGED sched, NEW p, GoodRollout(p), StartPlan(p)
    PROVE  RolloutGoal
BY HubFields DEF RolloutGoal, StartPlan, Replans, HubRest, RolloutTypeOK, InductiveInvariant,
   TypeOK, HubTypeOK, GoodRollout

\* One write of the rollout controller followed by the rest of its plan.
LEMMA RolloutWriteKinds ==
    ASSUME InductiveInvariant, UNCHANGED <<sched, hub, cache>>,
           NEW b \in Binding, NEW r \in ResourceBinding, RolloutWrites(b, r),
           NEW p \in RolloutPlan, p.update \subseteq rollout.update, Continue(p),
           Touches(b, r) \/ Retires(b, r) \/ Binds(b, r)
    PROVE  RolloutGoal
<1>1. HubRest
  BY DEF InductiveInvariant, TypeOK, HubTypeOK, HubRest
<1>2. /\ RolloutTypeOK' /\ rollout'.update \subseteq rollout.update
      /\ rolloutFresh' \subseteq Binding
  BY <1>1, ContinueType DEF HubRest
<1>3. Writes
  BY <1>2 DEF Writes, PlansShrink, RolloutWrites
<1> QED BY <1>1, <1>2, <1>3 DEF RolloutGoal, HubRest, RolloutWrites

\* Every step of the rollout controller is a write of one of the kinds, or a
\* new plan.
LEMMA RolloutKinds ==
    ASSUME InductiveInvariant, RolloutStep, UNCHANGED sched
    PROVE  RolloutGoal
<1>0. /\ Core /\ HubTypeOK /\ rollout \in RolloutPlan
      /\ \A b \in Binding : binding[b] \in ResourceBinding
  BY CoreOfInvariant, HubFields DEF TypeOK, RolloutTypeOK
<1>1. CASE StartRollout
  <2>1. CASE StartPlan(StrategyPlan) \/ StartPlan(RefreshPlan)
    BY <1>0, <2>1, StartPlanKinds, OtherPlansAreGood
  <2>2. CASE ~WaitForCleanUp /\ StartRoll
    <3>1. PICK rem \in SUBSET RemoveCandidates, upd \in SUBSET UpdateCandidates,
               add \in SUBSET Scheduled : StartPlan(RollPlan(rem, upd, add))
      BY <2>2, PicksType DEF StartRoll
    <3> QED BY <1>0, <2>2, <3>1, RollPlanIsGood, StartPlanKinds
  <2> QED BY <1>1, <2>1, <2>2 DEF StartRollout
<1>2. ASSUME NEW b \in Binding, PatchStrategy(b) PROVE RolloutGoal
  <2> DEFINE new == [binding[b] EXCEPT !.strategy = rollout.strategy]
  <2>1. Alike(b, new)
    BY SMTT(60), <1>0 DEF Alike, ResourceBinding, RolloutPlan
  <2>2. Alike(b, NewGeneration(new))
    <3> HIDE DEF new
    <3> QED BY <2>1, NewGenerationType DEF Alike
  <2>3. Touches(b, NewGeneration(new)) /\ NewGeneration(new) \in ResourceBinding
    BY <1>0, <2>2, AlikeTouches DEF Alike
  <2> DEFINE p == [rollout EXCEPT !.strategic = @ \ {b}]
  <2>4. p \in RolloutPlan /\ p.update = rollout.update
    BY <1>0 DEF RolloutPlan
  <2> QED BY <1>2, <2>3, <2>4, RolloutWriteKinds DEF PatchStrategy
<1>3. ASSUME NEW b \in Binding, MarkStale(b) PROVE RolloutGoal
  <2> DEFINE r == [binding[b] EXCEPT !.started = "False"]
             p == [rollout EXCEPT !.stale = @ \ {b}]
  <2>1. Alike(b, r)
    BY <1>0 DEF Alike, ResourceBinding
  <2>2. Touches(b, r) /\ r \in ResourceBinding
    BY <1>0, <2>1, AlikeTouches DEF Alike
  <2>3. p \in RolloutPlan /\ p.update = rollout.update
    BY <1>0 DEF RolloutPlan
  <2> QED BY <1>3, <2>2, <2>3, RolloutWriteKinds DEF MarkStale
<1>4. ASSUME NEW b \in Binding, Refresh(b) PROVE RolloutGoal
  <2> DEFINE r == [binding[b] EXCEPT !.started = "True"]
             p == [rollout EXCEPT !.refresh = @ \ {b}]
  <2>1. Alike(b, r)
    BY <1>0 DEF Alike, ResourceBinding
  <2>2. Touches(b, r) /\ r \in ResourceBinding
    BY <1>0, <2>1, AlikeTouches DEF Alike
  <2>3. p \in RolloutPlan /\ p.update = rollout.update
    BY <1>0 DEF RolloutPlan
  <2> QED BY <1>4, <2>2, <2>3, RolloutWriteKinds DEF Refresh
<1>5. ASSUME NEW b \in Binding, UpdateBinding(b) PROVE RolloutGoal
  <2> DEFINE new == [binding[b] EXCEPT !.state = "Bound", !.snap = rollout.snap]
             p == [rollout EXCEPT !.update = @ \ {b}, !.start = @ \cup {b}]
  <2>1. /\ new \in ResourceBinding /\ new.phase = binding[b].phase
        /\ new.cluster = binding[b].cluster /\ new.state = "Bound"
    <3>1. rollout.snap \in 0..MaxSnapshot
      BY <1>0 DEF RolloutPlan
    <3> QED BY <1>0, <3>1 DEF ResourceBinding
  <2>2. NewGeneration(new) \in ResourceBinding /\ Binds(b, NewGeneration(new))
    <3> HIDE DEF new
    <3> QED BY <1>5, <2>1, NewGenerationType DEF Binds, UpdateBinding
  <2>3. p \in RolloutPlan /\ p.update \subseteq rollout.update
    BY <1>0 DEF RolloutPlan
  <2> QED BY <1>5, <2>2, <2>3, RolloutWriteKinds DEF UpdateBinding
<1>6. ASSUME NEW b \in Binding, MarkStarted(b) PROVE RolloutGoal
  <2> DEFINE r == [binding[b] EXCEPT !.started = "True"]
             p == [rollout EXCEPT !.start = @ \ {b}]
  <2>1. Alike(b, r)
    BY <1>0 DEF Alike, ResourceBinding
  <2>2. Touches(b, r) /\ r \in ResourceBinding
    BY <1>0, <2>1, AlikeTouches DEF Alike
  <2>3. p \in RolloutPlan /\ p.update = rollout.update
    BY <1>0 DEF RolloutPlan
  <2> QED BY <1>6, <2>2, <2>3, RolloutWriteKinds DEF MarkStarted
<1>7. ASSUME NEW b \in Binding, DeleteBinding(b) PROVE RolloutGoal
  <2> DEFINE p == [rollout EXCEPT !.delete = @ \ {b}]
  <2>1. p \in RolloutPlan /\ p.update = rollout.update
    BY <1>0 DEF RolloutPlan
  <2> QED BY <1>0, <1>7, <2>1, DeleteWrites, RolloutWriteKinds DEF DeleteBinding
<1>8. CASE RolloutRefused
  BY <1>0, <1>8, IdleRolloutIsGood
     DEF RolloutRefused, AbandonRollout, RolloutGoal, Replans, HubRest, HubTypeOK,
         RolloutTypeOK, GoodRollout
<1> QED BY <1>1, <1>2, <1>3, <1>4, <1>5, <1>6, <1>7, <1>8 DEF RolloutStep

DeliveryGoal == (Writes \/ Replans) /\ HubRest' /\ WorkDeliveryTypeOK'

\* A write of the work generator or of the eviction controller.
LEMMA OtherWriteKinds ==
    ASSUME InductiveInvariant, UNCHANGED <<sched, rollout>>,
           NEW b \in Binding, NEW r \in ResourceBinding, OtherWrites(b, r),
           Touches(b, r) \/ Retires(b, r)
    PROVE  Writes /\ HubRest'
BY DEF Writes, PlansShrink, OtherWrites, HubRest, InductiveInvariant, TypeOK, HubTypeOK

\* So is every step of the work generator and of the member agent.
LEMMA DeliveryKinds ==
    ASSUME InductiveInvariant, UNCHANGED <<sched, rollout>>, NEW b \in Binding,
           WorkDeliveryStep(b) \/ MemberReports(b, "failed")
    PROVE  DeliveryGoal
<1> USE DEF DeliveryGoal
<1>0. /\ Core /\ HubTypeOK /\ HubRest /\ WorkDeliveryTypeOK
      /\ binding[b] \in ResourceBinding /\ work[b] \in Works
  BY CoreOfInvariant, HubFields DEF TypeOK, HubTypeOK, HubRest, WorkDeliveryTypeOK
<1>1. CASE EnsureFinalizer(b)
  <2> DEFINE r == [binding[b] EXCEPT !.workFin = TRUE]
  <2>1. Alike(b, r)
    BY <1>0 DEF Alike, ResourceBinding
  <2>2. Touches(b, r) /\ r \in ResourceBinding
    BY <1>0, <2>1, AlikeTouches DEF Alike
  <2> QED BY <1>0, <1>1, <2>2, OtherWriteKinds DEF EnsureFinalizer, WorkDeliveryTypeOK
<1>2. ASSUME NEW report \in Report, OtherWrites(b, [binding[b] EXCEPT !.report = report])
      PROVE  Writes /\ HubRest'
  <2> DEFINE r == [binding[b] EXCEPT !.report = report]
  <2>1. Alike(b, r)
    BY <1>0 DEF Alike, ResourceBinding
  <2>2. Touches(b, r) /\ r \in ResourceBinding
    BY <1>0, <2>1, AlikeTouches DEF Alike
  <2> QED BY <1>2, <2>2, OtherWriteKinds
<1>3. CASE GenerateWorks(b)
  <2> DEFINE report == IF binding[b].strategy = "ReportDiff" THEN "Diffing" ELSE "Progressing"
             w == [snap |-> binding[b].snap, strategy |-> binding[b].strategy,
                   status |-> "pending"]
  <2>1. report \in Report /\ OtherWrites(b, [binding[b] EXCEPT !.report = report])
    BY <1>3 DEF GenerateWorks
  <2>2. w \in Works /\ work' = [work EXCEPT ![b] = w]
    BY <1>0, <1>3 DEF GenerateWorks, Works, ResourceBinding
  <2> HIDE DEF report, w
  <2> QED BY <1>0, <1>2, <2>1, <2>2 DEF WorkDeliveryTypeOK
<1>4. CASE ReportStatus(b)
  <2> DEFINE report == IF binding[b].snap = 0 THEN "Failed" ELSE ReportOf(b)
  <2>1. report \in Report
    BY DEF ReportOf
  <2>2. OtherWrites(b, [binding[b] EXCEPT !.report = report]) /\ UNCHANGED work
    BY <1>4 DEF ReportStatus
  <2> HIDE DEF report
  <2> QED BY <1>0, <1>2, <2>1, <2>2 DEF WorkDeliveryTypeOK
<1>5. CASE DeleteWorks(b)
  BY SMTT(60), <1>0, <1>5 DEF DeleteWorks, hubVars, Replans, HubRest, WorkDeliveryTypeOK, Works, NoWork
<1>6. CASE ReleaseBinding(b)
  <2> DEFINE r == [binding[b] EXCEPT !.workFin = FALSE]
  <2>1. Alike(b, r)
    BY <1>0 DEF Alike, ResourceBinding
  <2>2. Finalize(r) \in ResourceBinding /\ (Touches(b, Finalize(r)) \/ Retires(b, Finalize(r)))
    BY <1>0, <2>1, FinalizeWrites
  <2> QED BY <1>0, <1>6, <2>2, OtherWriteKinds DEF ReleaseBinding, WorkDeliveryTypeOK
<1>7. ASSUME NEW status \in {"up", "failed"}, MemberReports(b, status) PROVE DeliveryGoal
  BY <1>0, <1>7 DEF MemberReports, hubVars, Replans, HubRest, WorkDeliveryTypeOK, Works
<1>8. CASE UnavailablePeriodElapses(b)
  <2> DEFINE r == [binding[b] EXCEPT !.report = "Settled"]
  <2>1. Alike(b, r)
    BY <1>0 DEF Alike, ResourceBinding
  <2>2. Touches(b, r) /\ r \in ResourceBinding
    BY <1>0, <2>1, AlikeTouches DEF Alike
  <2>3. Writes
    BY <1>8, <2>2 DEF UnavailablePeriodElapses, Writes, PlansShrink
  <2> QED BY <1>0, <1>8, <2>3 DEF UnavailablePeriodElapses, HubRest, WorkDeliveryTypeOK
<1> QED BY <1>1, <1>3, <1>4, <1>5, <1>6, <1>7, <1>8 DEF WorkDeliveryStep

\* The budgets stay within their bounds.
LEMMA SpendType ==
    ASSUME budget \in Budget,
           NEW what \in {"edits", "moves", "errors", "evictions", "failures"}, Spend(what)
    PROVE  budget' \in Budget
<1> USE PlacementAssumption DEF PlacementAssumption, Budget, Spend
<1>1. CASE what = "edits" BY SMTT(60), <1>1
<1>2. CASE what = "moves" BY SMTT(60), <1>2
<1>3. CASE what = "errors" BY SMTT(60), <1>3
<1>4. CASE what = "evictions" BY SMTT(60), <1>4
<1>5. CASE what = "failures" BY SMTT(60), <1>5
<1> QED BY <1>1, <1>2, <1>3, <1>4, <1>5

StepGoal == (Writes \/ Replans) /\ TypeOK'

\* The user's edits and the fleet change only what the controllers read.
LEMMA EditKinds ==
    ASSUME InductiveInvariant, NEW h \in HubObjects, Edit(h),
           decided' \subseteq Cluster, budget' \in Budget
    PROVE  StepGoal
BY DEF StepGoal, Replans, Edit, InductiveInvariant, TypeOK, HubTypeOK, SchedulerTypeOK,
       RolloutTypeOK, WorkDeliveryTypeOK

\* An informer delivers objects of the right kind.
LEMMA SyncType ==
    ASSUME hub \in HubObjects, cache \in HubObjects, NEW kind \in DOMAIN hub
    PROVE  [cache EXCEPT ![kind] = hub[kind]] \in HubObjects
<1> USE DEF HubObjects
<1>1. kind \in {"placement", "policy", "snap", "clusters"}
  OBVIOUS
<1>2. CASE kind = "placement" BY <1>2
<1>3. CASE kind = "policy" BY <1>3
<1>4. CASE kind = "snap" BY <1>4
<1>5. CASE kind = "clusters" BY <1>5
<1> QED BY <1>1, <1>2, <1>3, <1>4, <1>5

\* Every edit of the user, and every move of a cluster.
LEMMA EditSteps ==
    ASSUME InductiveInvariant,
           \/ PublishPolicy \/ PublishSnapshot \/ ChangeNumber \/ ChangeStrategy
           \/ DeletePlacement \/ ClusterChange
    PROVE  StepGoal
<1>0. /\ hub \in HubObjects /\ decided \subseteq Cluster /\ budget \in Budget
      /\ hub.placement \in PlacementObj /\ hub.policy \in PolicySnapshot
  BY DEF InductiveInvariant, TypeOK, HubTypeOK, SchedulerTypeOK, HubObjects
<1>1. CASE PublishPolicy
  <2> DEFINE next == hub.policy.index + 1
             H(n) == [hub EXCEPT !.policy = [index |-> next, number |-> n],
                                 !.placement.number = n]
  <2>1. PICK n \in Numbers : Edit(H(n)) /\ decided' = {} /\ UNCHANGED budget
                              /\ hub.policy.index < MaxPolicy
    BY <1>1 DEF PublishPolicy
  <2>2. next \in 0..MaxPolicy
    BY SMTT(60), <1>0, <2>1 DEF PolicySnapshot, HubAssumption
  <2>3. H(n) \in HubObjects
    <3> HIDE DEF next
    <3> QED BY <1>0, <2>2 DEF HubObjects, PolicySnapshot, PlacementObj
  <2> QED BY <1>0, <2>1, <2>3, EditKinds
<1>2. CASE PublishSnapshot
  <2>1. [hub EXCEPT !.snap = @ + 1] \in HubObjects
    BY SMTT(60), <1>0, <1>2 DEF PublishSnapshot, HubObjects, HubAssumption
  <2> QED BY <1>0, <1>2, <2>1, EditKinds DEF PublishSnapshot
<1>3. CASE ChangeNumber
  <2>1. PICK n \in Numbers : Edit([hub EXCEPT !.policy.number = n, !.placement.number = n])
    BY <1>3 DEF ChangeNumber
  <2>2. [hub EXCEPT !.policy.number = n, !.placement.number = n] \in HubObjects
    BY <1>0 DEF HubObjects, PolicySnapshot, PlacementObj
  <2> QED BY <1>0, <1>3, <2>1, <2>2, EditKinds, SpendType DEF ChangeNumber
<1>4. CASE ChangeStrategy
  <2>1. PICK x \in Strategies : Edit([hub EXCEPT !.placement.strategy = x])
    BY <1>4 DEF ChangeStrategy
  <2>2. [hub EXCEPT !.placement.strategy = x] \in HubObjects
    BY <1>0 DEF HubObjects, PlacementObj
  <2> QED BY <1>0, <1>4, <2>1, <2>2, EditKinds, SpendType DEF ChangeStrategy
<1>5. CASE DeletePlacement
  <2> DEFINE phase == IF hub.placement.fin THEN "deleting" ELSE "gone"
  <2>1. Edit([hub EXCEPT !.placement.phase = phase])
    BY <1>5 DEF DeletePlacement
  <2>2. [hub EXCEPT !.placement.phase = phase] \in HubObjects
    BY <1>0 DEF HubObjects, PlacementObj
  <2> QED BY <1>0, <1>5, <2>1, <2>2, EditKinds, SpendType DEF DeletePlacement
<1>6. CASE ClusterChange
  <2>1. PICK c \in Cluster :
          Edit([hub EXCEPT !.clusters = IF c \in @ THEN @ \ {c} ELSE @ \cup {c}])
    BY <1>6 DEF ClusterChange
  <2>2. [hub EXCEPT !.clusters = IF c \in @ THEN @ \ {c} ELSE @ \cup {c}] \in HubObjects
    BY <1>0 DEF HubObjects
  <2> QED BY <1>0, <1>6, <2>1, <2>2, EditKinds, SpendType DEF ClusterChange
<1> QED BY <1>1, <1>2, <1>3, <1>4, <1>5, <1>6

\* Every step of the whole system is a write of one of the kinds, or a new
\* plan, and keeps the types.
LEMMA NextKinds ==
    ASSUME InductiveInvariant, Next
    PROVE  Core' /\ StepGoal
<1>0. Core /\ TypeOK
  BY CoreOfInvariant
<1> SUFFICES StepGoal
  BY <1>0, WritesKeep, ReplansKeep DEF StepGoal
<1>stored. ASSUME Writes \/ Replans PROVE binding' \in [Binding -> ResourceBinding]
  BY <1>0, <1>stored, WritesKeep, ReplansKeep DEF Core
<1> USE DEF TypeOK, StepGoal
<1>1. CASE Schedule
  BY <1>0, <1>stored, <1>1, SchedulerKinds
     DEF Schedule, SchedulerGoal, HubTypeOK, HubRest, RolloutTypeOK, WorkDeliveryTypeOK
<1>2. CASE Roll
  BY <1>0, <1>stored, <1>2, RolloutKinds
     DEF Roll, RolloutGoal, HubTypeOK, HubRest, SchedulerTypeOK, WorkDeliveryTypeOK
<1>3. ASSUME NEW b \in Binding, Deliver(b) PROVE StepGoal
  BY <1>0, <1>stored, <1>3, DeliveryKinds
     DEF Deliver, DeliveryGoal, HubTypeOK, HubRest, SchedulerTypeOK, RolloutTypeOK
<1>4. ASSUME NEW b \in Binding, Evict(b) PROVE StepGoal
  <2>1. Writes /\ HubRest'
    BY <1>0, <1>4, DeleteWrites, OtherWriteKinds DEF Evict
  <2> QED BY <1>0, <1>stored, <1>4, <2>1, SpendType
          DEF Evict, HubTypeOK, HubRest, SchedulerTypeOK, RolloutTypeOK, WorkDeliveryTypeOK
<1>5. CASE CacheSync
  <2>1. cache' \in HubObjects
    BY <1>0, <1>5, SyncType DEF CacheSync, HubTypeOK
  <2> QED BY <1>0, <1>5, <2>1
          DEF CacheSync, Replans, HubTypeOK, SchedulerTypeOK, RolloutTypeOK, WorkDeliveryTypeOK
<1>6. CASE PublishPolicy \/ PublishSnapshot \/ ChangeNumber \/ ChangeStrategy
             \/ DeletePlacement \/ ClusterChange
  BY <1>6, EditSteps
<1>7. CASE Interrupt
  <2>1. budget' \in Budget /\ UNCHANGED <<binding, hub, cache, work>>
    BY <1>0, <1>7, SpendType DEF Interrupt, AbandonCycle, AbandonRollout
  <2>2. /\ SchedulerTypeOK' /\ RolloutTypeOK'
        /\ schedFresh' \subseteq Binding /\ rolloutFresh' \subseteq Binding /\ Replans
    BY <1>0, <1>7, IdleIsGood, IdleRolloutIsGood
       DEF Interrupt, AbandonCycle, AbandonRollout, SchedulerTypeOK, RolloutTypeOK,
           HubTypeOK, Replans, GoodPlan, GoodRollout
  <2> QED BY <1>0, <2>1, <2>2 DEF HubTypeOK, WorkDeliveryTypeOK
<1>8. CASE RetriedMark
  <2>1. PICK b \in Binding : MarkUnscheduledAs(b, "Unscheduled")
    BY <1>8 DEF RetriedMark, RetryMarkUnscheduled
  <2>2. SchedulerGoal
    BY <1>8, <2>1, MarkedKinds DEF RetriedMark
  <2> QED BY <1>0, <1>stored, <1>8, <2>2, SpendType
          DEF RetriedMark, SchedulerGoal, HubTypeOK, HubRest, RolloutTypeOK, WorkDeliveryTypeOK
<1>9. CASE MemberFails
  <2>1. DeliveryGoal
    BY <1>9, DeliveryKinds DEF MemberFails
  <2> QED BY <1>0, <1>stored, <1>9, <2>1, SpendType
          DEF MemberFails, DeliveryGoal, HubTypeOK, HubRest, SchedulerTypeOK, RolloutTypeOK
<1> QED BY <1>1, <1>2, <1>3, <1>4, <1>5, <1>6, <1>7, <1>8, <1>9 DEF Next

----------------------------------------------------------------------------
(* The theorems.                                                           *)

\* The invariant holds before anything is published.
LEMMA InitInvariant == Init => InductiveInvariant
<1> SUFFICES ASSUME Init PROVE InductiveInvariant
  OBVIOUS
<1>1. HubTypeOK
  <2>1. binding \in [Binding -> ResourceBinding]
    BY AbsentType DEF Init, HubInit
  <2>2. hub \in HubObjects
    BY SMTT(60) DEF Init, HubInit, HubObjects, PlacementObj, PolicySnapshot, HubAssumption
  <2> QED BY <2>1, <2>2 DEF Init, HubInit, HubTypeOK
<1>2. SchedulerTypeOK /\ sched.create = {}
  BY IdleIsGood DEF Init, SchedulerInit, SchedulerTypeOK, GoodPlan, IdleScheduler
<1>3. RolloutTypeOK /\ rollout.update = {}
  BY IdleRolloutIsGood DEF Init, RolloutInit, RolloutTypeOK, GoodRollout
<1>4. WorkDeliveryTypeOK
  BY SMTT(60) DEF Init, WorkDeliveryInit, WorkDeliveryTypeOK, NoWork, Works, HubAssumption
<1>5. budget \in Budget
  BY PlacementAssumption DEF Init, Budget, PlacementAssumption
<1>6. \A b \in Binding : binding[b].phase = "absent" /\ binding[b].state = "Scheduled"
  BY DEF Init, HubInit, AbsentBinding
<1>7. Live = {} /\ Deleting = {}
  BY <1>6 DEF Live, Deleting
<1> QED BY <1>1, <1>2, <1>3, <1>4, <1>5, <1>6, <1>7 DEF InductiveInvariant, TypeOK

\* Every step of every controller, user, cluster and failure keeps it.
LEMMA NextInvariant == InductiveInvariant /\ [Next]_vars => InductiveInvariant'
<1> SUFFICES ASSUME InductiveInvariant, [Next]_vars PROVE InductiveInvariant'
  OBVIOUS
<1>1. CASE Next
  BY <1>1, NextKinds, CoreOfInvariant, PTL DEF StepGoal
<1>2. CASE UNCHANGED vars
  <2>1. TypeOK'
    BY <1>2 DEF vars, InductiveInvariant, TypeOK, HubTypeOK, SchedulerTypeOK, RolloutTypeOK,
       WorkDeliveryTypeOK
  <2>2. Live' = Live /\ Deleting' = Deleting
    BY <1>2 DEF vars, Live, Deleting
  <2>3. \A b \in Binding : HoldsResources(b)' = HoldsResources(b)
    BY <1>2, <2>2 DEF vars, HoldsResources
  <2>4. OneLivePerCluster' /\ CreatesOnFreeClusters' /\ UnscheduledRemembers'
    BY <1>2, <2>2 DEF vars, InductiveInvariant
  <2>5. NoBoundBesideDeleting'
    BY <1>2, <2>2, <2>3 DEF vars, InductiveInvariant, Live
  <2>6. UpdatesOnCleanClusters'
    BY <1>2, <2>2 DEF vars, InductiveInvariant
  <2> QED BY <2>1, <2>4, <2>5, <2>6 DEF InductiveInvariant
<1> QED BY <1>1, <1>2

\* The inductive invariant holds in every reachable state, whatever the number
\* of clusters, bindings, policies, snapshots, errors and evictions.
THEOREM Invariance == Spec => []InductiveInvariant
BY InitInvariant, NextInvariant, PTL DEF Spec

\* Every object of a placement, the plans of its controllers and its Works keep
\* their types, for any number of clusters, bindings, policies and snapshots.
THEOREM TypesHold == Spec => []TypeOK
BY Invariance, PTL DEF InductiveInvariant

\* However scheduling cycles, rollouts, evictions, restarts and lagging caches
\* are interleaved, no cluster ever has two bindings in use, and no binding has
\* resources on a cluster where another one is still being deleted: the two
\* "unexpected behaviors" of waitForResourcesToCleanUp never happen.
THEOREM NoTwoInUse == Spec => []OneLivePerCluster
<1>1. InductiveInvariant => OneLivePerCluster
  BY DEF InductiveInvariant
<1> QED BY <1>1, Invariance, PTL

\* No binding that has resources on its cluster has a sibling there which is
\* still being deleted: waitForResourcesToCleanUp holds every update back until
\* the deletion is over, and what was read before stays true until the write.
THEOREM NoBoundSibling == Spec => []NoBoundBesideDeleting
<1>1. InductiveInvariant => NoBoundBesideDeleting
  BY DEF InductiveInvariant
<1> QED BY <1>1, Invariance, PTL

----------------------------------------------------------------------------
(* The placement implements the abstract life of its bindings.             *)

StageOf(r) == IF r.phase = "live" /\ Holds(r) THEN "placed" ELSE r.phase

\* The abstract life of a binding is read off the stored object ...
LEMMA LifeOfStored ==
    ASSUME NEW b \in Binding
    PROVE  LifeOf(b) = [stage |-> StageOf(binding[b]), cluster |-> binding[b].cluster]
BY DEF LifeOf, StageOf, HoldsResources, Holds, Live

\* ... in the next state as well.
LEMMA NextLifeOfStored ==
    ASSUME NEW b \in Binding
    PROVE  LifeOf(b)' = [stage |-> StageOf(binding'[b]), cluster |-> binding'[b].cluster]
BY DEF LifeOf, StageOf, HoldsResources, Holds, Live

\* A write of one binding is a step of that binding's life alone.
LEMMA OneLifeChanges ==
    ASSUME Core, NEW b \in Binding, NEW r \in ResourceBinding, Store(b, r)
    PROVE  MappedLife' = [MappedLife EXCEPT ![b] = [stage |-> StageOf(r), cluster |-> r.cluster]]
<1>1. binding'[b] = r /\ \A x \in Binding \ {b} : binding'[x] = binding[x]
  BY DEF Core, Store
<1>2. LifeOf(b)' = [stage |-> StageOf(r), cluster |-> r.cluster]
  BY <1>1, NextLifeOfStored
<1>3. \A x \in Binding \ {b} : LifeOf(x)' = LifeOf(x)
  BY <1>1, LifeOfStored, NextLifeOfStored
<1>4. MappedLife' = [x \in Binding |-> LifeOf(x)']
  BY DEF MappedLife
<1>5. MappedLife = [x \in Binding |-> LifeOf(x)]
  BY DEF MappedLife
<1> QED BY <1>2, <1>3, <1>4, <1>5

\* Every kind of write is a step of the abstract life of the binding.
LEMMA WritesRefine ==
    ASSUME Core, Writes
    PROVE  Lifecycle!LifeNext \/ UNCHANGED MappedLife
<1>1. PICK b \in Binding, r \in ResourceBinding :
        /\ Store(b, r)
        /\ \/ PlansShrink /\ (Touches(b, r) \/ Retires(b, r) \/ Binds(b, r))
           \/ \E c \in Cluster : Creates(b, r, c)
  BY DEF Writes
<1> DEFINE old == binding[b]
           new == [stage |-> StageOf(r), cluster |-> r.cluster]
<1>2. MappedLife' = [MappedLife EXCEPT ![b] = new]
  BY <1>1, OneLifeChanges
<1>3. \A x \in Binding : /\ MappedLife[x].stage = StageOf(binding[x])
                         /\ MappedLife[x].cluster = binding[x].cluster
                         /\ MappedLife[x] = LifeOf(x)
  BY SMTT(60), LifeOfStored DEF MappedLife
<1>4. /\ MappedLife \in [Binding -> Lifecycle!Life]
      /\ \A x \in Binding : binding[x] \in ResourceBinding
  <2>1. \A x \in Binding : binding[x] \in ResourceBinding
    BY DEF Core
  <2>2. ASSUME NEW x \in Binding PROVE LifeOf(x) \in Lifecycle!Life
    <3>1. binding[x].cluster \in Cluster \cup {None}
      BY <2>1 DEF ResourceBinding
    <3>2. binding[x].phase \in {"absent", "live", "deleting", "gone"}
      BY <2>1 DEF ResourceBinding
    <3>3. StageOf(binding[x]) \in {"absent", "live", "placed", "deleting", "gone"}
      BY <3>2 DEF StageOf
    <3> QED BY SMTT(60), <3>1, <3>3, LifeOfStored DEF Lifecycle!Life
  <2> QED BY <2>1, <2>2 DEF MappedLife
<1>5. CASE StageOf(r) = StageOf(old) /\ r.cluster = old.cluster
  <2>1. new = MappedLife[b]
    BY <1>3, <1>5, LifeOfStored
  <2> HIDE DEF new
  <2> QED BY <1>2, <1>4, <2>1
<1>6. CASE Touches(b, r) /\ StageOf(r) # StageOf(old)
  <2>1. StageOf(old) = "placed" /\ StageOf(r) = "live" /\ r.cluster = old.cluster
    BY <1>6 DEF Touches, StageOf
  <2>2. Lifecycle!Forget(b)
    <3>1. new = [stage |-> "live", cluster |-> MappedLife[b].cluster]
      BY <1>3, <2>1
    <3> HIDE DEF new
    <3> QED BY <1>2, <1>3, <3>1, <2>1 DEF Lifecycle!Forget
  <2> QED BY <2>2 DEF Lifecycle!LifeNext
<1>7. CASE Retires(b, r)
  <2>1. CASE r = GoneBinding
    <3>1. StageOf(r) = "gone" /\ r.cluster = None /\ StageOf(old) \in {"live", "placed", "deleting"}
      BY <1>7, <2>1 DEF Retires, StageOf, GoneBinding, AbsentBinding
    <3>2. Lifecycle!Vanish(b)
      BY <1>2, <1>3, <1>4, <3>1 DEF Lifecycle!Vanish, Lifecycle!Life
    <3> QED BY <3>2 DEF Lifecycle!LifeNext
  <2>2. CASE r # GoneBinding
    <3>1. /\ StageOf(r) = "deleting" /\ r.cluster = old.cluster
          /\ StageOf(old) \in {"live", "placed"}
      BY <1>7, <2>2 DEF Retires, StageOf
    <3>2. Lifecycle!Remove(b)
      <4>1. new = [stage |-> "deleting", cluster |-> MappedLife[b].cluster]
        BY <1>3, <3>1
      <4> HIDE DEF new
      <4> QED BY <1>2, <1>3, <4>1, <3>1 DEF Lifecycle!Remove
    <3> QED BY <3>2 DEF Lifecycle!LifeNext
  <2> QED BY <2>1, <2>2
<1>8. CASE Binds(b, r) /\ StageOf(r) # StageOf(old)
  <2>1. /\ StageOf(old) = "live" /\ StageOf(r) = "placed" /\ r.cluster = old.cluster
        /\ old.phase = "live"
    BY <1>8 DEF Binds, StageOf, Holds
  <2>2. \A a \in Binding : binding[a].phase = "deleting" => binding[a].cluster # old.cluster
    BY <1>8, <2>1 DEF Binds, Core, Live, Deleting
  <2>3. Lifecycle!Leaving(MappedLife[b].cluster) = {}
    BY <1>3, <2>2 DEF Lifecycle!Leaving, StageOf
  <2>4. Lifecycle!Place(b)
    <3>1. new = [stage |-> "placed", cluster |-> MappedLife[b].cluster]
      BY <1>3, <2>1
    <3> HIDE DEF new
    <3> QED BY <1>2, <1>3, <3>1, <2>1, <2>3 DEF Lifecycle!Place
  <2> QED BY <2>4 DEF Lifecycle!LifeNext
<1>9. ASSUME NEW c \in Cluster, Creates(b, r, c) PROVE Lifecycle!LifeNext
  <2>1. StageOf(old) = "absent" /\ StageOf(r) = "live" /\ r.cluster = c
    BY <1>9 DEF Creates, StageOf, Holds
  <2>2. \A a \in Binding : binding[a].phase = "live" => binding[a].cluster # c
    BY <1>9 DEF Creates, Core, Live
  <2>3. Lifecycle!InUse(c) = {}
    <3>1. ASSUME NEW a \in Binding, StageOf(binding[a]) \in {"live", "placed"}
          PROVE  binding[a].cluster # c
      <4>1. binding[a].phase # "placed"
        BY <1>4 DEF ResourceBinding
      <4>2. binding[a].phase = "live"
        BY <3>1, <4>1 DEF StageOf
      <4> QED BY <2>2, <4>2
    <3> QED BY <1>3, <3>1 DEF Lifecycle!InUse
  <2>4. Lifecycle!Create(b, c)
    <3>1. new = [stage |-> "live", cluster |-> c]
      BY <2>1
    <3> HIDE DEF new
    <3> QED BY <1>2, <1>3, <3>1, <2>1, <2>3 DEF Lifecycle!Create
  <2> QED BY <2>4 DEF Lifecycle!LifeNext
<1>10. Touches(b, r) \/ Binds(b, r) => r.cluster = old.cluster
  BY DEF Touches, Binds
<1> QED BY <1>1, <1>5, <1>6, <1>7, <1>8, <1>9, <1>10

\* A new plan is invisible in it.
LEMMA ReplansRefine ==
    ASSUME Replans
    PROVE  UNCHANGED MappedLife
<1>1. \A x \in Binding : LifeOf(x)' = LifeOf(x)
  BY LifeOfStored, NextLifeOfStored DEF Replans
<1> QED BY <1>1 DEF MappedLife

\* No binding has begun its life at first.
LEMMA InitRefines == Init => Lifecycle!LifeInit
<1> SUFFICES ASSUME Init PROVE Lifecycle!LifeInit
  OBVIOUS
<1>1. \A b \in Binding : binding[b].phase = "absent" /\ binding[b].cluster = None
  BY DEF Init, HubInit, AbsentBinding
<1>2. \A b \in Binding : LifeOf(b) = [stage |-> "absent", cluster |-> None]
  BY <1>1, LifeOfStored DEF StageOf
<1> QED BY <1>2 DEF Lifecycle!LifeInit, MappedLife

\* The scheduler, the rollout controller, the work generator, the evictions and
\* the restarts together implement BindingLifecycle: a binding is created only
\* for a cluster without one in use and gets resources only once the bindings
\* deleted there before it are gone.
THEOREM Refinement == Spec => ImplementsLifecycle
<1>1. Init => Lifecycle!LifeInit
  BY InitRefines
<1>2. InductiveInvariant /\ [Next]_vars => [Lifecycle!LifeNext]_MappedLife
  <2>1. InductiveInvariant /\ Next => Lifecycle!LifeNext \/ UNCHANGED MappedLife
    BY NextKinds, WritesRefine, ReplansRefine, CoreOfInvariant DEF StepGoal
  <2>2. UNCHANGED vars => UNCHANGED MappedLife
    <3>1. UNCHANGED vars => \A x \in Binding : LifeOf(x)' = LifeOf(x)
      BY LifeOfStored, NextLifeOfStored DEF vars
    <3> QED BY <3>1 DEF MappedLife
  <2> QED BY <2>1, <2>2
<1> QED BY <1>1, <1>2, Invariance, PTL DEF Spec, ImplementsLifecycle, Lifecycle!LifeSpec

----------------------------------------------------------------------------
(* Delivery: resource snapshots, Works and the end of a placement.         *)

HIDE HubAssumption DEF BindingState, Report
HIDE DEF OneLivePerCluster, NoBoundBesideDeleting, CreatesOnFreeClusters,
        UpdatesOnCleanClusters, UnscheduledRemembers

\* What the writes do to the fields these proofs are about.
LEMMA GenerationKeeps ==
    ASSUME NEW r \in ResourceBinding
    PROVE  /\ NewGeneration(r).snap = r.snap
           /\ NewGeneration(r).workFin = r.workFin
BY DEF NewGeneration, ResourceBinding

\* Finalize removes a binding only when the work generator has let it go.
LEMMA FinalizeKeeps ==
    ASSUME NEW r \in ResourceBinding
    PROVE  \/ Finalize(r) = r
           \/ r.phase = "deleting" /\ ~r.workFin /\ Finalize(r) = GoneBinding
BY DEF Finalize

\* So does a delete call.
LEMMA MarkDeletingKeeps ==
    ASSUME NEW r \in ResourceBinding
    PROVE  \/ MarkDeleting(r) = r /\ r.phase # "live"
           \/ r.phase = "live" /\ ~r.workFin /\ MarkDeleting(r) = GoneBinding
           \/ /\ r.phase = "live" /\ MarkDeleting(r).phase = "deleting"
              /\ MarkDeleting(r).snap = r.snap /\ MarkDeleting(r).workFin = r.workFin
<1> DEFINE d == [r EXCEPT !.phase = "deleting"]
           n == NewGeneration(d)
<1>1. d \in ResourceBinding /\ d.phase = "deleting" /\ d.snap = r.snap /\ d.workFin = r.workFin
  BY DEF ResourceBinding
<1>2. n \in ResourceBinding /\ n.phase = "deleting" /\ n.snap = r.snap /\ n.workFin = r.workFin
  <2> HIDE DEF d
  <2> QED BY <1>1, NewGenerationType, GenerationKeeps
<1> HIDE DEF n
<1>3. CASE r.phase = "live"
  <2>1. MarkDeleting(r) = Finalize(n)
    BY <1>3 DEF MarkDeleting, n
  <2> QED BY <2>1, <1>2, <1>3, FinalizeKeeps
<1>4. CASE r.phase # "live"
  BY <1>4 DEF MarkDeleting
<1> QED BY <1>3, <1>4

----------------------------------------------------------------------------
(* The writes, by what they do to the snapshot and the finalizer.           *)

\* A write that leaves the phase and the snapshot alone and takes no finalizer.
Serves(b, r) ==
    /\ r.phase = binding[b].phase
    /\ r.snap = binding[b].snap
    /\ binding[b].workFin => r.workFin

\* The binding is marked, or, without the finalizer of the work generator, removed.
Drops(b, r) ==
    \/ /\ binding[b].phase = "live" /\ r.phase = "deleting"
       /\ r.snap = binding[b].snap /\ r.workFin = binding[b].workFin
    \/ r = GoneBinding /\ ~binding[b].workFin

\* The work generator lets a binding without Works go.
Releases(b, r) ==
    /\ work[b] = NoWork
    /\ \/ r.phase = "deleting" /\ binding[b].phase = "deleting" /\ r.snap = binding[b].snap
       \/ r = GoneBinding

\* The rollout controller moves a binding to the snapshot of its plan.
Advances(b, r) ==
    /\ b \in rollout.update
    /\ r.phase = binding[b].phase
    /\ r.snap = rollout.snap
    /\ r.workFin = binding[b].workFin

\* The scheduler creates a binding it has planned.
Appears(b, r) ==
    /\ binding[b].phase = "absent"
    /\ r.phase = "live"
    /\ r.snap = 0
    /\ sched.create # {}

Change(b, r) ==
    /\ r \in ResourceBinding
    /\ Store(b, r)
    /\ Serves(b, r) \/ Drops(b, r) \/ Releases(b, r) \/ Advances(b, r) \/ Appears(b, r)

\* What every step respects: bindings come into use by a planned creation only; a
\* binding moves on to the snapshot of the plan; Works follow their binding.
Orderly ==
    \A x \in Binding :
        /\ binding'[x].phase = "live" => binding[x].phase = "live" \/ sched.create # {}
        /\ binding'[x].phase # "gone" => binding[x].snap <= binding'[x].snap
        /\ \/ binding'[x].snap <= binding[x].snap
           \/ binding'[x].snap = rollout.snap /\ rollout.update # {}
        /\ binding'[x].phase = "absent" => binding'[x].snap = 0
        /\ work'[x] # NoWork => /\ binding'[x].phase \in {"live", "deleting"}
                                /\ binding'[x].workFin
                                /\ work[x].snap <= work'[x].snap
        /\ work'[x].snap <= binding'[x].snap

Known == InductiveInvariant /\ DeliveryInvariant

\* What the invariants say of one binding.
LEMMA KnownOf ==
    ASSUME Known, NEW x \in Binding
    PROVE  /\ binding[x] \in ResourceBinding /\ work[x] \in Works
           /\ binding[x].snap \in Nat /\ work[x].snap \in Nat
           /\ rollout.snap \in Nat /\ cache.snap \in Nat /\ hub.snap \in Nat
           /\ binding[x].phase = "absent" => binding[x].snap = 0
           /\ rollout.update # {} => binding[x].snap <= rollout.snap
           /\ work[x].snap <= binding[x].snap
           /\ work[x] # NoWork => binding[x].phase \in {"live", "deleting"} /\ binding[x].workFin
           /\ x \in rollout.update => binding[x].phase # "absent"
<1>1. /\ binding[x] \in ResourceBinding /\ work[x] \in Works
      /\ rollout \in RolloutPlan /\ cache \in HubObjects /\ hub \in HubObjects
  BY DEF Known, InductiveInvariant, TypeOK, HubTypeOK, WorkDeliveryTypeOK, RolloutTypeOK
<1>2. /\ binding[x].snap \in Nat /\ work[x].snap \in Nat
      /\ rollout.snap \in Nat /\ cache.snap \in Nat /\ hub.snap \in Nat
  BY SMTT(60), <1>1 DEF ResourceBinding, Works, RolloutPlan, HubObjects
<1>3. /\ binding[x].phase = "absent" => binding[x].snap = 0
      /\ rollout.update # {} => binding[x].snap <= rollout.snap
      /\ work[x].snap <= binding[x].snap
  BY DEF Known, DeliveryInvariant, SnapshotsInOrder
<1>4. work[x] # NoWork => binding[x].phase \in {"live", "deleting"} /\ binding[x].workFin
  BY DEF Known, DeliveryInvariant, NoWorkLeftBehind, Existing, Live, Deleting
<1>5. x \in rollout.update => binding[x].phase # "absent"
  BY DEF Known, InductiveInvariant, UpdatesOnCleanClusters
<1> QED BY <1>1, <1>2, <1>3, <1>4, <1>5

\* A step that changes neither bindings nor Works is orderly.
LEMMA QuietOrderly ==
    ASSUME Known, UNCHANGED <<binding, work>>
    PROVE  Orderly
BY SMTT(60), KnownOf DEF Orderly

\* So is every kind of write.
LEMMA ChangeOrderly ==
    ASSUME Known, NEW b \in Binding, NEW r, Change(b, r), work' = work
    PROVE  Orderly
<1>0. binding \in [Binding -> ResourceBinding]
  BY DEF Known, InductiveInvariant, TypeOK, HubTypeOK
<1>1. \A x \in Binding : binding'[x] = IF x = b THEN r ELSE binding[x]
  BY <1>0 DEF Change, Store
<1>2. r \in ResourceBinding /\ r.snap \in Nat
  BY SMTT(60) DEF Change, ResourceBinding
<1>3. GoneBinding.snap = 0 /\ GoneBinding.phase = "gone" /\ NoWork.snap = 0
  BY DEF GoneBinding, AbsentBinding, NoWork
<1>4. /\ r.phase = "live" => binding[b].phase = "live" \/ sched.create # {}
      /\ r.phase # "gone" => binding[b].snap <= r.snap
      /\ r.snap <= binding[b].snap \/ (r.snap = rollout.snap /\ rollout.update # {})
      /\ r.phase = "absent" => r.snap = 0
      /\ work[b] # NoWork => r.phase \in {"live", "deleting"} /\ r.workFin
      /\ work[b].snap <= r.snap
  <2>1. CASE Serves(b, r)
    BY SMTT(60), <2>1, KnownOf DEF Serves
  <2>2. CASE Drops(b, r)
    BY SMTT(60), <1>3, <2>2, KnownOf DEF Drops
  <2>3. CASE Releases(b, r)
    BY SMTT(60), <1>3, <2>3, KnownOf DEF Releases
  <2>4. CASE Advances(b, r)
    BY SMTT(60), <2>4, KnownOf DEF Advances
  <2>5. CASE Appears(b, r)
    BY <1>3, <2>5, KnownOf DEF Appears
  <2> QED BY SMTT(60), <2>1, <2>2, <2>3, <2>4, <2>5 DEF Change
<1> QED BY SMTT(60), <1>1, <1>2, <1>4, KnownOf DEF Orderly

----------------------------------------------------------------------------
(* What orderly steps keep.                                                 *)

\* The rollout controller goes on with its plan, drops it, or makes a new one.
RolloutCalm ==
    \/ rollout'.update \subseteq rollout.update /\ rollout'.snap = rollout.snap
    \/ rollout'.update = {} /\ rollout'.snap = 0
    \/ rollout'.snap = cache.snap /\ UNCHANGED binding

\* The Works stay behind finalizers, and the snapshots in order.
LEMMA OrderlyKeeps ==
    ASSUME Known, Orderly, RolloutCalm, TypeOK', cache.snap <= cache'.snap, cache'.snap <= hub'.snap
    PROVE  NoWorkLeftBehind' /\ SnapshotsInOrder'
<1>1. NoWorkLeftBehind'
  BY DEF NoWorkLeftBehind, Orderly, Existing, Live, Deleting
<1>2. /\ cache.snap \in Nat /\ rollout.snap \in Nat /\ rollout.snap <= cache.snap
      /\ cache'.snap \in Nat /\ rollout'.snap \in Nat
  <2>1. cache \in HubObjects /\ rollout \in RolloutPlan /\ rollout.snap <= cache.snap
    BY DEF Known, InductiveInvariant, TypeOK, HubTypeOK, RolloutTypeOK, DeliveryInvariant,
           SnapshotsInOrder
  <2>2. cache' \in HubObjects /\ rollout' \in RolloutPlan
    BY DEF TypeOK, HubTypeOK, RolloutTypeOK
  <2> QED BY SMTT(60), <2>1, <2>2 DEF HubObjects, RolloutPlan
<1>3. rollout'.snap <= cache'.snap
  BY SMTT(60), <1>2 DEF RolloutCalm
<1>4. ASSUME NEW x \in Binding
      PROVE  /\ binding'[x].snap <= cache'.snap
             /\ rollout'.update # {} => binding'[x].snap <= rollout'.snap
  <2>1. /\ binding[x].snap \in Nat /\ binding[x].snap <= cache.snap
        /\ rollout.update # {} => binding[x].snap <= rollout.snap
    BY KnownOf DEF Known, DeliveryInvariant, SnapshotsInOrder
  <2>2. binding'[x].snap \in Nat
    BY SMTT(60) DEF TypeOK, HubTypeOK, ResourceBinding
  <2>3. \/ binding'[x].snap <= binding[x].snap
        \/ binding'[x].snap = rollout.snap /\ rollout.update # {}
    BY SMTT(60) DEF Orderly
  <2>4. binding'[x].snap <= cache.snap
    BY SMTT(60), <1>2, <2>1, <2>2, <2>3
  <2>5. binding'[x].snap <= cache'.snap
    BY SMTT(60), <1>2, <2>2, <2>4
  <2>6. CASE rollout'.update \subseteq rollout.update /\ rollout'.snap = rollout.snap
    BY SMTT(60), <1>2, <2>1, <2>2, <2>3, <2>5, <2>6
  <2>7. CASE rollout'.update = {}
    BY <2>5, <2>7
  <2>8. CASE rollout'.snap = cache.snap
    BY <2>4, <2>5, <2>8
  <2> QED BY <2>6, <2>7, <2>8 DEF RolloutCalm
<1>5. SnapshotsInOrder'
  BY <1>3, <1>4 DEF SnapshotsInOrder, Orderly
<1> QED BY <1>1, <1>5

\* The scheduler goes on with what it does, stops, starts a cycle on an active
\* placement or the clean-up of a deleted one, or gets on with a clean-up.
SchedulerCalm ==
    \/ /\ sched'.pc = sched.pc /\ sched'.create \subseteq sched.create
       /\ sched'.wipe = sched.wipe /\ sched'.erase = sched.erase
    \/ sched'.pc = "idle" /\ sched'.create = {}
    \/ sched'.pc = "cycle" /\ cache.placement.phase = "active" /\ cache.placement.fin
    \/ /\ sched'.pc = "cleanup" /\ sched'.create = {} /\ sched'.wipe = Existing /\ sched'.erase = {}
       /\ cache.placement.phase # "active" /\ cache.placement.fin /\ UNCHANGED binding
    \/ \E b \in Binding :
          /\ sched'.pc = sched.pc /\ sched'.create = sched.create
          /\ sched.erase = {} /\ sched'.wipe = sched.wipe \ {b} /\ sched'.erase = {b} \cap Live
    \/ \E b \in sched.erase :
          /\ sched'.pc = sched.pc /\ sched'.create = sched.create
          /\ sched'.wipe = sched.wipe /\ sched'.erase = {} /\ b \notin Live'

SamePlacement ==
    /\ hub'.placement.phase = hub.placement.phase /\ hub'.placement.fin = hub.placement.fin
    /\ cache'.placement.phase = cache.placement.phase
    /\ cache'.placement.fin = cache.placement.fin

\* No binding outlives the placement as long as the placement stays what it is.
LEMMA CalmKeeps ==
    ASSUME Known, Orderly, SchedulerCalm, SamePlacement
    PROVE  NoOrphanBinding' /\ CleanupInOrder'
<1>1. CleanupInOrder /\ NoOrphanBinding
  BY DEF Known, DeliveryInvariant
<1>2. Live' \subseteq Live \/ sched.create # {}
  BY DEF Orderly, Live
<1>3. Gone' = Gone /\ (Gone => Live = {} /\ sched.create = {})
  BY <1>1 DEF Gone, SamePlacement, NoOrphanBinding, CleanupInOrder
<1>4. sched.create # {} => sched.pc = "cycle" /\ hub.placement.fin /\ ~Gone
  BY <1>1, <1>3 DEF CleanupInOrder
<1>5. NoOrphanBinding'
  BY <1>2, <1>3 DEF NoOrphanBinding, Gone
<1>6. Live' # {} => hub'.placement.fin
  BY <1>1, <1>2, <1>4 DEF CleanupInOrder, SamePlacement
<1>7. /\ cache'.placement.fin \/ sched'.pc # "idle" => hub'.placement.fin \/ Gone'
      /\ cache'.placement.phase # "active" => hub'.placement.phase # "active"
      /\ sched'.create # {} => sched'.pc = "cycle"
  BY <1>1, <1>3, <1>4 DEF CleanupInOrder, SamePlacement, SchedulerCalm
<1>8. Gone' => sched'.pc # "cycle" /\ ~(cache'.placement.phase = "active" /\ cache'.placement.fin)
  BY <1>1, <1>3 DEF CleanupInOrder, SamePlacement, SchedulerCalm
<1>9. ASSUME sched'.pc = "cleanup"
      PROVE  /\ cache'.placement.phase # "active"
             /\ Live' \subseteq sched'.wipe \cup sched'.erase
             /\ \A a, b \in sched'.erase : a = b
  <2>1. CASE sched.pc = "cleanup"
    <3>1. Live' \subseteq Live
      BY <1>2, <1>4, <2>1
    <3>2. /\ Live \subseteq sched.wipe \cup sched.erase /\ \A a, b \in sched.erase : a = b
          /\ cache'.placement.phase # "active"
      BY <1>1, <2>1 DEF CleanupInOrder, SamePlacement
    <3>3. UNCHANGED binding => Live' = Live
      BY DEF Live
    <3> QED BY <1>9, <3>1, <3>2, <3>3 DEF SchedulerCalm, Existing
  <2>2. CASE sched.pc # "cleanup"
    <3>1. /\ sched'.wipe = Existing /\ sched'.erase = {} /\ UNCHANGED binding
          /\ cache.placement.phase # "active"
      BY <1>9, <2>2 DEF SchedulerCalm
    <3>2. Live' = Live
      BY <3>1 DEF Live
    <3> QED BY <3>1, <3>2 DEF Existing, SamePlacement
  <2> QED BY <2>1, <2>2
<1> QED BY <1>5, <1>6, <1>7, <1>8, <1>9 DEF CleanupInOrder

\* The invariant of this module after an orderly step.
LEMMA KnownKept ==
    ASSUME Known, Orderly, RolloutCalm, SchedulerCalm, SamePlacement, TypeOK',
           cache'.snap = cache.snap, hub'.snap = hub.snap
    PROVE  DeliveryInvariant'
<1>1. cache.snap \in Nat /\ cache.snap <= hub.snap
  <2>1. cache \in HubObjects
    BY DEF Known, InductiveInvariant, TypeOK, HubTypeOK
  <2> QED BY SMTT(60), <2>1 DEF HubObjects, Known, DeliveryInvariant, SnapshotsInOrder
<1>2. cache.snap <= cache'.snap /\ cache'.snap <= hub'.snap
  BY SMTT(60), <1>1
<1> QED BY <1>2, OrderlyKeeps, CalmKeeps DEF DeliveryInvariant

----------------------------------------------------------------------------
(* The steps of the scheduler.                                              *)

\* Changes that only concern other fields.
LEMMA ServesUpdate ==
    ASSUME NEW b, NEW r, binding[b] \in ResourceBinding, r \in ResourceBinding,
           r.phase = binding[b].phase, r.snap = binding[b].snap,
           r.workFin = binding[b].workFin
    PROVE  Serves(b, r) /\ (Serves(b, Finalize(r)) \/ Drops(b, Finalize(r)))
BY FinalizeKeeps DEF Serves, Drops

\* A delete call is one of the kinds.
LEMMA DeleteChange ==
    ASSUME Known, NEW b \in Binding, Store(b, MarkDeleting(binding[b]))
    PROVE  Change(b, MarkDeleting(binding[b])) /\ binding'[b].phase # "live"
<1>1. binding[b] \in ResourceBinding /\ binding \in [Binding -> ResourceBinding]
  BY DEF Known, InductiveInvariant, TypeOK, HubTypeOK
<1>2. binding'[b] = MarkDeleting(binding[b]) /\ GoneBinding.phase = "gone"
  BY <1>1 DEF Store, GoneBinding, AbsentBinding
<1> QED BY <1>1, <1>2, MarkDeletingType, MarkDeletingKeeps DEF Change, Serves, Drops

\* A mark on bindings moves no snapshot back and leaves the Works alone.
LEMMA MarkedOrderly ==
    ASSUME Known, work' = work, NEW b \in Binding, NEW prev \in BindingState,
           MarkUnscheduledAs(b, prev)
    PROVE  Orderly /\ SchedulerCalm /\ UNCHANGED <<hub, cache>>
<1> DEFINE new == [binding[b] EXCEPT !.state = "Unscheduled", !.prev = prev]
<1>1. binding[b] \in ResourceBinding /\ sched \in SchedulerPlan
  BY SMTT(60), KnownOf DEF Known, InductiveInvariant, TypeOK, SchedulerTypeOK
<1>2. /\ new \in ResourceBinding /\ new.phase = binding[b].phase
      /\ new.snap = binding[b].snap /\ new.workFin = binding[b].workFin
  BY <1>1 DEF ResourceBinding, BindingState
<1>3. Store(b, NewGeneration(new)) /\ UNCHANGED <<hub, cache>>
  BY DEF MarkUnscheduledAs, SchedulerWrites
<1> HIDE DEF new
<1>4. Change(b, NewGeneration(new))
  BY SMTT(60), <1>2, <1>3, NewGenerationType, GenerationKeeps DEF Change, Serves
<1>5. SchedulerCalm
  BY <1>1 DEF MarkUnscheduledAs, SchedulerPlan, SchedulerCalm
<1> QED BY <1>3, <1>4, <1>5, ChangeOrderly

\* removeFinalizerAndUpdate, in a cycle and in a clean-up.
LEMMA UnfinalizedOrderly ==
    ASSUME Known, work' = work, NEW b \in Binding,
           Store(b, Finalize([binding[b] EXCEPT !.schedFin = FALSE]))
    PROVE  Orderly
<1> DEFINE r == [binding[b] EXCEPT !.schedFin = FALSE]
<1>1. binding[b] \in ResourceBinding
  BY KnownOf
<1>2. /\ r \in ResourceBinding /\ r.phase = binding[b].phase
      /\ r.snap = binding[b].snap /\ r.workFin = binding[b].workFin
  BY <1>1 DEF ResourceBinding
<1> HIDE DEF r
<1>3. Change(b, Finalize(r))
  BY <1>1, <1>2, ServesUpdate, FinalizeType DEF Change, r
<1> QED BY <1>3, ChangeOrderly

SchedulerSteps == Orderly /\ SchedulerCalm /\ UNCHANGED <<hub, cache>>

\* The writes of a cycle.
LEMMA CycleOrderly ==
    ASSUME Known, work' = work, NEW b \in Binding,
           \/ RemoveFinalizer(b) \/ PatchBinding(b) \/ MarkUnscheduled(b)
           \/ \E c \in Cluster : CreateBinding(c, b)
    PROVE  SchedulerSteps
<1>0. /\ binding[b] \in ResourceBinding /\ sched \in SchedulerPlan
      /\ UnscheduledRemembers
  BY KnownOf DEF Known, InductiveInvariant, TypeOK, SchedulerTypeOK
<1>1. CASE RemoveFinalizer(b)
  <2>1. Orderly /\ UNCHANGED <<hub, cache>>
    BY <1>1, UnfinalizedOrderly DEF RemoveFinalizer, SchedulerWrites
  <2>2. SchedulerCalm
    BY <1>0, <1>1 DEF RemoveFinalizer, SchedulerPlan, SchedulerCalm
  <2> QED BY <2>1, <2>2 DEF SchedulerSteps
<1>2. CASE PatchBinding(b)
  <2> DEFINE old == binding[b]
             state == IF old.state = "Unscheduled" THEN old.prev ELSE old.state
             new == [old EXCEPT !.policy = sched.policy.index,
                                !.state = IF @ = "Unscheduled" THEN old.prev ELSE @]
  <2>1. state \in BindingState /\ sched.policy.index \in 0..MaxPolicy
    BY <1>0 DEF ResourceBinding, SchedulerPlan, UnscheduledRemembers, BindingState
  <2>2. new = [old EXCEPT !.policy = sched.policy.index, !.state = state]
    OBVIOUS
  <2>3. /\ new \in ResourceBinding /\ new.phase = old.phase
        /\ new.snap = old.snap /\ new.workFin = old.workFin
    <3>1. old \in ResourceBinding
      BY <1>0
    <3> HIDE DEF old, new, state
    <3> QED BY <3>1, <2>1, <2>2 DEF ResourceBinding
  <2>4. Store(b, NewGeneration(new)) /\ UNCHANGED <<hub, cache>>
    BY <1>2 DEF PatchBinding, SchedulerWrites
  <2> HIDE DEF new
  <2>5. Change(b, NewGeneration(new))
    BY SMTT(60), <2>3, <2>4, NewGenerationType, GenerationKeeps DEF Change, Serves
  <2>6. SchedulerCalm
    BY <1>0, <1>2 DEF PatchBinding, SchedulerPlan, SchedulerCalm
  <2> QED BY <2>4, <2>5, <2>6, ChangeOrderly DEF SchedulerSteps
<1>3. CASE MarkUnscheduled(b)
  <2>1. binding[b].state \in BindingState
    BY <1>0 DEF ResourceBinding
  <2> QED BY <1>3, <2>1, MarkedOrderly DEF MarkUnscheduled, SchedulerSteps
<1>4. ASSUME NEW c \in Cluster, CreateBinding(c, b) PROVE SchedulerSteps
  <2> DEFINE i == sched.policy.index
             r == [AbsentBinding EXCEPT !.phase = "live", !.cluster = c,
                                        !.policy = i, !.schedFin = TRUE]
  <2>1. i \in 0..MaxPolicy
    BY <1>0 DEF SchedulerPlan
  <2>2. r \in ResourceBinding /\ r.phase = "live" /\ r.snap = 0
    <3> HIDE DEF i
    <3>1. AbsentBinding.snap = 0
      BY DEF AbsentBinding
    <3> QED BY <2>1, <3>1, AbsentType DEF ResourceBinding
  <2>3. /\ Store(b, r) /\ binding[b].phase = "absent" /\ c \in sched.create
        /\ UNCHANGED <<hub, cache>>
    BY <1>4 DEF CreateBinding, GenerateBinding, SchedulerWrites
  <2> HIDE DEF r
  <2>4. Change(b, r)
    BY SMTT(60), <2>2, <2>3 DEF Change, Appears
  <2>5. SchedulerCalm
    BY <1>0, <1>4 DEF CreateBinding, SchedulerPlan, SchedulerCalm
  <2> QED BY <2>3, <2>4, <2>5, ChangeOrderly DEF SchedulerSteps
<1> QED BY <1>1, <1>2, <1>3, <1>4

\* The clean-up takes one binding after the other, and a cycle or a clean-up starts
\* or stops.
LEMMA OtherSchedulerSteps ==
    ASSUME Known, work' = work,
           \/ StartCycle \/ FinishCycle \/ StartCleanup \/ AbandonCycle
           \/ \E b \in Binding : CleanupFinalizer(b) \/ CleanupDelete(b)
    PROVE  SchedulerSteps
<1>0. sched \in SchedulerPlan /\ IdleScheduler.pc = "idle" /\ IdleScheduler.create = {}
  BY DEF Known, InductiveInvariant, TypeOK, SchedulerTypeOK, IdleScheduler
<1>1. CASE StartCycle
  <2>1. PICK plan \in Plans :
          sched' = [plan EXCEPT !.pc = "cycle", !.unfinalize = ToUnfinalize,
                                !.dangling = Dangling, !.policy = cache.policy]
    BY <1>1 DEF StartCycle
  <2>2. plan \in SchedulerPlan
    BY PlansAreGood DEF Known, InductiveInvariant, TypeOK, GoodPlan
  <2>3. sched'.pc = "cycle"
    BY <2>1, <2>2 DEF SchedulerPlan
  <2> QED BY <1>1, <2>3, QuietOrderly DEF StartCycle, SchedulerCalm, SchedulerSteps
<1>2. CASE FinishCycle \/ AbandonCycle
  BY SMTT(60), <1>0, <1>2, QuietOrderly DEF FinishCycle, AbandonCycle, SchedulerCalm, SchedulerSteps
<1>3. CASE StartCleanup
  <2>1. /\ sched'.pc = "cleanup" /\ sched'.create = {} /\ sched'.wipe = Existing /\ sched'.erase = {}
        /\ UNCHANGED <<binding, hub, cache>> /\ cache.placement.phase = "deleting" /\ cache.placement.fin
    BY <1>3 DEF StartCleanup, IdleScheduler
  <2> QED BY <2>1, QuietOrderly DEF SchedulerCalm, SchedulerSteps
<1>4. ASSUME NEW b \in Binding, CleanupFinalizer(b) PROVE SchedulerSteps
  <2>1. Orderly /\ UNCHANGED <<hub, cache>>
    BY <1>4, UnfinalizedOrderly DEF CleanupFinalizer, SchedulerWrites
  <2>2. /\ sched'.pc = sched.pc /\ sched'.create = sched.create
        /\ sched.erase = {} /\ sched'.wipe = sched.wipe \ {b} /\ sched'.erase = {b} \cap Live
    BY <1>0, <1>4 DEF CleanupFinalizer, SchedulerPlan
  <2>3. SchedulerCalm
    BY <2>2 DEF SchedulerCalm
  <2> QED BY <2>1, <2>3 DEF SchedulerSteps
<1>5. ASSUME NEW b \in Binding, CleanupDelete(b) PROVE SchedulerSteps
  <2>1. Change(b, MarkDeleting(binding[b])) /\ binding'[b].phase # "live" /\ UNCHANGED <<hub, cache>>
    BY <1>5, DeleteChange DEF CleanupDelete, SchedulerWrites
  <2>2. Orderly
    BY <2>1, ChangeOrderly
  <2>3. /\ sched'.pc = sched.pc /\ sched'.create = sched.create /\ b \in sched.erase
        /\ sched'.wipe = sched.wipe /\ sched'.erase = {}
    BY <1>0, <1>5 DEF CleanupDelete, SchedulerPlan
  <2>4. b \notin Live'
    BY <2>1 DEF Live
  <2>5. SchedulerCalm
    BY <2>3, <2>4 DEF SchedulerCalm
  <2> QED BY <2>1, <2>2, <2>5 DEF SchedulerSteps
<1> QED BY <1>1, <1>2, <1>3, <1>4, <1>5

----------------------------------------------------------------------------
(* The steps of the rollout controller.                                     *)

RolloutSteps == Orderly /\ RolloutCalm /\ UNCHANGED <<hub, cache>>

\* One write of the rollout controller and what is left of the plan.
LEMMA RolloutWriteOrderly ==
    ASSUME Known, work' = work, UNCHANGED <<hub, cache>>,
           NEW b \in Binding, NEW r, Change(b, r),
           NEW p, p.update \subseteq rollout.update, p.snap = rollout.snap, Continue(p)
    PROVE  RolloutSteps
<1>1. RolloutCalm
  BY SMTT(60) DEF Continue, RolloutCalm, IdleRollout
<1> QED BY <1>1, ChangeOrderly DEF RolloutSteps

\* Every plan is made for the snapshot in the cache, or updates nothing.
LEMMA StartedPlans ==
    ASSUME Known, work' = work, StartRollout
    PROVE  RolloutSteps
<1>1. CASE \E p \in {StrategyPlan, RefreshPlan} : StartPlan(p)
  <2>1. /\ StrategyPlan.update = {} /\ StrategyPlan.snap = 0
        /\ RefreshPlan.update = {} /\ RefreshPlan.snap = 0
    BY DEF StrategyPlan, RefreshPlan, IdleRollout
  <2> QED BY <1>1, <2>1, QuietOrderly DEF StartPlan, RolloutCalm, RolloutSteps
<1>2. CASE StartRoll
  <2>1. PICK rem, upd, add : StartPlan(RollPlan(rem, upd, add))
    BY <1>2 DEF StartRoll
  <2>2. RollPlan(rem, upd, add).snap = cache.snap
    BY DEF RollPlan, IdleRollout
  <2> QED BY <2>1, <2>2, QuietOrderly DEF StartPlan, RolloutCalm, RolloutSteps
<1> QED BY <1>1, <1>2 DEF StartRollout

\* The rollout controller moves bindings forward only.
LEMMA RolloutOrderly ==
    ASSUME Known, work' = work, RolloutStep
    PROVE  RolloutSteps
<1>0. rollout \in RolloutPlan /\ \A b \in Binding : binding[b] \in ResourceBinding
  BY KnownOf DEF Known, InductiveInvariant, TypeOK, RolloutTypeOK
<1>1. ASSUME NEW b \in Binding, PatchStrategy(b) PROVE RolloutSteps
  <2> DEFINE new == [binding[b] EXCEPT !.strategy = rollout.strategy]
             p == [rollout EXCEPT !.strategic = @ \ {b}]
  <2>1. /\ new \in ResourceBinding /\ new.phase = binding[b].phase
        /\ new.snap = binding[b].snap /\ new.workFin = binding[b].workFin
    BY SMTT(60), <1>0 DEF ResourceBinding, RolloutPlan
  <2>2. p.update = rollout.update /\ p.snap = rollout.snap
    BY <1>0 DEF RolloutPlan
  <2>3. Store(b, NewGeneration(new)) /\ Continue(p) /\ UNCHANGED <<hub, cache>>
    BY <1>1 DEF PatchStrategy, RolloutWrites
  <2> HIDE DEF new, p
  <2>4. Change(b, NewGeneration(new))
    BY <2>1, <2>3, NewGenerationType, GenerationKeeps DEF Change, Serves
  <2> QED BY <2>2, <2>3, <2>4, RolloutWriteOrderly
<1>2. ASSUME NEW b \in Binding, NEW x \in {"True", "False"},
             Store(b, [binding[b] EXCEPT !.started = x])
      PROVE  Change(b, [binding[b] EXCEPT !.started = x])
  <2> DEFINE r == [binding[b] EXCEPT !.started = x]
  <2>1. r \in ResourceBinding /\ Serves(b, r)
    BY <1>0 DEF ResourceBinding, Serves
  <2> QED BY <1>2, <2>1 DEF Change
<1>3. ASSUME NEW b \in Binding, MarkStale(b) PROVE RolloutSteps
  <2> DEFINE p == [rollout EXCEPT !.stale = @ \ {b}]
  <2>1. p.update = rollout.update /\ p.snap = rollout.snap
    BY <1>0 DEF RolloutPlan
  <2> QED BY <1>2, <1>3, <2>1, RolloutWriteOrderly DEF MarkStale, RolloutWrites
<1>4. ASSUME NEW b \in Binding, Refresh(b) PROVE RolloutSteps
  <2> DEFINE p == [rollout EXCEPT !.refresh = @ \ {b}]
  <2>1. p.update = rollout.update /\ p.snap = rollout.snap
    BY <1>0 DEF RolloutPlan
  <2> QED BY <1>2, <1>4, <2>1, RolloutWriteOrderly DEF Refresh, RolloutWrites
<1>5. ASSUME NEW b \in Binding, MarkStarted(b) PROVE RolloutSteps
  <2> DEFINE p == [rollout EXCEPT !.start = @ \ {b}]
  <2>1. p.update = rollout.update /\ p.snap = rollout.snap
    BY <1>0 DEF RolloutPlan
  <2> QED BY <1>2, <1>5, <2>1, RolloutWriteOrderly DEF MarkStarted, RolloutWrites
<1>6. ASSUME NEW b \in Binding, UpdateBinding(b) PROVE RolloutSteps
  <2> DEFINE new == [binding[b] EXCEPT !.state = "Bound", !.snap = rollout.snap]
             p == [rollout EXCEPT !.update = @ \ {b}, !.start = @ \cup {b}]
  <2>1. /\ new \in ResourceBinding /\ new.phase = binding[b].phase
        /\ new.snap = rollout.snap /\ new.workFin = binding[b].workFin
    <3>1. rollout.snap \in 0..MaxSnapshot
      BY <1>0 DEF RolloutPlan
    <3> QED BY <1>0, <3>1 DEF ResourceBinding, BindingState
  <2>2. p.update \subseteq rollout.update /\ p.snap = rollout.snap
    BY <1>0 DEF RolloutPlan
  <2>3. /\ Store(b, NewGeneration(new)) /\ Continue(p) /\ UNCHANGED <<hub, cache>>
        /\ b \in rollout.update
    BY <1>6 DEF UpdateBinding, RolloutWrites
  <2> HIDE DEF new, p
  <2>4. Change(b, NewGeneration(new))
    BY <2>1, <2>3, NewGenerationType, GenerationKeeps DEF Change, Advances
  <2> QED BY SMTT(60), <2>2, <2>3, <2>4, RolloutWriteOrderly
<1>7. ASSUME NEW b \in Binding, DeleteBinding(b) PROVE RolloutSteps
  <2> DEFINE p == [rollout EXCEPT !.delete = @ \ {b}]
  <2>1. p.update = rollout.update /\ p.snap = rollout.snap
    BY <1>0 DEF RolloutPlan
  <2>2. Change(b, MarkDeleting(binding[b]))
    BY <1>7, DeleteChange DEF DeleteBinding, RolloutWrites
  <2> QED BY <1>7, <2>1, <2>2, RolloutWriteOrderly DEF DeleteBinding
<1>8. CASE RolloutRefused
  BY <1>8, QuietOrderly DEF RolloutRefused, AbandonRollout, RolloutSteps, RolloutCalm, IdleRollout
<1> QED BY <1>1, <1>3, <1>4, <1>5, <1>6, <1>7, <1>8, StartedPlans DEF RolloutStep

----------------------------------------------------------------------------
(* The steps of the work generator and of the member agents.                *)

DeliverySteps == Orderly /\ UNCHANGED <<hub, cache>>

\* A report on the binding.
LEMMA ReportChange ==
    ASSUME Known, NEW b \in Binding, NEW report \in Report,
           Store(b, [binding[b] EXCEPT !.report = report])
    PROVE  Change(b, [binding[b] EXCEPT !.report = report])
<1> DEFINE r == [binding[b] EXCEPT !.report = report]
<1>1. r \in ResourceBinding /\ Serves(b, r)
  BY KnownOf DEF ResourceBinding, Serves
<1> QED BY <1>1 DEF Change

\* syncAllWork: the Works are of the binding's snapshot, behind its finalizer.
LEMMA GenerateOrderly ==
    ASSUME Known, NEW b \in Binding, GenerateWorks(b)
    PROVE  DeliverySteps
<1> DEFINE report == IF binding[b].strategy = "ReportDiff" THEN "Diffing" ELSE "Progressing"
           r == [binding[b] EXCEPT !.report = report]
           w == [snap |-> binding[b].snap, strategy |-> binding[b].strategy, status |-> "pending"]
<1>0. /\ binding \in [Binding -> ResourceBinding] /\ work \in [Binding -> Works]
  BY DEF Known, InductiveInvariant, TypeOK, HubTypeOK, WorkDeliveryTypeOK
<1>1. /\ Store(b, r) /\ work' = [work EXCEPT ![b] = w] /\ UNCHANGED <<hub, cache>>
      /\ binding[b].phase = "live" /\ binding[b].workFin
  BY DEF GenerateWorks, OtherWrites, Syncs, Served, Live
<1>2. /\ r.phase = "live" /\ r.snap = binding[b].snap /\ r.workFin
      /\ w.snap = binding[b].snap
  BY <1>0, <1>1 DEF ResourceBinding
<1> HIDE DEF r, w
<1>3. \A x \in Binding : /\ binding'[x] = IF x = b THEN r ELSE binding[x]
                         /\ work'[x] = IF x = b THEN w ELSE work[x]
  BY <1>0, <1>1 DEF Store
<1>4. ASSUME NEW x \in Binding, x # b PROVE binding'[x] = binding[x] /\ work'[x] = work[x]
  BY <1>3, <1>4
<1>5. binding'[b] = r /\ work'[b] = w
  BY <1>3
<1>6. /\ binding[b].snap \in Nat /\ work[b].snap <= binding[b].snap
  BY KnownOf
<1>7. Orderly
  <2> SUFFICES ASSUME NEW x \in Binding
               PROVE
        /\ binding'[x].phase = "live" => binding[x].phase = "live" \/ sched.create # {}
        /\ binding'[x].phase # "gone" => binding[x].snap <= binding'[x].snap
        /\ \/ binding'[x].snap <= binding[x].snap
           \/ binding'[x].snap = rollout.snap /\ rollout.update # {}
        /\ binding'[x].phase = "absent" => binding'[x].snap = 0
        /\ work'[x] # NoWork => /\ binding'[x].phase \in {"live", "deleting"}
                                /\ binding'[x].workFin
                                /\ work[x].snap <= work'[x].snap
        /\ work'[x].snap <= binding'[x].snap
    BY DEF Orderly
  <2>1. CASE x = b
    <3>1. /\ binding'[b].phase = "live" /\ binding'[b].snap = binding[b].snap /\ binding'[b].workFin
          /\ work'[b].snap = binding[b].snap /\ binding[b].snap <= binding[b].snap
      BY SMTT(60), <1>2, <1>5, <1>6
    <3> QED BY SMTT(60), <1>1, <1>6, <2>1, <3>1
  <2>2. CASE x # b
    <3>1. /\ binding[x].snap \in Nat /\ work[x].snap \in Nat
          /\ binding[x].phase = "absent" => binding[x].snap = 0
          /\ work[x].snap <= binding[x].snap
          /\ work[x] # NoWork => binding[x].phase \in {"live", "deleting"} /\ binding[x].workFin
      BY KnownOf
    <3>2. binding[x].snap <= binding[x].snap /\ work[x].snap <= work[x].snap
      BY SMTT(60), <3>1
    <3>3. binding'[x] = binding[x] /\ work'[x] = work[x]
      BY <1>4, <2>2
    <3> QED BY <3>1, <3>2, <3>3
  <2> QED BY <2>1, <2>2
<1> QED BY <1>1, <1>7 DEF DeliverySteps

\* The work generator moves the Works of a binding to the snapshot of the binding.
LEMMA DeliveryOrderly ==
    ASSUME Known, NEW b \in Binding, WorkDeliveryStep(b) \/ MemberReports(b, "failed")
    PROVE  DeliverySteps
<1>0. /\ binding \in [Binding -> ResourceBinding] /\ work \in [Binding -> Works]
      /\ binding[b] \in ResourceBinding /\ work[b] \in Works /\ NoWork.snap = 0
  BY DEF Known, InductiveInvariant, TypeOK, HubTypeOK, WorkDeliveryTypeOK, NoWork
<1>1. CASE EnsureFinalizer(b)
  <2> DEFINE r == [binding[b] EXCEPT !.workFin = TRUE]
  <2>1. r \in ResourceBinding /\ Serves(b, r)
    BY <1>0 DEF ResourceBinding, Serves
  <2>2. Change(b, r) /\ work' = work /\ UNCHANGED <<hub, cache>>
    BY <1>1, <2>1 DEF EnsureFinalizer, OtherWrites, Change
  <2> QED BY <2>2, ChangeOrderly DEF DeliverySteps
<1>2. CASE ReportStatus(b)
  <2> DEFINE report == IF binding[b].snap = 0 THEN "Failed" ELSE ReportOf(b)
  <2>1. report \in Report
    BY DEF ReportOf, Report
  <2>2. Store(b, [binding[b] EXCEPT !.report = report]) /\ work' = work /\ UNCHANGED <<hub, cache>>
    BY <1>2 DEF ReportStatus, OtherWrites
  <2> HIDE DEF report
  <2> QED BY <2>1, <2>2, ReportChange, ChangeOrderly DEF DeliverySteps
<1>3. CASE DeleteWorks(b)
  <2>1. work' = [work EXCEPT ![b] = NoWork] /\ UNCHANGED <<binding, hub, cache>>
    BY <1>3 DEF DeleteWorks, hubVars
  <2>2. \A x \in Binding : work'[x] = IF x = b THEN NoWork ELSE work[x]
    BY <1>0, <2>1
  <2>3. Orderly
    BY SMTT(60), <1>0, <2>1, <2>2, KnownOf DEF Orderly
  <2> QED BY <2>1, <2>3 DEF DeliverySteps
<1>4. CASE ReleaseBinding(b)
  <2> DEFINE r == [binding[b] EXCEPT !.workFin = FALSE]
  <2>1. /\ r \in ResourceBinding /\ r.phase = binding[b].phase /\ r.snap = binding[b].snap
        /\ binding[b].phase = "deleting" /\ work[b] = NoWork
    BY <1>0, <1>4 DEF ResourceBinding, ReleaseBinding, Deleting
  <2>2. Store(b, Finalize(r)) /\ work' = work /\ UNCHANGED <<hub, cache>>
    BY <1>4 DEF ReleaseBinding, OtherWrites
  <2> HIDE DEF r
  <2>3. Change(b, Finalize(r))
    BY SMTT(60), <2>1, <2>2, FinalizeType DEF Change, Releases
  <2> QED BY <2>2, <2>3, ChangeOrderly DEF DeliverySteps
<1>5. ASSUME NEW status, MemberReports(b, status) PROVE DeliverySteps
  <2>1. /\ work' = [work EXCEPT ![b].status = status] /\ work[b].snap # 0
        /\ UNCHANGED <<binding, hub, cache>>
    BY <1>5 DEF MemberReports, hubVars
  <2>2. \A x \in Binding : work'[x].snap = work[x].snap /\ (x # b => work'[x] = work[x])
    BY <1>0, <2>1 DEF Works
  <2>3. work[b] # NoWork
    BY <1>0, <2>1
  <2>4. Orderly
    BY SMTT(60), <2>1, <2>2, <2>3, KnownOf DEF Orderly
  <2> QED BY <2>1, <2>4 DEF DeliverySteps
<1>6. CASE UnavailablePeriodElapses(b)
  <2>1. /\ Store(b, [binding[b] EXCEPT !.report = "Settled"]) /\ work' = work
        /\ UNCHANGED <<hub, cache>> /\ "Settled" \in Report
    BY <1>6 DEF UnavailablePeriodElapses, Report
  <2> QED BY <2>1, ReportChange, ChangeOrderly DEF DeliverySteps
<1> QED BY <1>1, <1>2, <1>3, <1>4, <1>5, <1>6, GenerateOrderly DEF WorkDeliveryStep

----------------------------------------------------------------------------
(* The steps of the user, the fleet and the informers.                      *)

\* Neither the life of the placement nor a snapshot is at stake.
LEMMA EditKeeps ==
    ASSUME Known, TypeOK', UNCHANGED <<binding, work, sched, rollout, cache>>,
           hub'.placement.phase = hub.placement.phase, hub'.placement.fin = hub.placement.fin,
           hub.snap <= hub'.snap
    PROVE  Orderly /\ DeliveryInvariant'
<1>1. Orderly /\ RolloutCalm /\ SchedulerCalm /\ SamePlacement
  BY QuietOrderly DEF RolloutCalm, SchedulerCalm, SamePlacement
<1>2. hub.snap \in Nat /\ hub'.snap \in Nat /\ cache.snap \in Nat /\ cache.snap <= hub.snap
  <2>1. hub \in HubObjects /\ hub' \in HubObjects /\ cache \in HubObjects
    BY DEF Known, InductiveInvariant, TypeOK, HubTypeOK
  <2> QED BY SMTT(60), <2>1 DEF HubObjects, Known, DeliveryInvariant, SnapshotsInOrder
<1>3. cache.snap <= cache'.snap /\ cache'.snap <= hub'.snap
  BY SMTT(60), <1>2
<1> QED BY <1>1, <1>3, OrderlyKeeps, CalmKeeps DEF DeliveryInvariant

\* The user deletes the placement: without the scheduler's finalizer no binding was
\* ever created for it.
LEMMA DeletePlacementKeeps ==
    ASSUME Known, TypeOK', DeletePlacement
    PROVE  Orderly /\ DeliveryInvariant'
<1> DEFINE phase == IF hub.placement.fin THEN "deleting" ELSE "gone"
<1>0. hub \in HubObjects /\ hub.placement \in PlacementObj /\ CleanupInOrder
  BY DEF Known, InductiveInvariant, TypeOK, HubTypeOK, HubObjects, DeliveryInvariant
<1>1. /\ UNCHANGED <<binding, work, sched, rollout, cache>>
      /\ hub.placement.phase = "active" /\ hub' = [hub EXCEPT !.placement.phase = phase]
  BY DEF DeletePlacement, Edit
<1>2. /\ hub'.placement.phase = phase /\ hub'.placement.fin = hub.placement.fin
      /\ hub'.snap = hub.snap
  BY <1>0, <1>1 DEF HubObjects, PlacementObj
<1>3. Orderly /\ RolloutCalm
  BY <1>1, QuietOrderly DEF RolloutCalm
<1>4. NoWorkLeftBehind' /\ SnapshotsInOrder'
  <2>1. cache.snap \in Nat /\ cache.snap <= hub.snap
    <3>1. cache \in HubObjects
      BY DEF Known, InductiveInvariant, TypeOK, HubTypeOK
    <3>2. cache.snap <= hub.snap
      BY DEF Known, DeliveryInvariant, SnapshotsInOrder
    <3> QED BY SMTT(60), <3>1, <3>2 DEF HubObjects
  <2>2. cache.snap <= cache'.snap /\ cache'.snap <= hub'.snap
    BY SMTT(60), <1>1, <1>2, <2>1
  <2> QED BY <1>3, <2>2, OrderlyKeeps
<1>5. Live' = Live /\ ~Gone
  BY <1>1 DEF Live, Gone
<1>6. CASE hub.placement.fin
  <2>1. hub'.placement.phase = "deleting" /\ hub'.placement.fin /\ ~Gone'
    BY <1>2, <1>6 DEF Gone
  <2>2. NoOrphanBinding'
    BY <2>1 DEF NoOrphanBinding
  <2>3. CleanupInOrder'
    BY <1>0, <1>1, <1>5, <2>1 DEF CleanupInOrder
  <2> QED BY <1>3, <1>4, <2>2, <2>3 DEF DeliveryInvariant
<1>7. CASE ~hub.placement.fin
  <2>1. Live = {} /\ sched.pc = "idle" /\ ~cache.placement.fin
    BY <1>0, <1>5, <1>7 DEF CleanupInOrder
  <2>2. hub'.placement.phase = "gone" /\ Gone'
    BY <1>2, <1>7 DEF Gone
  <2>3. NoOrphanBinding'
    BY <1>5, <2>1 DEF NoOrphanBinding
  <2>4. CleanupInOrder'
    BY <1>0, <1>1, <1>5, <2>1, <2>2 DEF CleanupInOrder
  <2> QED BY <1>3, <1>4, <2>3, <2>4 DEF DeliveryInvariant
<1> QED BY <1>6, <1>7

\* The scheduler adds its finalizer, or removes it when the clean-up is complete.
LEMMA FinalizerKeeps ==
    ASSUME Known, TypeOK', UNCHANGED <<rollout, work>>,
           AddSchedulerCleanupFinalizer \/ FinishCleanup
    PROVE  Orderly /\ DeliveryInvariant'
<1>0. hub \in HubObjects /\ hub.placement \in PlacementObj /\ CleanupInOrder
  BY DEF Known, InductiveInvariant, TypeOK, HubTypeOK, HubObjects, DeliveryInvariant
<1>1. UNCHANGED <<binding, cache>> /\ hub'.snap = hub.snap
  <2>1. CASE AddSchedulerCleanupFinalizer
    BY <1>0, <2>1 DEF AddSchedulerCleanupFinalizer, HubObjects
  <2>2. CASE FinishCleanup
    BY <1>0, <2>2 DEF FinishCleanup, HubObjects
  <2> QED BY <2>1, <2>2
<1>2. Orderly /\ RolloutCalm /\ Live' = Live
  BY <1>1, QuietOrderly DEF RolloutCalm, Live
<1>3. NoWorkLeftBehind' /\ SnapshotsInOrder'
  <2>1. cache.snap \in Nat /\ cache.snap <= hub.snap
    <3>1. cache \in HubObjects
      BY DEF Known, InductiveInvariant, TypeOK, HubTypeOK
    <3>2. cache.snap <= hub.snap
      BY DEF Known, DeliveryInvariant, SnapshotsInOrder
    <3> QED BY SMTT(60), <3>1, <3>2 DEF HubObjects
  <2>2. cache.snap <= cache'.snap /\ cache'.snap <= hub'.snap
    BY SMTT(60), <1>1, <2>1
  <2> QED BY <1>2, <2>2, OrderlyKeeps
<1>4. CASE AddSchedulerCleanupFinalizer
  <2>1. hub'.placement.phase = "active" /\ hub'.placement.fin /\ sched' = sched
    BY <1>0, <1>4 DEF AddSchedulerCleanupFinalizer, HubObjects, PlacementObj
  <2>2. ~Gone' /\ NoOrphanBinding' /\ hub.placement.phase = "active"
    BY <1>4, <2>1 DEF Gone, NoOrphanBinding, AddSchedulerCleanupFinalizer
  <2>3. CleanupInOrder'
    BY <1>0, <1>1, <1>2, <2>1, <2>2 DEF CleanupInOrder
  <2> QED BY <1>2, <1>3, <2>2, <2>3 DEF DeliveryInvariant
<1>5. CASE FinishCleanup
  <2>1. /\ hub'.placement.phase = "gone" /\ sched'.pc = "idle" /\ sched'.create = {}
        /\ sched.pc = "cleanup" /\ sched.wipe = {} /\ sched.erase = {}
    <3>1. hub' = [hub EXCEPT !.placement.phase = "gone", !.placement.fin = FALSE]
      BY <1>5 DEF FinishCleanup
    <3>2. hub'.placement.phase = "gone"
      BY <1>0, <3>1 DEF HubObjects, PlacementObj
    <3> QED BY <1>5, <3>2 DEF FinishCleanup, IdleScheduler
  <2>2. Live = {} /\ cache.placement.phase # "active" /\ Gone'
    BY <1>0, <2>1 DEF CleanupInOrder, Gone
  <2>3. NoOrphanBinding'
    BY <1>2, <2>2 DEF NoOrphanBinding
  <2>4. CleanupInOrder'
    BY <1>1, <1>2, <2>1, <2>2 DEF CleanupInOrder
  <2> QED BY <1>2, <1>3, <2>3, <2>4 DEF DeliveryInvariant
<1> QED BY <1>4, <1>5

\* The informers only bring the cache forward.
LEMMA CacheSyncKeeps ==
    ASSUME Known, TypeOK', CacheSync
    PROVE  Orderly /\ DeliveryInvariant'
<1>0. hub \in HubObjects /\ cache \in HubObjects /\ CleanupInOrder /\ NoOrphanBinding
  BY DEF Known, InductiveInvariant, TypeOK, HubTypeOK, DeliveryInvariant
<1>1. UNCHANGED <<binding, work, sched, rollout, hub>>
  BY DEF CacheSync
<1>2. PICK kind \in DOMAIN hub : cache' = [cache EXCEPT ![kind] = hub[kind]]
  BY DEF CacheSync
<1>3. kind \in {"placement", "policy", "snap", "clusters"}
  BY <1>0 DEF HubObjects
<1>4. /\ cache'.placement \in {cache.placement, hub.placement}
      /\ cache'.snap \in {cache.snap, hub.snap}
  BY <1>0, <1>2, <1>3 DEF HubObjects
<1>5. Orderly /\ RolloutCalm /\ SchedulerCalm /\ Live' = Live /\ Gone' = Gone
  BY <1>1, QuietOrderly DEF RolloutCalm, SchedulerCalm, Live, Gone
<1>6. NoWorkLeftBehind' /\ SnapshotsInOrder'
  <2>1. cache.snap \in Nat /\ hub.snap \in Nat /\ cache.snap <= hub.snap
    BY SMTT(60), <1>0 DEF HubObjects, Known, DeliveryInvariant, SnapshotsInOrder
  <2>2. cache.snap <= cache'.snap /\ cache'.snap <= hub'.snap
    BY SMTT(60), <1>1, <1>4, <2>1
  <2> QED BY <1>5, <2>2, OrderlyKeeps
<1>7. NoOrphanBinding'
  BY <1>0, <1>1, <1>5 DEF NoOrphanBinding
<1>8. CleanupInOrder'
  <2>1. CASE cache'.placement = cache.placement
    BY <1>0, <1>1, <1>5, <2>1 DEF CleanupInOrder
  <2>2. CASE cache'.placement = hub.placement
    <3>1. Gone => hub.placement.phase # "active"
      BY DEF Gone
    <3> QED BY <1>0, <1>1, <1>5, <2>2, <3>1 DEF CleanupInOrder
  <2> QED BY <1>4, <2>1, <2>2
<1> QED BY <1>5, <1>6, <1>7, <1>8 DEF DeliveryInvariant

\* The edits of the user and the moves of clusters.
LEMMA EditsKeep ==
    ASSUME Known, TypeOK',
           PublishPolicy \/ PublishSnapshot \/ ChangeNumber \/ ChangeStrategy \/ ClusterChange
    PROVE  Orderly /\ DeliveryInvariant'
<1>0. /\ hub \in HubObjects /\ hub.placement \in PlacementObj /\ hub.snap \in Nat
      /\ hub.policy \in PolicySnapshot
  BY SMTT(60) DEF Known, InductiveInvariant, TypeOK, HubTypeOK, HubObjects
<1>1. ASSUME NEW h, Edit(h), h.placement.phase = hub.placement.phase,
             h.placement.fin = hub.placement.fin, hub.snap <= h.snap
      PROVE  Orderly /\ DeliveryInvariant'
  BY <1>1, EditKeeps DEF Edit
<1>2. hub.snap <= hub.snap /\ hub.snap <= hub.snap + 1
  BY SMTT(60), <1>0
<1>3. CASE PublishPolicy
  <2> DEFINE next == hub.policy.index + 1
             H(n) == [hub EXCEPT !.policy = [index |-> next, number |-> n],
                                 !.placement.number = n]
  <2>1. PICK n \in Numbers : Edit(H(n))
    BY <1>3 DEF PublishPolicy
  <2>2. /\ H(n).placement.phase = hub.placement.phase
        /\ H(n).placement.fin = hub.placement.fin /\ H(n).snap = hub.snap
    <3> HIDE DEF next
    <3> QED BY <1>0 DEF HubObjects, PlacementObj
  <2> HIDE DEF H
  <2> QED BY <1>1, <1>2, <2>1, <2>2
<1>4. CASE PublishSnapshot
  <2> DEFINE h == [hub EXCEPT !.snap = @ + 1]
  <2>1. Edit(h)
    BY <1>4 DEF PublishSnapshot
  <2>2. h.placement = hub.placement /\ h.snap = hub.snap + 1
    BY <1>0 DEF HubObjects
  <2> HIDE DEF h
  <2> QED BY <1>1, <1>2, <2>1, <2>2
<1>5. CASE ChangeNumber
  <2> DEFINE H(n) == [hub EXCEPT !.policy.number = n, !.placement.number = n]
  <2>1. PICK n \in Numbers : Edit(H(n))
    BY <1>5 DEF ChangeNumber
  <2>2. /\ H(n).placement.phase = hub.placement.phase
        /\ H(n).placement.fin = hub.placement.fin /\ H(n).snap = hub.snap
    BY <1>0 DEF HubObjects, PlacementObj, PolicySnapshot
  <2> HIDE DEF H
  <2> QED BY <1>1, <1>2, <2>1, <2>2
<1>6. CASE ChangeStrategy
  <2> DEFINE H(x) == [hub EXCEPT !.placement.strategy = x]
  <2>1. PICK x \in Strategies : Edit(H(x))
    BY <1>6 DEF ChangeStrategy
  <2>2. /\ H(x).placement.phase = hub.placement.phase
        /\ H(x).placement.fin = hub.placement.fin /\ H(x).snap = hub.snap
    BY <1>0 DEF HubObjects, PlacementObj
  <2> HIDE DEF H
  <2> QED BY <1>1, <1>2, <2>1, <2>2
<1>7. CASE ClusterChange
  <2> DEFINE H(C) == [hub EXCEPT !.clusters = C]
  <2>1. PICK c \in Cluster : Edit([hub EXCEPT !.clusters = IF c \in @ THEN @ \ {c} ELSE @ \cup {c}])
    BY <1>7 DEF ClusterChange
  <2> DEFINE C == IF c \in hub.clusters THEN hub.clusters \ {c} ELSE hub.clusters \cup {c}
  <2>2. H(C).placement = hub.placement /\ H(C).snap = hub.snap /\ Edit(H(C))
    BY <1>0, <2>1 DEF HubObjects
  <2> HIDE DEF H, C
  <2> QED BY <1>1, <1>2, <2>2
<1> QED BY <1>3, <1>4, <1>5, <1>6, <1>7

\* The steps that leave the placement and its snapshots alone.
LEMMA HubQuietKeeps ==
    ASSUME Known, TypeOK', Orderly, UNCHANGED <<hub, cache>>,
           \/ SchedulerCalm /\ UNCHANGED rollout
           \/ RolloutCalm /\ UNCHANGED sched
    PROVE  DeliveryInvariant'
<1>1. SamePlacement /\ cache'.snap = cache.snap /\ hub'.snap = hub.snap
  BY DEF SamePlacement
<1>2. SchedulerCalm /\ RolloutCalm
  BY DEF SchedulerCalm, RolloutCalm
<1> QED BY <1>1, <1>2, KnownKept

\* Every step of every controller, user, cluster and failure.
LEMMA NextDelivery ==
    ASSUME Known, TypeOK', Next
    PROVE  Orderly /\ DeliveryInvariant'
<1>1. CASE Schedule
  <2>1. work' = work /\ UNCHANGED <<rollout, work>>
    BY <1>1 DEF Schedule
  <2>2. CASE AddSchedulerCleanupFinalizer \/ FinishCleanup
    BY <2>1, <2>2, FinalizerKeeps
  <2>3. CASE \E b \in Binding : \/ RemoveFinalizer(b) \/ PatchBinding(b) \/ MarkUnscheduled(b)
                                \/ \E c \in Cluster : CreateBinding(c, b)
    <3>1. SchedulerSteps
      BY <2>1, <2>3, CycleOrderly
    <3> QED BY <2>1, <3>1, HubQuietKeeps DEF SchedulerSteps
  <2>4. CASE \/ StartCycle \/ FinishCycle \/ StartCleanup \/ AbandonCycle
             \/ \E b \in Binding : CleanupFinalizer(b) \/ CleanupDelete(b)
    <3>1. SchedulerSteps
      BY <2>1, <2>4, OtherSchedulerSteps
    <3> QED BY <2>1, <3>1, HubQuietKeeps DEF SchedulerSteps
  <2> QED BY <1>1, <2>2, <2>3, <2>4 DEF Schedule, SchedulerStep, SchedulerRefused
<1>2. CASE Roll
  <2>1. work' = work /\ UNCHANGED sched /\ RolloutStep
    BY <1>2 DEF Roll
  <2>2. RolloutSteps
    BY <2>1, RolloutOrderly
  <2> QED BY <2>1, <2>2, HubQuietKeeps DEF RolloutSteps
<1>3. CASE (\E b \in Binding : Deliver(b)) \/ MemberFails
  <2>1. UNCHANGED <<sched, rollout>> /\ DeliverySteps
    BY <1>3, DeliveryOrderly DEF Deliver, MemberFails
  <2> QED BY <2>1, HubQuietKeeps DEF DeliverySteps, SchedulerCalm
<1>4. CASE \E b \in Binding : Evict(b)
  <2>1. PICK b \in Binding : Evict(b)
    BY <1>4
  <2>2. /\ Store(b, MarkDeleting(binding[b])) /\ UNCHANGED <<hub, cache, sched, rollout>>
        /\ work' = work
    BY <2>1 DEF Evict, OtherWrites
  <2>3. Orderly
    BY <2>2, DeleteChange, ChangeOrderly
  <2> QED BY <2>2, <2>3, HubQuietKeeps DEF SchedulerCalm
<1>5. CASE CacheSync
  BY <1>5, CacheSyncKeeps
<1>6. CASE PublishPolicy \/ PublishSnapshot \/ ChangeNumber \/ ChangeStrategy \/ ClusterChange
  BY <1>6, EditsKeep
<1>7. CASE DeletePlacement
  BY <1>7, DeletePlacementKeeps
<1>8. CASE Interrupt
  <2>1. work' = work
    BY <1>8 DEF Interrupt
  <2>2. CASE AbandonCycle /\ UNCHANGED rollout
    <3>1. SchedulerSteps
      BY <2>1, <2>2, OtherSchedulerSteps
    <3> QED BY <2>2, <3>1, HubQuietKeeps DEF SchedulerSteps
  <2>3. CASE AbandonRollout /\ UNCHANGED <<sched, decided>>
    <3>1. /\ UNCHANGED <<binding, work, hub, cache, sched>>
          /\ rollout'.update = {} /\ rollout'.snap = 0
      BY <2>1, <2>3 DEF AbandonRollout, IdleRollout
    <3>2. Orderly /\ RolloutCalm
      BY <3>1, QuietOrderly DEF RolloutCalm
    <3> QED BY SMTT(60), <3>1, <3>2, HubQuietKeeps
  <2> QED BY <1>8, <2>2, <2>3 DEF Interrupt
<1>9. CASE RetriedMark
  <2>1. PICK b \in Binding : MarkUnscheduledAs(b, "Unscheduled")
    BY <1>9 DEF RetriedMark, RetryMarkUnscheduled
  <2>2. work' = work /\ UNCHANGED rollout
    BY <1>9 DEF RetriedMark
  <2>3. Orderly /\ SchedulerCalm /\ UNCHANGED <<hub, cache>>
    BY <2>1, <2>2, MarkedOrderly DEF BindingState
  <2> QED BY <2>2, <2>3, HubQuietKeeps
<1> QED BY <1>1, <1>2, <1>3, <1>4, <1>5, <1>6, <1>7, <1>8, <1>9 DEF Next

\* At the start the placement has neither bindings nor Works.
LEMMA InitDelivery == Init => DeliveryInvariant
<1> SUFFICES ASSUME Init PROVE DeliveryInvariant
  OBVIOUS
<1>1. \A b \in Binding : /\ binding[b].phase = "absent" /\ binding[b].snap = 0
                         /\ work[b] = NoWork /\ work[b].snap = 0
  BY SMTT(60) DEF Init, HubInit, AbsentBinding, WorkDeliveryInit, NoWork
<1>2. Live = {}
  BY <1>1 DEF Live
<1>3. /\ cache = hub /\ hub.snap \in Nat /\ rollout.snap = 0 /\ rollout.update = {}
      /\ sched.pc = "idle" /\ sched.create = {}
      /\ hub.placement.phase = "active" /\ ~hub.placement.fin
  <2>1. rollout.snap = 0 /\ rollout.update = {}
    BY DEF Init, RolloutInit, IdleRollout
  <2>2. sched.pc = "idle" /\ sched.create = {}
    BY DEF Init, SchedulerInit, IdleScheduler
  <2>3. cache = hub /\ hub.placement.phase = "active" /\ ~hub.placement.fin
    <3>0. HubInit
      BY DEF Init
    <3>1. PICK n \in Numbers, x \in Strategies :
             hub = [placement |-> [phase |-> "active", fin |-> FALSE,
                                   number |-> n, strategy |-> x],
                    policy |-> [index |-> 0, number |-> n],
                    snap |-> 0,
                    clusters |-> Cluster]
      BY <3>0 DEF HubInit
    <3>2. cache = hub
      BY <3>0 DEF HubInit
    <3>3. hub.placement = [phase |-> "active", fin |-> FALSE, number |-> n, strategy |-> x]
      BY <3>1
    <3>4. hub.placement.phase = "active" /\ ~hub.placement.fin
      BY SMTT(60), <3>3
    <3> QED BY <3>2, <3>4
  <2>4. hub.snap \in Nat
    <3>1. hub \in HubObjects
      BY InitInvariant DEF InductiveInvariant, TypeOK, HubTypeOK
    <3> QED BY SMTT(60), <3>1 DEF HubObjects
  <2> QED BY <2>1, <2>2, <2>3, <2>4
<1>4. NoOrphanBinding /\ NoWorkLeftBehind
  BY <1>1, <1>2 DEF NoOrphanBinding, NoWorkLeftBehind
<1>5. SnapshotsInOrder
  BY SMTT(60), <1>1, <1>3 DEF SnapshotsInOrder
<1>6. CleanupInOrder
  BY <1>2, <1>3 DEF CleanupInOrder, Gone
<1> QED BY <1>4, <1>5, <1>6 DEF DeliveryInvariant

\* Nothing is lost while nothing happens.
LEMMA StutterDelivery ==
    ASSUME Known, TypeOK', UNCHANGED vars
    PROVE  Orderly /\ DeliveryInvariant'
<1>1. /\ UNCHANGED <<binding, work, sched, rollout, cache, hub>>
      /\ UNCHANGED <<binding, work>> /\ UNCHANGED <<hub, cache>>
  BY DEF vars
<1>2. Orderly /\ RolloutCalm
  BY <1>1, QuietOrderly DEF RolloutCalm
<1> QED BY <1>1, <1>2, HubQuietKeeps

\* Both inductive invariants are kept, and every step is orderly.
LEMMA StepDelivery == Known /\ [Next]_vars => Orderly /\ Known'
<1> SUFFICES ASSUME Known, [Next]_vars PROVE Orderly /\ Known'
  OBVIOUS
<1>1. InductiveInvariant'
  BY NextInvariant DEF Known
<1>2. TypeOK'
  BY <1>1 DEF InductiveInvariant
<1> QED BY <1>1, <1>2, NextDelivery, StutterDelivery DEF Known

-----------------------------------------------------------------------------
\* The two inductive invariants hold together in every reachable state.
THEOREM DeliveryInvariance == Spec => []Known
<1>1. Init => Known
  BY InitInvariant, InitDelivery DEF Known
<1> QED BY <1>1, StepDelivery, PTL DEF Spec

\* The scheduler removes its finalizer from a deleted placement only when no
\* binding of it is left in use, whatever cycle was under way and however stale
\* the cache was when the placement was deleted.
THEOREM NoBindingOutlivesPlacement == Spec => []NoOrphanBinding
<1>1. Known => NoOrphanBinding
  BY DEF Known, DeliveryInvariant
<1> QED BY <1>1, DeliveryInvariance, PTL

\* The work generator releases a binding, or lets an eviction or the scheduler
\* remove it, only when its Works are gone: the finalizer stands before them.
THEOREM NoWorkOutlivesBinding == Spec => []NoWorkLeftBehind
<1>1. Known => NoWorkLeftBehind
  BY DEF Known, DeliveryInvariant
<1> QED BY <1>1, DeliveryInvariance, PTL

\* No step of any controller takes a binding or its Works back to an older
\* resource snapshot, for any number of snapshots and any lag of the caches.
THEOREM SnapshotsForward == Spec => SnapshotsMoveForward
<1>1. Orderly =>
        \A b \in Binding :
          /\ binding'[b].phase # "gone" => binding[b].snap <= binding'[b].snap
          /\ work'[b] # NoWork => work[b].snap <= work'[b].snap
  BY DEF Orderly
<1> QED BY <1>1, StepDelivery, DeliveryInvariance, PTL DEF Spec, SnapshotsMoveForward

=============================================================================
