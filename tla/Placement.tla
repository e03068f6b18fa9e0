----------------------------- MODULE Placement -----------------------------
(***************************************************************************)
(* One placement from its policy to the Works of its clusters: the         *)
(* scheduler, the rollout controller and the work delivery act on the same *)
(* bindings, while the user edits the placement, evicts bindings and       *)
(* deletes the placement, clusters leave and join, the informers lag, API  *)
(* calls fail and the hub agent restarts.                                  *)
(***************************************************************************)
EXTENDS Scheduler, Rollout, WorkDelivery

\* What may happen in one behaviour besides the work of the controllers, how
\* often: edits of the placement (number, strategy, deletion), clusters that
\* leave or join the fleet, failed API calls and restarts, evictions, and
\* failures reported by member agents.
Budget == [edits : Nat, moves : Nat, errors : Nat, evictions : Nat, failures : Nat]

CONSTANT Budgets    \* the budgets a behaviour may start with

ASSUME PlacementAssumption == Budgets \subseteq Budget

VARIABLE budget

vars == <<binding, schedFresh, rolloutFresh, hub, cache, sched, decided,
          rollout, work, budget>>

\* Every object and every plan keeps its shape; in particular a binding only
\* ever gets a state the annotation or the code can give it.
TypeOK ==
    /\ HubTypeOK
    /\ SchedulerTypeOK
    /\ RolloutTypeOK
    /\ WorkDeliveryTypeOK
    /\ budget \in Budget

Spend(what) ==
    /\ budget[what] > 0
    /\ budget' = [budget EXCEPT ![what] = @ - 1]

----------------------------------------------------------------------------
(* The user and the fleet.                                                 *)

Edit(newHub) ==
    /\ hub' = newHub
    /\ UNCHANGED <<binding, schedFresh, rolloutFresh, cache, sched, rollout, work>>

\* A new scheduling policy: the placement controller creates a new policy
\* snapshot, whose status is empty.
PublishPolicy ==
    /\ hub.placement.phase = "active"
    /\ hub.policy.index < MaxPolicy
    /\ LET next == hub.policy.index + 1
       IN  \E n \in Numbers :
              /\ PlacementType = "PickFixed" => n = Cardinality(Eligible[next])
              /\ PlacementType = "PickAll" => n = hub.policy.number
              /\ Edit([hub EXCEPT !.policy = [index |-> next, number |-> n],
                                  !.placement.number = n])
    /\ decided' = {}
    /\ UNCHANGED budget

PublishSnapshot ==
    /\ hub.placement.phase = "active"
    /\ hub.snap < MaxSnapshot
    /\ Edit([hub EXCEPT !.snap = @ + 1])
    /\ UNCHANGED <<decided, budget>>

\* numberOfClusters is an annotation of the policy snapshot: no new snapshot.
ChangeNumber ==
    /\ hub.placement.phase = "active"
    /\ PlacementType = "PickN"
    /\ hub.policy.index > 0
    /\ Spend("edits")
    /\ \E n \in Numbers \ {hub.policy.number} :
          Edit([hub EXCEPT !.policy.number = n, !.placement.number = n])
    /\ UNCHANGED decided

ChangeStrategy ==
    /\ hub.placement.phase = "active"
    /\ Spend("edits")
    /\ \E s \in Strategies \ {hub.placement.strategy} :
          Edit([hub EXCEPT !.placement.strategy = s])
    /\ UNCHANGED decided

DeletePlacement ==
    /\ hub.placement.phase = "active"
    /\ Spend("edits")
    /\ Edit([hub EXCEPT !.placement.phase = IF hub.placement.fin
                                            THEN "deleting" ELSE "gone"])
    /\ UNCHANGED decided

\* A member cluster leaves the fleet, or joins it (again).
ClusterChange ==
    /\ Spend("moves")
    /\ \E c \in Cluster :
          Edit([hub EXCEPT !.clusters = IF c \in @ THEN @ \ {c} ELSE @ \cup {c}])
    /\ UNCHANGED decided

\* An informer delivers the latest version of one kind of object.
CacheSync ==
    /\ \E kind \in DOMAIN hub :
          /\ cache[kind] # hub[kind]
          /\ cache' = [cache EXCEPT ![kind] = hub[kind]]
    /\ UNCHANGED <<binding, schedFresh, rolloutFresh, hub, sched, decided,
                   rollout, work, budget>>

\* The eviction controller deletes a binding that may have resources on its
\* cluster, provided it is still the version it has validated.  A disruption
\* budget may or may not allow it (Eviction has the details).
Evict(b) ==
    /\ cache.placement.phase = "active"
    /\ PlacementType # "PickFixed"
    /\ HoldsResources(b)
    /\ Spend("evictions")
    /\ OtherWrites(b, MarkDeleting(binding[b]))
    /\ UNCHANGED <<sched, decided, rollout, work>>

\* An API call fails, or the hub agent restarts, in the middle of a plan.
Interrupt ==
    /\ Spend("errors")
    /\ \/ AbandonCycle /\ UNCHANGED rollout
       \/ AbandonRollout /\ UNCHANGED <<sched, decided>>
    /\ UNCHANGED work

\* The API server is unavailable for a moment.
RetriedMark ==
    /\ \E b \in Binding : RetryMarkUnscheduled(b)
    /\ UNCHANGED <<rollout, work, budget>>

MemberFails ==
    /\ Spend("failures")
    /\ \E b \in Binding : MemberReports(b, "failed")
    /\ UNCHANGED <<sched, decided, rollout>>

----------------------------------------------------------------------------
Schedule == SchedulerStep /\ UNCHANGED <<rollout, work, budget>>

Roll == RolloutStep /\ UNCHANGED <<sched, decided, work, budget>>

Deliver(b) == WorkDeliveryStep(b) /\ UNCHANGED <<sched, decided, rollout, budget>>

Init ==
    /\ HubInit
    /\ PlacementType = "PickFixed" => hub.placement.number = Cardinality(Eligible[1])
    /\ SchedulerInit
    /\ RolloutInit
    /\ WorkDeliveryInit
    /\ budget \in Budgets

Next ==
    \/ Schedule
    \/ Roll
    \/ \E b \in Binding : Deliver(b)
    \/ \E b \in Binding : Evict(b)
    \/ CacheSync
    \/ PublishPolicy
    \/ PublishSnapshot
    \/ ChangeNumber
    \/ ChangeStrategy
    \/ DeletePlacement
    \/ ClusterChange
    \/ Interrupt
    \/ RetriedMark
    \/ MemberFails

Spec == Init /\ [][Next]_vars

\* The controllers requeue whatever they have not finished, the informers and
\* the member agents keep going; users, failures and restarts owe nothing.
FairSpec ==
    /\ Spec
    /\ WF_vars(Schedule)
    /\ WF_vars(Roll)
    /\ WF_vars(CacheSync)
    /\ \A b \in Binding : WF_vars(Deliver(b))

----------------------------------------------------------------------------
\* At most one binding of the placement that is not being deleted targets a
\* cluster, whatever cycles, patches, evictions and restarts are interleaved:
\* the first "unexpected behavior" of waitForResourcesToCleanUp never happens.
OneLivePerCluster ==
    \A a, b \in Live : binding[a].cluster = binding[b].cluster => a = b

\* A binding with resources on its cluster (bound, or deselected after it was
\* bound) never has a sibling on that cluster which is still being deleted: the
\* other "unexpected behavior" of waitForResourcesToCleanUp, the state in which
\* the resources of two bindings would be applied and removed at a time.
NoBoundBesideDeleting ==
    \A a \in Deleting, b \in Live :
        binding[a].cluster = binding[b].cluster => ~HoldsResources(b)

\* The inductive invariant behind the two.  The scheduler plans to create a
\* binding only for a cluster where none is in use, and only the scheduler
\* creates bindings; the rollout controller plans to bind only where no other
\* binding is being deleted, and with one binding in use per cluster none can
\* start to be; a deselected binding remembers some earlier state.
CreatesOnFreeClusters ==
    \A c \in sched.create : \A b \in Live : binding[b].cluster # c

UpdatesOnCleanClusters ==
    \A b \in rollout.update :
        /\ binding[b].phase # "absent"
        /\ b \in Live => \A a \in Deleting : binding[a].cluster # binding[b].cluster

UnscheduledRemembers ==
    \A b \in Binding : binding[b].state = "Unscheduled" => binding[b].prev # None

\* The five facts together with the types: preserved by every step, also of
\* the controllers that act on what they read earlier.
InductiveInvariant ==
    /\ TypeOK
    /\ OneLivePerCluster
    /\ NoBoundBesideDeleting
    /\ CreatesOnFreeClusters
    /\ UpdatesOnCleanClusters
    /\ UnscheduledRemembers

\* What the abstract specification sees of a binding.
LifeOf(b) == [stage |-> IF HoldsResources(b) THEN "placed" ELSE binding[b].phase,
              cluster |-> binding[b].cluster]

MappedLife == [b \in Binding |-> LifeOf(b)]

Lifecycle == INSTANCE BindingLifecycle WITH life <- MappedLife

\* The bindings of a placement live as BindingLifecycle says: the abstract
\* specification the scheduler, the rollout controller, the work generator and
\* the evictions implement together.
ImplementsLifecycle == Lifecycle!LifeSpec

\* Once a placement is gone none of its bindings is left behind alive, though a
\* cycle that began on a stale cache may create bindings after the deletion.
NoOrphanBinding ==
    hub.placement.phase = "gone" => Live = {}

\* updateBindings never takes a ready binding down when that leaves fewer than
\* target - maxUnavailable of the bindings it found ready, as long as no other
\* controller has written one of these in the meantime.
AvailabilityFloor ==
    [][\A b \in rollout.ready :
          /\ rollout' # rollout
          /\ rollout.ready \subseteq rolloutFresh
          /\ IsReady(binding[b]) /\ ~IsReady(binding'[b])
          => Cardinality({a \in rollout.ready : IsReady(binding'[a])})
                >= rollout.target - Scaled(MaxUnavailable, rollout.target)]_vars

\* A binding never goes back to an older resource snapshot, and neither do its
\* Works, however far the snapshot cache of the rollout controller lags.
SnapshotsMoveForward ==
    [][\A b \in Binding :
          /\ binding'[b].phase # "gone" => binding[b].snap <= binding'[b].snap
          /\ work'[b] # NoWork => work[b].snap <= work'[b].snap]_vars

\* A binding is released only after its Works are gone, and a binding that is
\* not there has no Works.
NoWorkLeftBehind ==
    \A b \in Binding : work[b] # NoWork => b \in Existing /\ binding[b].workFin

\* What makes the three inductive.  Snapshots reach a binding through the cache of
\* the rollout controller and the plan it is in, and the Works through the binding.
SnapshotsInOrder ==
    /\ rollout.snap <= cache.snap /\ cache.snap <= hub.snap
    /\ \A b \in Binding :
          /\ binding[b].snap <= cache.snap
          /\ rollout.update # {} => binding[b].snap <= rollout.snap
          /\ binding[b].phase = "absent" => binding[b].snap = 0
          /\ work[b].snap <= binding[b].snap

Gone == hub.placement.phase = "gone"

\* The scheduler works for a placement only behind its finalizer, and lets it go
\* when the clean-up, which creates nothing, has been through every binding.
CleanupInOrder ==
    /\ cache.placement.fin \/ sched.pc # "idle" => hub.placement.fin \/ Gone
    /\ Live # {} => hub.placement.fin
    /\ cache.placement.phase # "active" => hub.placement.phase # "active"
    /\ sched.create # {} => sched.pc = "cycle"
    /\ sched.pc = "cleanup" =>
          /\ cache.placement.phase # "active"
          /\ Live \subseteq sched.wipe \cup sched.erase
          /\ \A a, b \in sched.erase : a = b
    /\ Gone => sched.pc # "cycle" /\ ~(cache.placement.phase = "active" /\ cache.placement.fin)

DeliveryInvariant ==
    /\ NoOrphanBinding
    /\ NoWorkLeftBehind
    /\ SnapshotsInOrder
    /\ CleanupInOrder

\* Every binding is bound to the latest snapshot and ready, there is exactly
\* one for each cluster of the published decision, and none other is left.
Delivered ==
    /\ Deleting = {}
    /\ \A b \in Live : /\ binding[b].state = "Bound"
                      /\ binding[b].snap = hub.snap
                      /\ binding[b].strategy = hub.placement.strategy
                      /\ IsReady(binding[b])
                      /\ Matches(b)
    /\ ClustersOf(Live) = decided
    /\ LET eligible == Eligible[hub.policy.index] \cap hub.clusters
       IN  /\ decided \subseteq eligible
           /\ Cardinality(decided) =
                 IF PlacementType = "PickN"
                 THEN Min({hub.policy.number, Cardinality(eligible)})
                 ELSE Cardinality(eligible)

\* Once the user, the fleet and the failures leave the placement alone, it is
\* delivered, or, if it was deleted, nothing of it is left.
Convergence ==
    <>[](/\ hub.placement.phase # "active" =>
               hub.placement.phase = "gone" /\ Existing = {}
         /\ hub.placement.phase = "active" /\ hub.policy.index > 0 /\ hub.snap > 0 =>
               Delivered)
============================================================================
