-------------------------------- MODULE Hub --------------------------------
(***************************************************************************)
(* The objects of ONE placement (a ClusterResourcePlacement or a           *)
(* ResourcePlacement) as the hub cluster's API server stores them, and the *)
(* informer cache through which the controllers of the hub agent read some *)
(* of them.                                                                *)
(*                                                                         *)
(* Optimistic concurrency.  A controller that reads a binding and writes   *)
(* it back is refused when the resourceVersion moved in between.  Instead  *)
(* of counting versions the model keeps, for each controller that holds    *)
(* bindings over several API calls, the set of bindings whose stored       *)
(* version is still the one in its hands: schedFresh and rolloutFresh.     *)
(* Every write removes the binding from the sets of the other controllers. *)
(*                                                                         *)
(* Generations.  A condition counts only while its observedGeneration is   *)
(* the generation of the object, and every change of a spec (and the       *)
(* deletion mark) starts a new generation.  A condition of an older        *)
(* generation is treated by every reader like a missing one, so the model  *)
(* drops it: NewGeneration.                                                *)
(***************************************************************************)
EXTENDS Naturals, FiniteSets

CONSTANTS
    Binding,        \* the names bindings can have; a name is used once
    Cluster,        \* the names of the member clusters
    None,           \* no value: an absent annotation, condition, cluster
    PlacementType,  \* "PickAll", "PickN" or "PickFixed"
    MaxPolicy,      \* bound: scheduling policy snapshots ever published
    MaxSnapshot,    \* bound: resource snapshots ever published
    Numbers,        \* the values spec.policy.numberOfClusters may take
    Strategies      \* the apply strategies the user may choose

ASSUME HubAssumption ==
    /\ IsFiniteSet(Binding)
    /\ IsFiniteSet(Cluster)
    /\ None \notin Cluster
    /\ None \notin {"Scheduled", "Bound", "Unscheduled"}
    /\ PlacementType \in {"PickAll", "PickN", "PickFixed"}
    /\ MaxPolicy \in Nat
    /\ MaxSnapshot \in Nat
    /\ Numbers \subseteq Nat

VARIABLES
    binding,        \* the stored ResourceBindings
    schedFresh,     \* bindings whose stored version the scheduler holds
    rolloutFresh,   \* bindings whose stored version the rollout controller holds
    hub,            \* the stored placement, policy, snapshot and clusters
    cache           \* the same objects as the informers last delivered them

hubVars == <<binding, schedFresh, rolloutFresh, hub, cache>>

BindingState == {"Scheduled", "Bound", "Unscheduled"}

\* The conditions a work generator has reported for the current generation:
\* Progressing stands for Applied or Available = False while the member agent
\* is at work, Failed for a failed override, synchronisation or apply,
\* Untracked for an Available condition that only says the resources cannot be
\* tracked, Settled for one older than unavailablePeriodSeconds, Diffing and
\* Diffed for DiffReported = False and True.
Report == {"Progressing", "Failed", "Available", "Untracked", "Settled",
           "Diffing", "Diffed"}

ResourceBinding ==
    [phase    : {"absent", "live", "deleting", "gone"},
     cluster  : Cluster \cup {None},        \* spec.targetCluster
     state    : BindingState,               \* spec.state
     prev     : BindingState \cup {None},   \* previous-binding-state annotation
     policy   : 0..MaxPolicy,               \* spec.schedulingPolicySnapshotName
     snap     : 0..MaxSnapshot,             \* spec.resourceSnapshotName, 0: none
     strategy : Strategies \cup {None},     \* spec.applyStrategy
     schedFin : BOOLEAN,                    \* SchedulerBindingCleanupFinalizer
     workFin  : BOOLEAN,                    \* WorkFinalizer
     started  : {"True", "False", None},    \* RolloutStarted, this generation
     report   : Report \cup {None}]         \* the other conditions

AbsentBinding ==
    [phase |-> "absent", cluster |-> None, state |-> "Scheduled",
     prev |-> None, policy |-> 0, snap |-> 0, strategy |-> None,
     schedFin |-> FALSE, workFin |-> FALSE, started |-> None, report |-> None]

GoneBinding == [AbsentBinding EXCEPT !.phase = "gone"]

PlacementObj ==
    [phase    : {"active", "deleting", "gone"},
     fin      : BOOLEAN,            \* SchedulerCleanupFinalizer
     number   : Numbers,            \* spec.policy.numberOfClusters
     strategy : Strategies]         \* spec.strategy.applyStrategy

\* index 0: none published yet.
PolicySnapshot == [index : 0..MaxPolicy, number : Numbers]

HubObjects ==
    [placement : PlacementObj,
     policy    : PolicySnapshot,
     snap      : 0..MaxSnapshot,
     clusters  : SUBSET Cluster]

----------------------------------------------------------------------------
Live == {b \in Binding : binding[b].phase = "live"}

Deleting == {b \in Binding : binding[b].phase = "deleting"}

\* What an uncached list of the placement's bindings returns.
Existing == Live \cup Deleting

InState(s) == {b \in Existing : binding[b].state = s}

ClustersOf(S) == {binding[b].cluster : b \in S}

\* A write that changes the spec: every condition becomes out of date.
NewGeneration(r) == [r EXCEPT !.started = None, !.report = None]

\* The API server drops a deleted object once its last finalizer is removed.
Finalize(r) ==
    IF r.phase = "deleting" /\ ~r.schedFin /\ ~r.workFin
    THEN GoneBinding
    ELSE r

\* A delete call: the object stays, marked, while it has finalizers.
MarkDeleting(r) ==
    IF r.phase = "live"
    THEN Finalize(NewGeneration([r EXCEPT !.phase = "deleting"]))
    ELSE r

Store(b, r) == binding' = [binding EXCEPT ![b] = r]

SchedulerWrites(b, r) ==
    /\ Store(b, r)
    /\ rolloutFresh' = rolloutFresh \ {b}

RolloutWrites(b, r) ==
    /\ Store(b, r)
    /\ schedFresh' = schedFresh \ {b}

OtherWrites(b, r) ==
    /\ Store(b, r)
    /\ schedFresh' = schedFresh \ {b}
    /\ rolloutFresh' = rolloutFresh \ {b}
    /\ UNCHANGED <<hub, cache>>

----------------------------------------------------------------------------
HubTypeOK ==
    /\ binding \in [Binding -> ResourceBinding]
    /\ schedFresh \subseteq Binding
    /\ rolloutFresh \subseteq Binding
    /\ hub \in HubObjects
    /\ cache \in HubObjects

HubInit ==
    /\ binding = [b \in Binding |-> AbsentBinding]
    /\ schedFresh = {}
    /\ rolloutFresh = {}
    /\ \E n \in Numbers, s \in Strategies :
          hub = [placement |-> [phase |-> "active", fin |-> FALSE,
                                number |-> n, strategy |-> s],
                 policy |-> [index |-> 0, number |-> n],
                 snap |-> 0,
                 clusters |-> Cluster]
    /\ cache = hub
============================================================================
