-------------------------- MODULE ClusterProperties --------------------------
(***************************************************************************)
(* What a member cluster reports about itself.  The node, pod and namespace*)
(* controllers of the Azure property provider keep running totals in three *)
(* trackers (pkg/propertyprovider); the member agent's heartbeat collects  *)
(* them, through a call it limits and abandons at a deadline, into the     *)
(* status of the InternalMemberCluster                                     *)
(* (pkg/controllers/internalmembercluster/v1beta1/member_controller.go).   *)
(*                                                                         *)
(* CPU and memory are counted alike, resource by resource, so one resource *)
(* stands for both.  An informer hands over every change of an object as it*)
(* happens: node, pod and namespace are the caches the controllers read.   *)
(***************************************************************************)
EXTENDS Integers, FiniteSets, Sequences, FiniteSetsExt, SequencesExt

CONSTANTS
    Nodes, Pods, Namespaces,
    NodeShapes,         \* the nodes that may appear: [capacity, allocatable, sku]
    PodShapes,          \* the pods: the requests of their containers, a sequence
    Tables,             \* the price lists: functions from SKUs to a price
    TrackerLimit,       \* namespaceTrackerLimit
    MaxQueued,          \* maxQueuedPropertyCollectionCalls
    PodListLimit,       \* podListLimit
    MaxEvents,          \* bound: changes of the cluster and of the prices
    MaxHangs            \* bound: calls of the provider that overstay their deadline

ASSUME PropertiesAssumption ==
    /\ {TrackerLimit, MaxQueued, PodListLimit, MaxEvents, MaxHangs} \subseteq Nat
    /\ \A s \in NodeShapes, t \in Tables : s.sku \in DOMAIN t

Absent == "absent"
\* pricing.MissingPrice; a SKU the table does not know counts alike.
MissingPrice == -1

VARIABLES
    node, pod, ns,      \* the caches: what the informers last delivered
    queued,             \* the work queues of the three controllers
    prices,             \* the pricing provider: its table and its LastUpdated
    nt, pt, nst,        \* NodeTracker, PodTracker, NamespaceTracker
    agent,              \* the agent: provider started?, rejected attempts
    running,            \* Collect calls: the one waited for, and late, those given up
    report,             \* the status of the InternalMemberCluster
    budget

vars == <<node, pod, ns, queued, prices, nt, pt, nst, agent, running, report, budget>>
cluster == <<node, pod, ns, queued, prices>>
trackers == <<nt, pt, nst>>

Keys == {"node"} \X Nodes \cup {"pod"} \X Pods \cup {"ns"} \X Namespaces

-----------------------------------------------------------------------------
(* The node tracker.  Its maps hold the tracked nodes only; the costs are  *)
(* kept as the hourly rate and the capacity it is divided by.              *)

\* err: why there are no costs; version: lastUpdated.
NewNodeTracker ==
    [totalCapacity |-> 0, totalAllocatable |-> 0,
     capacityByNode |-> <<>>, allocatableByNode |-> <<>>, skuByNode |-> <<>>,
     nodeSetBySKU |-> <<>>,
     costs |-> [rate |-> 0, per |-> 0, err |-> "not calculated", version |-> -1]]

Without(f, x) == [y \in DOMAIN f \ {x} |-> f[y]]
With(f, x, v) == [y \in DOMAIN f \cup {x} |-> IF y = x THEN v ELSE f[y]]
Get(f, x, default) == IF x \in DOMAIN f THEN f[x] ELSE default

\* calculateCosts: a SKU without a price fails the calculation, after which the
\* rates are computed all the same.
CalculateCosts(t) ==
    LET skus    == DOMAIN t.nodeSetBySKU
        missing == {s \in skus : prices.table[s] = MissingPrice}
        rate    == MapThenSumSet(LAMBDA s : prices.table[s] * Cardinality(t.nodeSetBySKU[s]), skus \ missing)
        cost(r, c, e) == [rate |-> r, per |-> c, err |-> e, version |-> prices.version]
        err     == IF missing = {} THEN "none" ELSE "some missing"
    IN  [t EXCEPT !.costs =
            CASE skus = {}            -> cost(0, 0, "none")
              [] skus # {} /\ rate = 0 -> cost(0, 0, "all missing")
              [] skus # {} /\ rate # 0 /\ t.totalCapacity = 0 -> cost(0, 0, "no capacity")
              [] OTHER                -> cost(rate, t.totalCapacity, err)]

\* A SKU whose last node goes is removed from the sets.
Unregister(t, n) ==
    IF n \notin DOMAIN t.skuByNode THEN t
    ELSE LET sku  == t.skuByNode[n]
             rest == t.nodeSetBySKU[sku] \ {n}
         IN  [t EXCEPT !.skuByNode = Without(@, n),
                       !.nodeSetBySKU = IF rest = {} THEN Without(@, sku) ELSE [@ EXCEPT ![sku] = rest]]

TrackSKU(t, n, sku) ==
    IF Get(t.skuByNode, n, Absent) = sku THEN t
    ELSE LET u == Unregister(t, n)
         IN  [u EXCEPT !.skuByNode = With(@, n, sku),
                       !.nodeSetBySKU = With(@, sku, Get(@, sku, {}) \cup {n})]

\* Mutant: the old amount of a node is not subtracted.
AdjustedUp(total, by, x, v) == total + v
\* The running total after the amount of x becomes v.
Adjusted(total, by, x, v) == total - Get(by, x, 0) + v

\* AddOrUpdate: the costs follow a change of the capacity or of the SKU only.
AddOrUpdateNode(t, n, s) ==
    LET tracked == TrackSKU(
            [t EXCEPT !.totalCapacity = Adjusted(@, t.capacityByNode, n, s.capacity),
                      !.capacityByNode = With(@, n, s.capacity),
                      !.totalAllocatable = Adjusted(@, t.allocatableByNode, n, s.allocatable),
                      !.allocatableByNode = With(@, n, s.allocatable)], n, s.sku)
        capacityChanged == Get(t.capacityByNode, n, -1) # s.capacity
        skuChanged      == Get(t.skuByNode, n, Absent) # s.sku
    IN  IF capacityChanged \/ skuChanged THEN CalculateCosts(tracked) ELSE tracked

RemoveNode(t, n) ==
    CalculateCosts(Unregister(
        [t EXCEPT !.totalCapacity = Adjusted(@, t.capacityByNode, n, 0),
                  !.capacityByNode = Without(@, n),
                  !.totalAllocatable = Adjusted(@, t.allocatableByNode, n, 0),
                  !.allocatableByNode = Without(@, n)], n))

\* Mutant: a newer price list goes unnoticed.
CostsCached(t) == t
\* Costs(): recalculated when the prices are newer than the costs.
Costs(t) == IF t.costs.version < prices.version THEN CalculateCosts(t) ELSE t

-----------------------------------------------------------------------------
(* The pod tracker and the namespace tracker.                              *)

NewPodTracker == [totalRequested |-> 0, requestedByPod |-> <<>>]
AddOrUpdatePod(t, p, containers) ==
    LET requests == FoldSeq(LAMBDA r, sum : r + sum, 0, containers)
    IN  [t EXCEPT !.totalRequested = Adjusted(@, t.requestedByPod, p, requests),
                  !.requestedByPod = With(@, p, requests)]
RemovePod(t, p) ==
    [t EXCEPT !.totalRequested = Adjusted(@, t.requestedByPod, p, 0), !.requestedByPod = Without(@, p)]

NewNamespaceTracker == [appliedWorkByNamespace |-> <<>>, reachLimit |-> FALSE]
\* At the limit a new namespace is not tracked.
AddOrUpdateNamespace(t, x, work) ==
    IF x \notin DOMAIN t.appliedWorkByNamespace /\ Cardinality(DOMAIN t.appliedWorkByNamespace) = TrackerLimit
    THEN [t EXCEPT !.reachLimit = TRUE]
    ELSE [t EXCEPT !.appliedWorkByNamespace = With(@, x, work)]
RemoveNamespace(t, x) ==
    IF x \notin DOMAIN t.appliedWorkByNamespace THEN t
    ELSE LET left == Without(t.appliedWorkByNamespace, x)
         IN  [appliedWorkByNamespace |-> left,
              reachLimit |-> t.reachLimit /\ Cardinality(DOMAIN left) >= TrackerLimit]

-----------------------------------------------------------------------------
(* The cluster, as its informers deliver it.                               *)

NoNode == [capacity |-> 0, allocatable |-> 0, sku |-> Absent]
\* Only a pod that is bound and has not finished is in the pod cache.
NoPod == <<>>
NoNamespace == [deleting |-> FALSE, work |-> Absent]

Event == budget.events < MaxEvents /\ budget' = [budget EXCEPT !.events = @ + 1]

ChangeNode(n) ==
    /\ Event
    /\ node' \in {[node EXCEPT ![n] = s] : s \in (NodeShapes \cup {NoNode}) \ {node[n]}}
    /\ queued' = queued \cup {<<"node", n>>}
    /\ UNCHANGED <<pod, ns, prices, trackers, agent, running, report>>

ChangePod(p) ==
    /\ Event
    /\ pod' \in {[pod EXCEPT ![p] = s] : s \in (PodShapes \cup {NoPod}) \ {pod[p]}}
    /\ queued' = queued \cup {<<"pod", p>>}
    /\ UNCHANGED <<node, ns, prices, trackers, agent, running, report>>

\* A namespace is created, may be taken over by an AppliedWork, and terminates.
NamespaceStep(old) ==
    CASE old = NoNamespace -> {[deleting |-> FALSE, work |-> ""]}
      [] old.deleting      -> {NoNamespace}
      [] OTHER             -> {NoNamespace, [old EXCEPT !.deleting = TRUE],
                               [old EXCEPT !.work = IF @ = "" THEN "work" ELSE ""]}

\* The predicate of the namespace controller.
NamespaceEventFilter(old, new) ==
    \/ old = NoNamespace
    \/ new = NoNamespace
    \/ ~old.deleting /\ new.deleting
    \/ old.work # new.work

ChangeNamespace(x) ==
    /\ Event
    /\ \E new \in NamespaceStep(ns[x]) :
        /\ ns' = [ns EXCEPT ![x] = new]
        /\ queued' = IF NamespaceEventFilter(ns[x], new) THEN queued \cup {<<"ns", x>>} ELSE queued
    /\ UNCHANGED <<node, pod, prices, trackers, agent, running, report>>

UpdatePrices ==
    /\ Event
    /\ \E t \in Tables : prices' = [table |-> t, version |-> prices.version + 1]
    /\ UNCHANGED <<node, pod, ns, queued, trackers, agent, running, report>>

ReconcileNode(n) ==
    /\ <<"node", n>> \in queued
    /\ queued' = queued \ {<<"node", n>>}
    /\ nt' = IF node[n] = NoNode THEN RemoveNode(nt, n) ELSE AddOrUpdateNode(nt, n, node[n])
    /\ UNCHANGED <<node, pod, ns, prices, pt, nst, agent, running, report, budget>>

ReconcilePod(p) ==
    /\ <<"pod", p>> \in queued
    /\ queued' = queued \ {<<"pod", p>>}
    /\ pt' = IF pod[p] = NoPod THEN RemovePod(pt, p) ELSE AddOrUpdatePod(pt, p, pod[p])
    /\ UNCHANGED <<node, pod, ns, prices, nt, nst, agent, running, report, budget>>

\* A namespace that terminates is no longer tracked.
ReconcileNamespace(x) ==
    /\ <<"ns", x>> \in queued
    /\ queued' = queued \ {<<"ns", x>>}
    /\ nst' = IF ns[x] = NoNamespace \/ ns[x].deleting THEN RemoveNamespace(nst, x)
              ELSE AddOrUpdateNamespace(nst, x, ns[x].work)
    /\ UNCHANGED <<node, pod, ns, prices, nt, pt, agent, running, report, budget>>

-----------------------------------------------------------------------------
(* The heartbeat of the member agent.                                      *)

\* collection: ClusterPropertyCollectionSucceeded with its reason; namespacesOK:
\* the NamespaceCollectionSucceeded condition; costsOK: the condition of the costs.
NoReport ==
    [collection |-> "None", count |-> 0, perSKU |-> <<>>, costs |-> <<>>,
     capacity |-> 0, allocatable |-> 0, available |-> 0, namespaces |-> <<>>, namespacesOK |-> FALSE]

\* startPropertyProviderOnce: a provider that fails to start, or does not start
\* within the deadline, is never used.
StartProvider ==
    /\ agent.provider = "New"
    /\ agent' \in {[agent EXCEPT !.provider = p] : p \in {"Started", "Fallback"}}
    /\ UNCHANGED <<cluster, trackers, running, report, budget>>

Left(allocatable, requested) == IF allocatable > requested THEN allocatable - requested ELSE 0

\* updateResourceStats: nodes and at most PodListLimit pods, listed directly.
UpdateResourceStats ==
    /\ agent.provider = "Fallback"
    /\ LET present == {n \in Nodes : node[n] # NoNode}
           bound   == {p \in Pods : pod[p] # NoPod}
           total(f(_)) == MapThenSumSet(f, present)
           allocatable == total(LAMBDA n : node[n].allocatable)
       IN  \E listed \in SUBSET bound :
            /\ Cardinality(listed) = Min({Cardinality(bound), PodListLimit})
            /\ report' = [NoReport EXCEPT
                    !.count = Cardinality(present),
                    !.capacity = total(LAMBDA n : node[n].capacity),
                    !.allocatable = allocatable,
                    !.available = Left(allocatable, MapThenSumSet(
                        LAMBDA p : FoldSeq(LAMBDA r, sum : r + sum, 0, pod[p]), listed))]
    /\ UNCHANGED <<cluster, trackers, agent, running, budget>>

TooManyCalls(ticket) == ticket > MaxQueued

\* queuedPropertyCollectionCalls counts the calls that have not returned and the
\* rejected attempts, which keep the ticket they took.  From MaxQueued rejections
\* on every attempt is rejected, so the count stops there.
StartCollection ==
    /\ agent.provider = "Started" /\ running.step = "None"
    /\ IF TooManyCalls(running.late + agent.rejected + 1)
       THEN /\ report' = [report EXCEPT !.collection = "TooManyCalls"]
            /\ agent' = [agent EXCEPT !.rejected = Min({@ + 1, MaxQueued})]
            /\ UNCHANGED running
       ELSE /\ running' = [running EXCEPT !.step = "nodes", !.res = NoReport]
            /\ UNCHANGED <<agent, report>>
    /\ UNCHANGED <<cluster, trackers, budget>>

CollectStep(step, next, res) ==
    /\ running.step = step
    /\ running' = [running EXCEPT !.step = next, !.res = res]
    /\ UNCHANGED <<cluster, pt, nst, agent, report, budget>>

\* Collect reads the trackers one after the other, each read under the tracker's
\* lock; the reads of the node tracker for the properties are one step, and so
\* are the reads for the resource usage.  An empty SKU is counted under the name
\* reserved for it; costs that could not be calculated are left out.
CollectNodeProperties ==
    LET t == Costs(nt)
    IN  /\ CollectStep("nodes", "resources", [running.res EXCEPT
            !.count = Cardinality(DOMAIN t.allocatableByNode),
            !.perSKU = [s \in {IF s = "" THEN "undefined" ELSE s : s \in DOMAIN t.nodeSetBySKU} |->
                            Cardinality(t.nodeSetBySKU[IF s = "undefined" THEN "" ELSE s])],
            !.costs = IF t.costs.err = "none" THEN <<t.costs.rate, t.costs.per>> ELSE <<>>])
        /\ nt' = t
CollectResources ==
    /\ CollectStep("resources", "namespaces", [running.res EXCEPT
            !.capacity = nt.totalCapacity,
            !.allocatable = nt.totalAllocatable,
            !.available = Left(nt.totalAllocatable, pt.totalRequested)])
    /\ UNCHANGED nt
CollectNamespaces ==
    /\ CollectStep("namespaces", "done", [running.res EXCEPT
            !.namespaces = nst.appliedWorkByNamespace, !.namespacesOK = ~nst.reachLimit])
    /\ UNCHANGED nt

\* The call returned in time: the whole response replaces the last one.
Collected ==
    /\ running.step = "done"
    /\ report' = [running.res EXCEPT !.collection = "Collected"]
    /\ running' = [running EXCEPT !.step = "None", !.res = NoReport]
    /\ UNCHANGED <<cluster, trackers, agent, budget>>

\* The deadline passes first: the call goes on by itself, its result is lost.
TimedOut ==
    /\ running.step # "None" /\ budget.hangs < MaxHangs
    /\ budget' = [budget EXCEPT !.hangs = @ + 1]
    /\ report' = [report EXCEPT !.collection = "TimedOut"]
    /\ running' = [step |-> "None", res |-> NoReport, late |-> running.late + 1]
    /\ UNCHANGED <<cluster, trackers, agent>>
LateReturn ==
    /\ running.late > 0
    /\ running' = [running EXCEPT !.late = @ - 1]
    /\ UNCHANGED <<cluster, trackers, agent, report, budget>>

-----------------------------------------------------------------------------
Init ==
    /\ node = [n \in Nodes |-> NoNode]
    /\ pod = [p \in Pods |-> NoPod]
    /\ ns = [x \in Namespaces |-> NoNamespace]
    /\ queued = {}
    /\ \E t \in Tables : prices = [table |-> t, version |-> 0]
    /\ nt = NewNodeTracker /\ pt = NewPodTracker /\ nst = NewNamespaceTracker
    /\ agent = [provider |-> "New", rejected |-> 0]
    /\ running = [step |-> "None", res |-> NoReport, late |-> 0]
    /\ report = NoReport
    /\ budget = [events |-> 0, hangs |-> 0]

Cluster ==
    \/ \E n \in Nodes : ChangeNode(n)
    \/ \E p \in Pods : ChangePod(p)
    \/ \E x \in Namespaces : ChangeNamespace(x)
    \/ UpdatePrices
Controllers ==
    \/ \E n \in Nodes : ReconcileNode(n)
    \/ \E p \in Pods : ReconcilePod(p)
    \/ \E x \in Namespaces : ReconcileNamespace(x)
Collect == CollectNodeProperties \/ CollectResources \/ CollectNamespaces
Heartbeat == StartProvider \/ UpdateResourceStats \/ StartCollection \/ Collected
Next == Cluster \/ Controllers \/ Collect \/ Heartbeat \/ TimedOut \/ LateReturn

Spec == Init /\ [][Next]_vars
\* The controllers and the heartbeat run; a late call returns in the end.
FairSpec ==
    /\ Spec
    /\ WF_vars(Controllers) /\ WF_vars(Collect) /\ WF_vars(Heartbeat) /\ WF_vars(LateReturn)

-----------------------------------------------------------------------------
Present == {n \in Nodes : node[n] # NoNode}
Bound == {p \in Pods : pod[p] # NoPod}
Requests(p) == FoldSeq(LAMBDA r, sum : r + sum, 0, pod[p])
Listable == {x \in Namespaces : ns[x] # NoNamespace /\ ~ns[x].deleting}

\* The maps of a tracker have one domain, and no SKU has an empty set of nodes.
TypeOK ==
    /\ DOMAIN nt.capacityByNode = DOMAIN nt.allocatableByNode
    /\ DOMAIN nt.capacityByNode = DOMAIN nt.skuByNode
    /\ DOMAIN nt.skuByNode \subseteq Nodes
    /\ \A s \in DOMAIN nt.nodeSetBySKU : nt.nodeSetBySKU[s] = {n \in DOMAIN nt.skuByNode : nt.skuByNode[n] = s}
    /\ \A s \in DOMAIN nt.nodeSetBySKU : nt.nodeSetBySKU[s] # {}
    /\ nt.totalCapacity \in Nat /\ nt.totalAllocatable \in Nat /\ pt.totalRequested \in Nat
    /\ DOMAIN pt.requestedByPod \subseteq Pods
    /\ Cardinality(DOMAIN nst.appliedWorkByNamespace) <= TrackerLimit
    /\ queued \subseteq Keys
    /\ agent.provider \in {"New", "Started", "Fallback"}
    /\ report.collection \in {"None", "Collected", "TimedOut", "TooManyCalls"}

\* The totals of the trackers, kept by subtracting old amounts and adding new
\* ones (nodes.go:339-436, pods.go:54-125), never drift: whatever the order of
\* the updates, they are what the nodes and pods known to the informers add up
\* to, apart from those whose latest change waits in a queue.
TotalsDoNotDrift ==
    /\ \A n \in Nodes : <<"node", n>> \notin queued =>
            /\ n \in DOMAIN nt.capacityByNode <=> n \in Present
            /\ n \in Present => nt.skuByNode[n] = node[n].sku
    /\ {k \in queued : k[1] = "node"} = {} =>
            /\ nt.totalCapacity = MapThenSumSet(LAMBDA n : node[n].capacity, Present)
            /\ nt.totalAllocatable = MapThenSumSet(LAMBDA n : node[n].allocatable, Present)
    /\ {k \in queued : k[1] = "pod"} = {} =>
            pt.totalRequested = MapThenSumSet(Requests, Bound)

ReportIsTrue ==
    /\ report.collection = "Collected"
    /\ report.count = Cardinality(Present)
    /\ report.capacity = MapThenSumSet(LAMBDA n : node[n].capacity, Present)
    /\ report.allocatable = MapThenSumSet(LAMBDA n : node[n].allocatable, Present)
    /\ report.available = Left(report.allocatable, MapThenSumSet(Requests, Bound))
    /\ report.costs = (LET c == CalculateCosts(nt).costs IN IF c.err = "none" THEN <<c.rate, c.per>> ELSE <<>>)
    /\ \A x \in DOMAIN report.namespaces : x \in Listable /\ report.namespaces[x] = ns[x].work

\* When the cluster and the prices stop changing, the reports of a started
\* provider come to show them as they are, unless an attempt was rejected
\* (the ticket of a rejected attempt is never given back).
ReportsConverge ==
    <>[](agent.provider = "Started" /\ agent.rejected = 0 => ReportIsTrue)

=============================================================================
