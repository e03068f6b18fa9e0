---------------------------- MODULE StatusReport ----------------------------
(***************************************************************************)
(* What the placement controller reports of a placement: the conditions of *)
(* every selected cluster, read from its binding, and those of the whole   *)
(* placement.  A report is a function from the kinds of conditions that    *)
(* are present to their status.                                            *)
(*                                                                         *)
(* A placement is a record with policy (name of the latest policy          *)
(* snapshot), type, wanted (the number of clusters, or of target names),   *)
(* external (the rollout strategy), diff (the apply strategy is            *)
(* ReportDiff), latest (index of the latest resource snapshot, 0 for none),*)
(* scheduled (the condition of the policy snapshot, "Unknown" when it is   *)
(* missing or older than the placement), selected and unselected (the      *)
(* clusters of the decisions) and reported (the conditions it has had so   *)
(* far).  A binding has deleting, cluster, policy, snap (the index, 0 for  *)
(* none) and conditions, a function that gives "Unknown" for one that is   *)
(* missing or of an older generation.                                      *)
(***************************************************************************)
EXTENDS Integers, Sequences, FiniteSetsExt

\* The kinds in the order in which they come true.
ExpectedKinds(p) ==
    IF p.diff THEN <<"RolloutStarted", "Overridden", "WorkSynchronized", "DiffReported">>
    ELSE <<"RolloutStarted", "Overridden", "WorkSynchronized", "Applied", "Available">>

\* Kinds are reported up to the first one that is not true; the conditions of
\* the others are removed.
Shown(kinds, status) ==
    {i \in DOMAIN kinds : \A j \in DOMAIN kinds : j < i => status[kinds[j]] = "True"}

Report(kinds, status) ==
    [k \in {kinds[i] : i \in Shown(kinds, status)} |-> status[k]]

KindsOf(kinds) == {kinds[i] : i \in DOMAIN kinds}

----------------------------------------------------------------------------
(* One cluster.                                                            *)

\* buildClusterToBindingMap: of the bindings of the latest policy that are not
\* being deleted, the last one in the list.
BindingsFor(p, bindings, c) ==
    {i \in DOMAIN bindings :
        ~bindings[i].deleting /\ bindings[i].policy = p.policy /\ bindings[i].cluster = c}

Only(kind, status) == [k \in {kind} |-> status]

\* setResourcePlacementStatusBasedOnBinding
FromBinding(p, b) == Report(ExpectedKinds(p), b.conditions)

\* setPerClusterPlacementStatus: a binding of older resources is not started,
\* whatever it reports about them, unless an external controller is in charge.
FromStrategy(p, b) ==
    IF p.external \/ b.snap = p.latest THEN FromBinding(p, b)
    ELSE IF b.conditions["RolloutStarted"] = "False" THEN Only("RolloutStarted", "False")
    ELSE Only("RolloutStarted", "Unknown")

PerCluster(p, bindings, c) ==
    LET own == BindingsFor(p, bindings, c)
    IN  IF own = {} THEN Only("RolloutStarted", "Unknown")
        ELSE FromStrategy(p, bindings[Max(own)])

\* findResourceSnapshotIndexForBindings, for the external strategy.
ObservedIndex(p, bindings, c) ==
    LET own == BindingsFor(p, bindings, c)
    IN  IF own = {} THEN 0 ELSE IF p.external THEN bindings[Max(own)].snap ELSE p.latest

----------------------------------------------------------------------------
(* The placement.                                                          *)

\* A status among the reports of the clusters.
Found(reports, k, s) == \E c \in DOMAIN reports : k \in DOMAIN reports[c] /\ reports[c][k] = s

Combined(reports, k) ==
    IF Found(reports, k, "Unknown") THEN "Unknown"
    ELSE IF Found(reports, k, "False") THEN "False"
    ELSE "True"

\* setPlacementConditions
Conditions(p, reports) ==
    LET kinds == ExpectedKinds(p)
    IN  Report(kinds, [k \in KindsOf(kinds) |-> Combined(reports, k)])

\* determineRolloutStateForPlacementWithExternalRolloutStrategy: the clusters
\* observe different resources, or none, or one of them is unknown.
Undetermined(reports, indices) ==
    \/ \E c, k \in DOMAIN indices : indices[c] # indices[k]
    \/ \E c \in DOMAIN indices : indices[c] = 0
    \/ Found(reports, "RolloutStarted", "Unknown")

\* calculateFailedToScheduleClusterCount; more clusters than wanted are an error.
FailedToSchedule(p) ==
    IF p.type = "PickAll" THEN 0
    ELSE Min({p.wanted - Cardinality(p.selected), Cardinality(p.unselected)})

NoReport == [k \in {} |-> "Unknown"]

\* setPlacementStatus: before the scheduler has seen the placement only the
\* statuses of the clusters are reset, the other conditions stay.
PlacementReport(p, bindings) ==
    LET reports == [c \in p.selected |-> PerCluster(p, bindings, c)]
        indices == [c \in p.selected |-> ObservedIndex(p, bindings, c)]
        common  == CHOOSE n \in {indices[c] : c \in p.selected} : TRUE
    IN  IF p.scheduled = "Unknown"
        THEN [scheduled |-> "Unknown", index |-> p.latest, conditions |-> p.reported,
              clusters |-> [c \in {} |-> NoReport], failed |-> 0]
        ELSE IF p.selected = {}
        THEN [scheduled |-> p.scheduled, index |-> p.latest, conditions |-> NoReport,
              clusters |-> reports, failed |-> FailedToSchedule(p)]
        ELSE IF p.external /\ Undetermined(reports, indices)
        THEN [scheduled |-> p.scheduled,
              index |-> IF \E c, k \in p.selected : indices[c] # indices[k] THEN 0 ELSE common,
              conditions |-> Only("RolloutStarted", "Unknown"),
              clusters |-> reports, failed |-> FailedToSchedule(p)]
        ELSE [scheduled |-> p.scheduled, index |-> IF p.external THEN common ELSE p.latest,
              conditions |-> Conditions(p, reports),
              clusters |-> reports, failed |-> FailedToSchedule(p)]

\* isRolloutCompleted
RolloutCompleted(p, report) ==
    /\ report.scheduled = "True"
    /\ \A k \in KindsOf(ExpectedKinds(p)) :
           k \in DOMAIN report.conditions /\ report.conditions[k] = "True"
============================================================================
