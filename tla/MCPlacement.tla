---------------------------- MODULE MCPlacement ----------------------------
(* Placement on small instances.                                           *)
EXTENDS Placement, TLC

CONSTANTS b1, b2, b3, c1, c2, c3

\* A binding is only a name: nothing orders or chooses bindings by it.
BindingSymmetry == Permutations(Binding)

Absolute(n) == [percent |-> FALSE, value |-> n]
One == Absolute(1)

Half == [percent |-> TRUE, value |-> 50]

\* Trouble of some kinds, and none of the others.
Trouble(edits, moves, errors, evictions, failures) ==
    [edits |-> edits, moves |-> moves, errors |-> errors, evictions |-> evictions, failures |-> failures]
SiblingBudgets == {Trouble(0, 1, 0, 0, 0), Trouble(0, 0, 0, 1, 0), Trouble(1, 0, 1, 0, 0)}
RolloutBudgets == {Trouble(1, 0, 0, 0, 0), Trouble(0, 0, 1, 0, 0), Trouble(0, 0, 0, 0, 1)}

NoCluster == {}
OneCluster == {c2}

\* A fleet of three clusters in two regions, the second with a taint and without
\* a report of its cost, the third with a value that is not a quantity.
Filters == INSTANCE Plugins
Name == <<c1, c2, c3>>
Joined(labels, properties, texts, taints) ==
    [labels |-> labels, properties |-> properties, texts |-> texts, taints |-> taints,
     collected |-> TRUE, namespaces |-> {"web"}, leaving |-> FALSE,
     heartbeat |-> "recent", joined |-> TRUE, healthy |-> "True"]
Gpu == [key |-> "gpu", value |-> "yes", effect |-> "NoSchedule"]
Fleet ==
    <<Joined([region |-> "east", tier |-> "prod"], [nodes |-> 3, cost |-> 7], {}, {}),
      Joined([region |-> "west"], [nodes |-> 5], {}, {Gpu}),
      Joined([region |-> "east"], [nodes |-> 1], {"cost"}, {})>>

\* A policy that asks for more nodes than some number, and one that spreads the
\* clusters over the regions.
TolerateGpu == [operator |-> "Exists", key |-> "gpu", value |-> "", effect |-> ""]
AtLeast(nodes) ==
    [namespace |-> "web", tolerations |-> {TolerateGpu}, preferred |-> <<>>, spread |-> <<>>,
     required |-> <<[labels |-> [tier |-> "prod"],
                     expressions |-> <<[name |-> "nodes", operator |-> "Ge", value |-> nodes]>>]>>]
Spreading(unsatisfiable, maxSkew) ==
    [namespace |-> "", tolerations |-> {TolerateGpu}, required |-> <<>>,
     preferred |-> <<[labels |-> <<>>, weight |-> 20,
                      sorter |-> [name |-> "nodes", order |-> "Ascending"]]>>,
     spread |-> <<[key |-> "region", maxSkew |-> maxSkew, unsatisfiable |-> unsatisfiable]>>]

\* One cluster that is picked, not picked and picked again.
FlipFlop == <<{c1}, {}, {c1}>>

\* A placement whose clusters never change.
Steady == [p \in 1..MaxPolicy |-> Cluster]

\* Both are what the default profile makes of the fleet: of a policy that asks for
\* two, four and three nodes, and of one that only scores.
ASSUME EligiblesAreFiltered ==
    LET Named(policy) == {Name[c] : c \in Filters!Passing(Fleet, policy, {})}
    IN  /\ FlipFlop = <<Named(AtLeast(2)), Named(AtLeast(4)), Named(AtLeast(3))>>
        /\ Cluster \subseteq Named(Spreading("ScheduleAnyway", 1))

\* The plugins against what they are for, on all small inputs: the forecast of the
\* skew is the skew after one more binding in the domain, wherever there are two
\* domains or more; a hard constraint, once met, stays met by whatever cluster
\* passes; the picked clusters are as many as asked for, or all, and none that is
\* left outranks them.
ASSUME ForecastIsExact ==
    \A k \in 2..4 : \A counter \in [1..k -> 0..3] : \A d \in 1..k :
        Filters!Skew([counter EXCEPT ![d] = @ + 1])
            = Filters!Skew(counter) + Filters!SkewChange(counter, d)

ASSUME SpreadStaysBounded ==
    \A placed \in SUBSET (1..3), maxSkew \in 1..2 :
        LET SkewOf(S) == Filters!Skew(Filters!CountByDomain(Fleet, "region", S))
        IN  SkewOf(placed) <= maxSkew =>
                \A c \in Filters!Passing(Fleet, Spreading("DoNotSchedule", maxSkew), placed) :
                    SkewOf(placed \cup {c}) <= maxSkew

ASSUME BestArePicked ==
    \A placed, obsolete \in SUBSET (1..3), n \in 0..3 :
        LET policy  == Spreading("ScheduleAnyway", 1)
            passing == Filters!Passing(Fleet, policy, placed)
            scores  == [c \in passing |-> Filters!ClusterScore(Fleet, policy, placed, obsolete, c)]
            picked  == Filters!PickedByScore(Fleet, policy, placed, obsolete, n)
        IN  /\ Cardinality(picked) = Min({n, 1, Cardinality(passing)})
            /\ \A c \in picked, k \in passing \ picked : Filters!RankedBelow(scores, k, c)

\* The eviction controller on all lists of up to three bindings: a healthy
\* binding is evicted exactly when the budget holds without it, and no eviction
\* of a healthy binding is possible where no number of bindings is promised.
Evictions == INSTANCE Eviction
EvictedFrom(c, placed, failed, available) ==
    [cluster |-> c, deleting |-> FALSE, placed |-> placed, failed |-> failed,
     diff |-> FALSE, available |-> available]
Disruption(limit, percent, value) == [limit |-> limit, percent |-> percent, value |-> value]
ASSUME BudgetIsKept ==
    \A k \in 0..2 : \A up \in [1..k + 1 -> BOOLEAN] :
    \A type \in {"PickAll", "PickN", "PickFixed"}, limit \in {"maxUnavailable", "minAvailable", ""},
       percent \in BOOLEAN, value \in {0, 1, 2, 40, 100} :
        LET placement == [phase |-> "active", type |-> type, number |-> k + 1]
            bindings  == [i \in 1..k + 1 |-> EvictedFrom(Name[i], TRUE, FALSE, up[i])]
            db        == Disruption(limit, percent, value)
            verdict   == Evictions!Verdict(placement, bindings, c1, db)
            promised  == Evictions!Share(db, k + 1)
            left      == Cardinality({i \in 1..k + 1 : up[i]}) - 1
        IN  verdict.deletes <=>
                \/ limit = "minAvailable" /\ left >= promised
                   /\ (type = "PickN" \/ (type = "PickAll" /\ ~percent))
                \/ limit = "maxUnavailable" /\ left + promised >= k + 1 /\ type = "PickN"

\* What the budget does not protect, and what is not an eviction at all.
ASSUME UnprotectedEvictions ==
    LET placement == [phase |-> "active", type |-> "PickN", number |-> 1]
        strict    == Disruption("minAvailable", FALSE, 1)
        Asked(p, b, db) == Evictions!Verdict(p, b, c1, db)
        up == EvictedFrom(c1, TRUE, FALSE, TRUE)
    IN  /\ Asked(placement, <<up>>, Evictions!NoBudget).deletes
        /\ Asked(placement, <<EvictedFrom(c1, TRUE, TRUE, FALSE)>>, strict).deletes
        /\ ~Asked(placement, <<EvictedFrom(c1, FALSE, TRUE, FALSE)>>, strict).executed
        /\ Asked(placement, <<[up EXCEPT !.deleting = TRUE]>>, strict).executed
        /\ \A bindings \in {<<>>, <<up, up>>} : ~Asked(placement, bindings, Evictions!NoBudget).valid
        /\ ~Asked([placement EXCEPT !.phase = "deleting"], <<up>>, Evictions!NoBudget).valid

\* What the webhooks let through, against what the controllers make of it.
Webhook == INSTANCE Admission
Asking(operator, value) == [name |-> "nodes", operator |-> operator, values |-> <<value>>]
Asked == {Asking(operator, value) : operator \in Webhook!Operators, value \in {0, 2, 4}}

\* The requirements of a property are accepted exactly when the scheduler can
\* find a value that meets them all, or when the only value two bounds leave is
\* one that must not be taken.
ASSUME RequirementsCanBeMet ==
    \A n \in 1..3 : \A rs \in [1..n -> Asked] :
        LET Meets(q, i) == Filters!Compare(q, rs[i].operator, rs[i].values[1])
            Met(D) == \E q \in -2..6 : \A i \in D : Meets(q, i)
            Of(operator) == {i \in 1..n : rs[i].operator = operator}
        IN  Webhook!Consistent(rs) <=>
                Met(1..n) \/ (Of("Eq") = {} /\ Met((1..n) \ Of("Ne")))

Policy(type, number, tolerations) ==
    [type |-> type, names |-> <<>>, number |-> number, affinity |-> <<>>, spread |-> <<>>,
     tolerations |-> tolerations]
Tolerating(value) == [key |-> "gpu", operator |-> "Equal", value |-> value]
Stored(policy, deleting) ==
    [name |-> "web", deleting |-> deleting, selectors |-> <<>>, policy |-> policy,
     strategy |-> [type |-> "", rolling |-> <<>>, apply |-> <<>>]]
Written ==
    {Stored(policy, deleting) : deleting \in BOOLEAN,
        policy \in {<<>>, <<Policy("PickFixed", <<>>, <<>>)>>}
            \cup {<<Policy(type, number, tolerations)>> :
                    type \in {"PickAll", "PickN"}, number \in {<<>>, <<-1>>, <<2>>},
                    tolerations \in {<<>>, <<Tolerating("a")>>,
                                    <<Tolerating("b"), Tolerating("a")>>}}}

\* A placement that is valid stays valid, keeps its type and loses no toleration,
\* whatever updates are let through.
ASSUME UpdatesKeepTheType ==
    LET Valid(p) == Webhook!validatePlacement(p, TRUE, TRUE)
    IN  /\ \A p \in Written : Webhook!Review("create", p, p, TRUE, TRUE, <<>>) = "allowed" <=> Valid(p)
        /\ \A p, q \in Written :
              Valid(p) /\ Webhook!Review("update", p, q, TRUE, TRUE, <<>>) = "allowed" =>
                  /\ Valid(q)
                  /\ Webhook!TypeOf(q) = Webhook!TypeOf(p)
                  /\ Webhook!Tolerations(p) \subseteq Webhook!Tolerations(q)

\* A budget that is let through beside its placement is not one the eviction
\* controller finds misconfigured, and an eviction it executes is let through.
ASSUME BudgetsAreConfigured ==
    \A type \in {"PickAll", "PickN", "PickFixed"}, phase \in {"active", "deleting"},
       limit \in {"maxUnavailable", "minAvailable", ""}, percent \in BOOLEAN :
        LET placement == [phase |-> phase, type |-> type, number |-> 1]
            db        == Disruption(limit, percent, 1)
            up        == EvictedFrom(c1, TRUE, FALSE, TRUE)
        IN  /\ Webhook!ValidBudget(db, <<placement>>) <=> ~Evictions!Misconfigured(placement, db)
            /\ Evictions!IsValid(placement, <<up>>, c1) <=> Webhook!ValidEviction(<<placement>>)
============================================================================
