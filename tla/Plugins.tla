------------------------------ MODULE Plugins ------------------------------
(***************************************************************************)
(* The plugins of the scheduler's default profile: which clusters a        *)
(* scheduling cycle lets pass, and in which order it prefers them.  They   *)
(* are functions of the policy, of the fleet as listed at the start of the *)
(* cycle and of the clusters that have a binding of the policy.            *)
(*                                                                         *)
(* A fleet is a function from the names of the clusters, here numbers in   *)
(* the order of the names, to records:                                     *)
(*   labels      a function from label keys to values                      *)
(*   properties  a function from the names of the properties and resources *)
(*               the cluster reports to quantities                         *)
(*   texts       the properties whose value is not a quantity              *)
(*   taints      a set of taints                                           *)
(*   collected   whether the member agent collects namespaces              *)
(*   namespaces  the namespaces it has reported                            *)
(*   leaving, heartbeat, joined, healthy                                   *)
(*               the deletion mark and the reports of the member agent     *)
(***************************************************************************)
EXTENDS Integers, Sequences, FiniteSetsExt

\* The first element of a sequence with an answer other than the given one
\* decides; without such an element the answer stands.
Decide(seq, Answer(_), usual) ==
    LET odd == {i \in DOMAIN seq : Answer(seq[i]) # usual}
    IN  IF odd = {} THEN usual ELSE Answer(seq[Min(odd)])

----------------------------------------------------------------------------
(* The filters.                                                            *)

\* Isolated failures of the health check do not count: "flapping".
IsEligible(m) ==
    /\ ~m.leaving
    /\ m.heartbeat = "recent"
    /\ m.joined
    /\ m.healthy \in {"True", "flapping"}

CanTolerate(taint, t) ==
    /\ \/ t.operator = "Exists" /\ t.key \in {"", taint.key}
       \/ t.operator = "Equal" /\ t.key = taint.key /\ t.value = taint.value
    /\ t.effect \in {"", taint.effect}

TaintFilter(m, policy) ==
    \A taint \in m.taints : \E t \in policy.tolerations : CanTolerate(taint, t)

\* Only a placement of one namespace asks for it, and only of the clusters whose
\* agents collect namespaces.
NamespaceFilter(m, policy) ==
    policy.namespace # "" /\ m.collected => policy.namespace \in m.namespaces

SelectorMatches(selector, labels) ==
    \A k \in DOMAIN selector : k \in DOMAIN labels /\ labels[k] = selector[k]

Compare(q, operator, value) ==
    CASE operator = "Eq" -> q = value
      [] operator = "Ne" -> q # value
      [] operator = "Gt" -> q > value
      [] operator = "Ge" -> q >= value
      [] operator = "Lt" -> q < value
      [] operator = "Le" -> q <= value

\* retrievePropertyValueFrom, and one expression of a property selector.  A value
\* that is not a quantity is an error, and fails the cycle.
Satisfies(m, e) ==
    IF e.name \in m.texts THEN "error"
    ELSE IF e.name \notin DOMAIN m.properties THEN "no"
    ELSE IF Compare(m.properties[e.name], e.operator, e.value) THEN "yes" ELSE "no"

Matches(m, term) ==
    IF ~SelectorMatches(term.labels, m.labels)
    THEN "no"
    ELSE Decide(term.expressions, LAMBDA e : Satisfies(m, e), "yes")

\* The terms are alternatives; the first one that matches, or fails, decides.
AffinityFilter(m, policy) ==
    IF policy.required = <<>>
    THEN "yes"
    ELSE Decide(policy.required, LAMBDA term : Matches(m, term), "no")

----------------------------------------------------------------------------
(* Topology spread.  A counter maps each domain, a value of the topology   *)
(* key, to the number of its clusters that have a binding.                 *)

Domain(fleet, key, d) ==
    {c \in DOMAIN fleet : key \in DOMAIN fleet[c].labels /\ fleet[c].labels[key] = d}

CountByDomain(fleet, key, placed) ==
    LET keyed == {c \in DOMAIN fleet : key \in DOMAIN fleet[c].labels}
    IN  [d \in {fleet[c].labels[key] : c \in keyed} |->
            Cardinality(Domain(fleet, key, d) \cap placed)]

Counts(counter) == {counter[d] : d \in DOMAIN counter}

Smallest(counter) == Min(Counts(counter))

Largest(counter) == Max(Counts(counter))

\* The second of the sorted counts; the only one when there is one domain.
SecondSmallest(counter) ==
    LET low == {d \in DOMAIN counter : counter[d] = Smallest(counter)}
    IN  IF Cardinality(low) > 1 \/ low = DOMAIN counter
        THEN Smallest(counter)
        ELSE Min({counter[d] : d \in DOMAIN counter \ low})

Skew(counter) == Largest(counter) - Smallest(counter)

\* willViolate: the change of the skew when a domain gets one more binding.
SkewChange(counter, d) ==
    IF Largest(counter) = Smallest(counter) THEN 1
    ELSE IF counter[d] = Smallest(counter) /\ Smallest(counter) # SecondSmallest(counter)
    THEN -1
    ELSE IF counter[d] = Largest(counter) THEN 1
    ELSE 0

WillViolate(counter, d, maxSkew) == Skew(counter) + SkewChange(counter, d) > maxSkew

\* evaluateAllConstraints, for one constraint and one cluster.
Violates(fleet, placed, t, c) ==
    /\ t.key \in DOMAIN fleet[c].labels
    /\ WillViolate(CountByDomain(fleet, t.key, placed), fleet[c].labels[t.key], t.maxSkew)

SpreadFilter(fleet, policy, placed, c) ==
    \A i \in DOMAIN policy.spread :
        policy.spread[i].unsatisfiable = "DoNotSchedule" =>
            ~Violates(fleet, placed, policy.spread[i], c)

\* maxSkewViolationPenality
Penalty == 1000

ConstraintScore(fleet, placed, t, c) ==
    IF t.key \notin DOMAIN fleet[c].labels THEN 0
    ELSE IF Violates(fleet, placed, t, c) THEN -Penalty
    ELSE -SkewChange(CountByDomain(fleet, t.key, placed), fleet[c].labels[t.key])

TopologySpreadScore(fleet, policy, placed, c) ==
    MapThenSumSet(LAMBDA i : ConstraintScore(fleet, placed, policy.spread[i], c),
                  DOMAIN policy.spread)

----------------------------------------------------------------------------
(* Affinity scores.                                                        *)

\* preparePluginState: the values of a property observed across the fleet.
Observed(fleet, name) ==
    {fleet[c].properties[name] :
        c \in {k \in DOMAIN fleet : name \in DOMAIN fleet[k].properties}}

\* math.Round of a/b: to the nearest integer, halves away from zero.
RoundedQuotient(a, b) ==
    IF a >= 0 THEN (2 * a + b) \div (2 * b) ELSE -((b - 2 * a) \div (2 * b))

\* interpolateWeightFor, where every reported value is a quantity.
InterpolatedWeight(fleet, c, sorter, weight) ==
    LET seen == Observed(fleet, sorter.name)
        low  == Min(seen)
        high == Max(seen)
        q    == fleet[c].properties[sorter.name]
    IN  IF sorter.name \notin DOMAIN fleet[c].properties \/ low = high
        THEN 0
        ELSE RoundedQuotient(weight * (IF sorter.order = "Descending" THEN q - low ELSE high - q),
                             high - low)

\* Scores of one preferred term; without a sorter a match gives the whole weight.
PreferenceScore(fleet, c, term) ==
    IF ~SelectorMatches(term.labels, fleet[c].labels) THEN 0
    ELSE IF term.sorter.name = "" THEN term.weight
    ELSE InterpolatedWeight(fleet, c, term.sorter, term.weight)

AffinityScore(fleet, policy, c) ==
    MapThenSumSet(LAMBDA i : PreferenceScore(fleet, c, policy.preferred[i]),
                  DOMAIN policy.preferred)

----------------------------------------------------------------------------
(* The framework.                                                          *)

\* runFilterPlugins: placed are the clusters that have a binding of the policy;
\* the same-placement plugin leaves them out.
Passing(fleet, policy, placed) ==
    {c \in DOMAIN fleet \ placed :
        /\ AffinityFilter(fleet[c], policy) = "yes"
        /\ IsEligible(fleet[c])
        /\ NamespaceFilter(fleet[c], policy)
        /\ TaintFilter(fleet[c], policy)
        /\ SpreadFilter(fleet, policy, placed, c)}

\* The total score; obsolete are the clusters with a binding of an older policy.
ClusterScore(fleet, policy, placed, obsolete, c) ==
    [topology |-> TopologySpreadScore(fleet, policy, placed, c),
     affinity |-> AffinityScore(fleet, policy, c),
     obsolete |-> IF c \in obsolete THEN 1 ELSE 0]

ScoreLess(s, t) ==
    IF s.topology # t.topology THEN s.topology < t.topology
    ELSE IF s.affinity # t.affinity THEN s.affinity < t.affinity
    ELSE s.obsolete < t.obsolete

\* ScoredClusters.Less: ties are broken by the names.
RankedBelow(scores, c, k) ==
    IF scores[c] = scores[k] THEN c < k ELSE ScoreLess(scores[c], scores[k])

\* pickTopNScoredClusters sorts in reverse: of equal clusters the last name wins.
PickTopN(scores, n) ==
    {c \in DOMAIN scores :
        Cardinality({k \in DOMAIN scores : RankedBelow(scores, c, k)}) < n}

\* The clusters one PickN cycle picks: one at a time under spread constraints.
PickedByScore(fleet, policy, placed, obsolete, n) ==
    LET passing == Passing(fleet, policy, placed)
        batch   == IF policy.spread = <<>> THEN n ELSE Min({n, 1})
    IN  PickTopN([c \in passing |-> ClusterScore(fleet, policy, placed, obsolete, c)], batch)
============================================================================
