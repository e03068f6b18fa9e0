---------------------------- MODULE SelectionV1 ----------------------------
(* How a placement policy of the v1 stack chooses its clusters: the cluster *)
(* selectors, the eligibility of the clusters, the ranking of the           *)
(* candidates and the sticky choice (pkg/v1/controllers/placementpolicy).   *)
(* Everything here is a function of what one reconciliation has read.       *)
EXTENDS Integers, Sequences, FiniteSets, FiniteSetsExt, SequencesExt

CONSTANTS
    Cluster,        \* the names of the member clusters, numbers, in the order of the names
    Terms,          \* the lists of selector terms in use, by number
    Property        \* the cluster properties, [resource |-> the resource properties, other |-> the rest]

\* A property is reported as a number, as something that is no quantity, or
\* not at all.
Unreported == -1
Malformed == -2

Ops == [text |-> {"In", "NotIn", "Exists", "DoesNotExist"},
        number |-> {"Gt", "Lt", "Ge", "Le", "Eq", "Ne"}]

MaxClusterCount == 999

----------------------------------------------------------------------------
(* The contents of a selector *)

\* The count of a selector, [form, n], and its minCount (-1 when unset).
InvalidCount(sel) ==
    \/ sel.count.form = "junk"
    \/ sel.count.form = "number" /\ sel.count.n \notin 1..MaxClusterCount

resolveCounts(sel) ==
    LET all == sel.count.form = "All"
        n == IF sel.count.form = "number" THEN sel.count.n ELSE 1
    IN  [selectAll |-> all,
         desired |-> IF all THEN 0 ELSE n,
         minimum |-> IF sel.minCount # -1 THEN sel.minCount ELSE n]

validLabelExpression(e) == e.op \in Ops.text

validatePropertyKey(key) == key \in Property.resource \cup Property.other

validPropertyExpression(e) ==
    /\ validatePropertyKey(e.key)
    /\ e.op \in {"In", "NotIn"} => e.key \notin Property.resource
    /\ e.op \in Ops.number => Cardinality(e.values) = 1 /\ Malformed \notin e.values
    /\ e.op \in Ops.text \cup Ops.number

\* matchLabels is a set of key-value pairs, of which an invalid one has the
\* value Malformed.
validateTerms(terms) ==
    \A i \in 1..Len(terms) :
        /\ \A pair \in terms[i].labels : pair[2] # Malformed
        /\ \A j \in 1..Len(terms[i].labelExprs) : validLabelExpression(terms[i].labelExprs[j])
        /\ \A j \in 1..Len(terms[i].propExprs) : validPropertyExpression(terms[i].propExprs[j])

\* Selector evaluation fails as a whole on invalid contents.
InvalidSelectors(selectors) ==
    \E i \in 1..Len(selectors) : InvalidCount(selectors[i]) \/ ~validateTerms(Terms[selectors[i].terms])

----------------------------------------------------------------------------
(* Matching a cluster against terms: "yes", "no" or "error" *)

YesNo(b) == IF b THEN "yes" ELSE "no"

TextMatch(found, value, e) ==
    CASE e.op = "Exists" -> found
      [] e.op = "DoesNotExist" -> ~found
      [] e.op = "In" -> found /\ value \in e.values
      [] e.op = "NotIn" -> ~found \/ value \notin e.values

labelExpressionMatch(cluster, e) ==
    YesNo(TextMatch(cluster.labels[e.key] # Unreported, cluster.labels[e.key], e))

stringPropertyMatches(cluster, e) ==
    YesNo(TextMatch(cluster.props[e.key] # Unreported, cluster.props[e.key], e))

NumberMatch(observed, op, expected) ==
    CASE op = "Gt" -> observed > expected
      [] op = "Lt" -> observed < expected
      [] op = "Ge" -> observed >= expected
      [] op = "Le" -> observed <= expected
      [] op = "Eq" -> observed = expected
      [] op = "Ne" -> observed # expected

numericPropertyMatches(cluster, e) ==
    LET observed == cluster.props[e.key]
    IN  CASE observed = Malformed -> "error"
          [] observed = Unreported -> "no"
          [] OTHER -> YesNo(NumberMatch(observed, e.op, CHOOSE v \in e.values : TRUE))

propertyExpressionMatches(cluster, e) ==
    IF e.op \in Ops.text THEN stringPropertyMatches(cluster, e) ELSE numericPropertyMatches(cluster, e)

\* The requirements of a term are checked in order, up to the first that is
\* not met or cannot be evaluated.
FirstNo(results) ==
    IF \A i \in 1..Len(results) : results[i] = "yes" THEN "yes"
    ELSE SelectSeq(results, LAMBDA r : r # "yes")[1]

matchesTerm(cluster, term) ==
    IF \E pair \in term.labels : cluster.labels[pair[1]] # pair[2] THEN "no"
    ELSE FirstNo([j \in 1..Len(term.labelExprs) |-> labelExpressionMatch(cluster, term.labelExprs[j])]
                 \o [j \in 1..Len(term.propExprs) |-> propertyExpressionMatches(cluster, term.propExprs[j])])

\* A term that cannot be evaluated does not veto the others.
matchesTerms(cluster, terms) ==
    LET results == {matchesTerm(cluster, terms[i]) : i \in 1..Len(terms)}
    IN  IF terms = <<>> \/ "yes" \in results THEN "yes"
        ELSE IF "error" \in results THEN "error" ELSE "no"

----------------------------------------------------------------------------
(* Which clusters can be scheduled to *)

\* A cluster is listed as long as its MemberCluster object exists; "up" is
\* one whose agent has joined, reports and has not been unhealthy for long.
IsListed(cluster) == cluster.state # "absent"
IsEligible(cluster) == cluster.state = "up"
IsLeaving(cluster) == cluster.state = "leaving"

tolerationTolerates(taint, toleration) ==
    /\ toleration.effect \in {"any", taint.effect}
    /\ IF toleration.key = "any" THEN toleration.op = "Exists"
       ELSE /\ toleration.key = taint.key
            /\ toleration.op = "Exists" \/ (toleration.op = "Equal" /\ toleration.value = taint.value)

taintsTolerated(taints, tolerations) ==
    \A taint \in taints : \E toleration \in tolerations : tolerationTolerates(taint, toleration)

Schedulable(fleet, spec) ==
    {c \in Cluster : IsEligible(fleet[c]) /\ taintsTolerated(fleet[c].taints, spec.tolerations)}

\* The clusters a binding may stick to while they are out of the running.
Unschedulable(fleet, spec) ==
    {c \in Cluster \ Schedulable(fleet, spec) : IsListed(fleet[c]) /\ ~IsLeaving(fleet[c])}

----------------------------------------------------------------------------
(* evaluateSelectors *)

\* A policy without selectors takes every cluster there is.
EffectiveSelectors(spec) ==
    IF spec.selectors # <<>> THEN spec.selectors
    ELSE <<[terms |-> 1, count |-> [form |-> "All", n |-> 0], minCount |-> -1, claim |-> TRUE]>>

matchingClusterNames(fleet, names, terms, result) ==
    {c \in names : matchesTerms(fleet[c], Terms[terms]) = result}

\* Mutant: a cluster is selected only as long as it matches.
selectedBeforeNone(names, terms, recorded, accountedFor) == {}

\* The clusters that stay selected because their binding records the terms.
selectedBefore(names, terms, recorded, accountedFor) ==
    {c \in names \ accountedFor : terms \in recorded[c]}

\* recorded[c] is the set of the terms that the binding of c was made for.
OutcomeOf(fleet, spec, sel, recorded) ==
    LET yes(names) == matchingClusterNames(fleet, names, sel.terms, "yes")
        unevaluable(names) == matchingClusterNames(fleet, names, sel.terms, "error")
        stale(names) == selectedBefore(names, sel.terms, recorded, yes(names) \cup unevaluable(names))
        in == Schedulable(fleet, spec)
        out == Unschedulable(fleet, spec)
    IN  [counts |-> resolveCounts(sel),
         matched |-> yes(in) \cup stale(in),
         sticky |-> yes(out) \cup unevaluable(in) \cup unevaluable(out) \cup stale(out),
         stale |-> stale(in) \cup stale(out),
         terms |-> sel.terms,
         claim |-> sel.claim]

evaluateSelectors(fleet, spec, recorded) ==
    FoldLeft(LAMBDA outcomes, sel : Append(outcomes, OutcomeOf(fleet, spec, sel, recorded)),
             <<>>, EffectiveSelectors(spec))

fulfilled(o) == Cardinality(o.matched) >= o.counts.minimum

satisfiedInFull(o) ==
    IF o.counts.selectAll THEN fulfilled(o) ELSE Cardinality(o.matched) >= o.counts.desired

----------------------------------------------------------------------------
(* Ranking the candidates of a selector *)

\* The criteria, in the order of the code: fewer nodes, more available
\* resources (one resource stands for CPU and memory).
RankingCriteria == <<[property |-> "nodes", preferHigher |-> FALSE],
                     [property |-> "available", preferHigher |-> TRUE]>>

\* The score of a cluster on one criterion as a fraction: the numerator over
\* the spread of the values reported by the candidates.
Reported(fleet, names, k) == {c \in names : fleet[c].props[RankingCriteria[k].property] >= 0}
Values(fleet, names, k) == {fleet[c].props[RankingCriteria[k].property] : c \in Reported(fleet, names, k)}
Spread(fleet, names, k) ==
    LET values == Values(fleet, names, k)
    IN  IF values = {} THEN 0 ELSE Max(values) - Min(values)

scoreCriterion(fleet, names, k, c) ==
    LET values == Values(fleet, names, k)
        value == fleet[c].props[RankingCriteria[k].property]
    IN  CASE Spread(fleet, names, k) = 0 \/ c \notin Reported(fleet, names, k) -> 0
          [] RankingCriteria[k].preferHigher -> 100 * (value - Min(values))
          [] OTHER -> 100 * (Max(values) - value)

\* The sum of the fractions, over a common denominator that is the same for
\* all candidates.
Total(fleet, names, c) ==
    LET spread(k) == IF Spread(fleet, names, k) = 0 THEN 1 ELSE Spread(fleet, names, k)
    IN  scoreCriterion(fleet, names, 1, c) * spread(2) + scoreCriterion(fleet, names, 2, c) * spread(1)

RankedBefore(fleet, names, a, b) ==
    \/ Total(fleet, names, a) > Total(fleet, names, b)
    \/ Total(fleet, names, a) = Total(fleet, names, b) /\ a < b

\* The n best of a set under an order.
FirstN(names, n, Before(_, _)) ==
    {c \in names : Cardinality({d \in names : Before(d, c)}) < n}

rankClusters(fleet, names, n) == FirstN(names, n, LAMBDA a, b : RankedBefore(fleet, names, a, b))

----------------------------------------------------------------------------
(* chooseClusters *)

\* age[c] is the place of c's binding in the order of their creation, 0 when
\* c is not bound: an older binding comes first, a cluster picked earlier in
\* this round comes last.
Senior(age, a, b) ==
    CASE age[a] # 0 /\ age[b] # 0 -> age[a] < age[b] \/ (age[a] = age[b] /\ a < b)
      [] age[a] = 0 /\ age[b] = 0 -> a < b
      [] OTHER -> age[a] # 0

KeptBefore(o, age, a, b) ==
    IF (a \in o.stale) # (b \in o.stale) THEN a \notin o.stale ELSE Senior(age, a, b)

\* What selector i adds to the choice so far, a set of pairs of a selector
\* and a cluster.
ChooseForSelector(choice, i, outcomes, age, fleet) ==
    LET o == outcomes[i]
        limit == IF o.counts.selectAll THEN Cardinality(Cluster) ELSE o.counts.desired
        kept == {c \in o.matched \cup o.sticky : age[c] # 0 \/ \E pair \in choice : pair[2] = c}
        held == FirstN(kept \cap o.matched, limit, LAMBDA a, b : KeptBefore(o, age, a, b))
        picked == rankClusters(fleet, o.matched \ held, limit - Cardinality(held))
    IN  choice \cup ({i} \X ((kept \ o.matched) \cup held \cup picked))

chooseClusters(outcomes, age, fleet) ==
    FoldLeft(LAMBDA choice, i : ChooseForSelector(choice, i, outcomes, age, fleet),
             {}, [i \in 1..Len(outcomes) |-> i])

\* What a binding of the cluster records.
SelectorsFor(outcomes, choice, c) == {outcomes[pair[1]].terms : pair \in {x \in choice : x[2] = c}}

----------------------------------------------------------------------------
(* What the policy reports *)

scheduledCondition(outcomes) ==
    IF \A i \in 1..Len(outcomes) : satisfiedInFull(outcomes[i]) THEN "FoundAll" ELSE "FailedToFindSome"

Chosen(outcomes, choice, i) == {c \in outcomes[i].matched : <<i, c>> \in choice}

aggregateCounts(outcomes, choice) ==
    LET wanted(o) == IF o.counts.selectAll
                     THEN Max({Cardinality(o.matched), o.counts.minimum}) ELSE o.counts.desired
    IN  [desired |-> MapThenSumSet(LAMBDA i : wanted(outcomes[i]), 1..Len(outcomes)),
         scheduled |-> MapThenSumSet(LAMBDA i : Cardinality(Chosen(outcomes, choice, i)), 1..Len(outcomes))]
============================================================================
