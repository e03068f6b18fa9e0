----------------------------- MODULE Admission -----------------------------
(***************************************************************************)
(* What the validating webhooks of the hub let through.                    *)
(*                                                                         *)
(* An optional field is a sequence of at most one element.  A text is ""   *)
(* (left out), "bad" (not well formed) or any other value.  A placement is *)
(* a record with name, deleting, selectors, policy, strategy; the schema   *)
(* of the API has been checked before.  Errors are collected in the code,  *)
(* so that each check below stands for itself.                             *)
(***************************************************************************)
EXTENDS Integers, Sequences, SequencesExt

AllOf(list, Check(_)) == \A i \in DOMAIN list : Check(list[i])

\* validateLabelSelector; without one there is nothing to check.
ValidLabels(text) == text # "bad"

----------------------------------------------------------------------------
(* The requirements of one property.                                       *)

Operators == {"Eq", "Ne", "Gt", "Ge", "Lt", "Le"}

\* validateOperatorAndValues: a value is a quantity, or Text.
Text == -1000

WellFormed(r) ==
    /\ r.operator \in Operators
    /\ Len(r.values) = 1
    /\ r.values[1] # Text

NoBounds == [lower |-> <<>>, upper |-> <<>>, eq |-> <<>>, ne |-> {}, clash |-> FALSE]

\* isMoreRestrictiveLower and isMoreRestrictiveUpper: a strict bound is tighter.
TighterLower(a, b) == IF a.q # b.q THEN a.q > b.q ELSE a.strict /\ ~b.strict
TighterUpper(a, b) == IF a.q # b.q THEN a.q < b.q ELSE a.strict /\ ~b.strict

tightenLower(rb, b) ==
    IF rb.lower = <<>> \/ TighterLower(b, rb.lower[1]) THEN [rb EXCEPT !.lower = <<b>>] ELSE rb

tightenUpper(rb, b) ==
    IF rb.upper = <<>> \/ TighterUpper(b, rb.upper[1]) THEN [rb EXCEPT !.upper = <<b>>] ELSE rb

applyEq(rb, q) ==
    IF rb.eq # <<>> /\ rb.eq[1] # q THEN [rb EXCEPT !.clash = TRUE] ELSE [rb EXCEPT !.eq = <<q>>]

\* collectRequirementBounds; what is not well formed is left to the check above.
Collected(rs) ==
    LET Apply(rb, r) ==
            LET q == r.values[1]
                Bound(strict) == [q |-> q, strict |-> strict]
            IN  CASE ~WellFormed(r) \/ rb.clash -> rb
                  [] OTHER ->
                       CASE r.operator \in {"Gt", "Ge"} -> tightenLower(rb, Bound(r.operator = "Gt"))
                         [] r.operator \in {"Lt", "Le"} -> tightenUpper(rb, Bound(r.operator = "Lt"))
                         [] r.operator = "Eq" -> applyEq(rb, q)
                         [] r.operator = "Ne" -> [rb EXCEPT !.ne = @ \cup {q}]
    IN  FoldLeft(Apply, NoBounds, rs)

checkEqVsNe(rb) == AllOf(rb.eq, LAMBDA q : q \notin rb.ne)

\* Whether q is above a lower bound, or below an upper one.
Above(q, b) == IF b.strict THEN q > b.q ELSE q >= b.q
Below(q, b) == IF b.strict THEN q < b.q ELSE q <= b.q

checkInterval(rb) ==
    AllOf(rb.lower, LAMBDA l : AllOf(rb.upper, LAMBDA u :
        l.q < u.q \/ (l.q = u.q /\ ~l.strict /\ ~u.strict)))

checkEqInsideBounds(rb) ==
    AllOf(rb.eq, LAMBDA q :
        /\ AllOf(rb.lower, LAMBDA b : Above(q, b))
        /\ AllOf(rb.upper, LAMBDA b : Below(q, b)))

\* validateRequirementsConsistency
Consistent(rs) ==
    \/ Len(rs) < 2
    \/ LET rb == Collected(rs)
       IN  /\ ~rb.clash
           /\ checkEqVsNe(rb)
           /\ checkInterval(rb)
           /\ checkEqInsideBounds(rb)

\* validatePropertySelectorRequirements
ValidRequirements(rs) ==
    /\ AllOf(rs, LAMBDA r : r.name # "bad" /\ WellFormed(r))
    /\ \A i \in DOMAIN rs : Consistent(SelectSeq(rs, LAMBDA r : r.name = rs[i].name))

----------------------------------------------------------------------------
(* The policy and the strategy of a placement.                             *)

ValidSorter(s) == s.name # "bad" /\ s.order \in {"Ascending", "Descending"}

\* validateClusterSelector, for one term.
ValidRequired(term) ==
    /\ ValidLabels(term.labels)
    /\ term.sorter = <<>>
    /\ AllOf(term.selector, ValidRequirements)

\* validatePreferredClusterSelectors, for one preference.
ValidPreferred(term) ==
    /\ ValidLabels(term.labels)
    /\ term.selector = <<>>
    /\ AllOf(term.sorter, ValidSorter)

validateTolerations(tolerations) ==
    /\ IsInjective(tolerations)
    /\ AllOf(tolerations, LAMBDA t :
          /\ t.key # "bad"
          /\ t.operator = "Exists" => t.value = ""
          /\ t.operator = "Equal" => t.key # "" /\ t.value # "bad")

ValidSpread(when) == when \in {"", "DoNotSchedule", "ScheduleAnyway"}

validatePolicyForPickFixed(p) ==
    /\ IsInjective(p.names)
    /\ AllOf(p.names, LAMBDA n : n # "bad")
    /\ p.number = <<>> /\ p.affinity = <<>> /\ p.spread = <<>> /\ p.tolerations = <<>>

validatePolicyForPickAll(p) ==
    /\ p.names = <<>> /\ p.number = <<>> /\ p.spread = <<>>
    /\ AllOf(p.affinity, LAMBDA a : AllOf(a.required, ValidRequired) /\ a.preferred = <<>>)
    /\ validateTolerations(p.tolerations)

validatePolicyForPickN(p) ==
    /\ p.names = <<>>
    /\ p.number # <<>> /\ AllOf(p.number, LAMBDA n : n >= 0)
    /\ AllOf(p.affinity, LAMBDA a : AllOf(a.required, ValidRequired) /\ AllOf(a.preferred, ValidPreferred))
    /\ AllOf(p.spread, ValidSpread)
    /\ validateTolerations(p.tolerations)

validatePlacementPolicy(p) ==
    CASE p.type = "PickFixed" -> validatePolicyForPickFixed(p)
      [] p.type = "PickAll" -> validatePolicyForPickAll(p)
      [] p.type = "PickN" -> validatePolicyForPickN(p)

\* A number of clusters or a percentage, here of ten clusters and rounded up.
ValidAmount(a) == ~a.malformed /\ (IF a.percent THEN (a.value * 10 + 99) \div 100 ELSE a.value) >= 0

validateRolloutStrategy(s) ==
    /\ s.type \in {"", "RollingUpdate", "External"}
    /\ AllOf(s.rolling, LAMBDA r :
          /\ s.type # "External"
          /\ AllOf(r.period, LAMBDA seconds : seconds >= 0)
          /\ AllOf(r.maxUnavailable, ValidAmount)
          /\ AllOf(r.maxSurge, ValidAmount))
    /\ AllOf(s.apply, LAMBDA a : a.serverSide => a.type = "ServerSideApply")

----------------------------------------------------------------------------
(* Placements: cluster tells a ClusterResourcePlacement from a             *)
(* ResourcePlacement; informed is whether the informers are there.  A      *)
(* selector knows whether its type is mapped and cluster scoped.           *)

hasNamespaceWithResourceSelectorsMode(selectors) ==
    \E i \in DOMAIN selectors :
        selectors[i].namespace /\ selectors[i].scope = "NamespaceWithResourceSelectors"

validatePlacement(p, cluster, informed) ==
    /\ p.name # "bad"
    /\ AllOf(p.selectors, LAMBDA s :
          /\ s.labels # "" => s.name = "" /\ ValidLabels(s.labels)
          /\ s.mapped
          /\ informed
          /\ IF cluster
             THEN s.clusterScoped \/ hasNamespaceWithResourceSelectorsMode(p.selectors)
             ELSE ~s.clusterScoped)
    /\ AllOf(p.policy, validatePlacementPolicy)
    /\ validateRolloutStrategy(p.strategy)

\* IsPlacementPolicyTypeUpdated: without a policy, all clusters are picked.
TypeOf(p) == IF p.policy = <<>> THEN "PickAll" ELSE p.policy[1].type

Tolerations(p) == IF p.policy = <<>> THEN {} ELSE ToSet(p.policy[1].tolerations)

Spec(p) == <<p.selectors, p.policy, p.strategy>>

\* The outcome of the authorization of the selected objects.  One that does not
\* fit together is an error.
Answer(result) ==
    CASE result.decision = "allowed" /\ ~result.failed /\ ~result.reason -> "allowed"
      [] result.decision = "denied" /\ result.reason -> "denied"
      [] OTHER -> "error"

\* HandlePlacementValidation; authorizer is the outcome, if there is one.
Review(operation, old, new, cluster, informed, authorizer) ==
    LET Valid(p) == validatePlacement(p, cluster, informed)
    IN  IF operation \notin {"create", "update"} THEN "allowed"
        ELSE IF operation = "update" /\ ~Valid(old)
        THEN IF new.deleting THEN "allowed" ELSE "denied"
        ELSE IF \/ operation = "update" /\ TypeOf(new) # TypeOf(old)
                \/ operation = "update" /\ ~(Tolerations(old) \subseteq Tolerations(new))
                \/ ~Valid(new)
        THEN "denied"
        ELSE IF authorizer = <<>> \/ (operation = "update" /\ Spec(old) = Spec(new)) THEN "allowed"
        ELSE Answer(authorizer[1])

----------------------------------------------------------------------------
(* Overrides, disruption budgets, evictions and taints.                    *)

\* validateJSONPatchOverridePath: the parts between the slashes.
ValidPath(parts) ==
    /\ parts # <<>>
    /\ parts[1] \notin {"kind", "apiVersion", "status"}
    /\ parts[1] = "metadata" => Len(parts) > 1 /\ parts[2] \in {"annotations", "labels"}
    /\ AllOf(parts, LAMBDA part : part # "")

validateJSONPatchOverride(patches) ==
    /\ patches # <<>>
    /\ AllOf(patches, LAMBDA p : ValidPath(p.path) /\ (p.operator = "remove" => ~p.value))

\* validateOverridePolicy, for one rule.  A term without labels is refused.
ValidRule(rule) ==
    /\ AllOf(rule.selector, LAMBDA terms : AllOf(terms, LAMBDA t :
          ~t.property /\ t.labels \notin {"", "bad"}))
    /\ rule.type = "Delete" => rule.patches = <<>>
    /\ rule.type = "JSONPatch" => validateJSONPatchOverride(rule.patches)

\* The last override of the list that selects the same resource.
Holder(o, others, s) ==
    LET holding == {i \in DOMAIN others : s \in ToSet(others[i].selectors)}
    IN  IF holding = {} THEN o.name ELSE others[Max(holding)].name

ValidateResourceOverride(o, others) ==
    /\ IsInjective(o.selectors)
    /\ \A s \in ToSet(o.selectors) : Holder(o, others, s) = o.name
    /\ AllOf(o.rules, ValidRule)

\* A ClusterResourceOverride also has to select by name.
ValidateClusterResourceOverride(o, others) ==
    /\ AllOf(o.selectors, LAMBDA s : s.labels = "" /\ s.name # "")
    /\ ValidateResourceOverride(o, others)

MaxOverrides == 100

\* The webhooks of the two kinds of overrides.
ReviewOverride(operation, o, others, cluster) ==
    /\ operation = "create" => Len(others) < MaxOverrides
    /\ IF cluster THEN ValidateClusterResourceOverride(o, others) ELSE ValidateResourceOverride(o, others)

\* A placement that is not there is not a reason to refuse either.
ValidBudget(db, placement) ==
    AllOf(placement, LAMBDA p :
        p.type = "PickAll" =>
            db.limit # "maxUnavailable" /\ ~(db.limit = "minAvailable" /\ db.percent))

ValidEviction(placement) ==
    AllOf(placement, LAMBDA p : p.phase # "deleting" /\ p.type # "PickFixed")

validateTaints(taints) ==
    /\ IsInjective(taints)
    /\ AllOf(taints, LAMBDA t : t.key \notin {"", "bad"} /\ t.value # "bad")
============================================================================
