----------------------------- MODULE Overrides ------------------------------
(***************************************************************************)
(* Overrides: which of them matter to the resources of a placement and to  *)
(* a cluster (the rollout controller writes them into the binding), and    *)
(* what they make of a manifest (the work generator applies them).         *)
(*                                                                         *)
(* A resource has kind, scope ("Cluster" or "Namespaced"), namespace and   *)
(* name; an envelope also has data, the sequence of what it wraps.  An     *)
(* override has namespace ("" for a ClusterResourceOverride), rank (its    *)
(* place in the order of namespaces and names), latest, placement ("" for  *)
(* any), selectors and rules.  A rule has selector, at most one sequence   *)
(* of terms (none of them for every cluster), deletes, patches and needs,  *)
(* the labels its patches refer to.  A term has the labels it requires and *)
(* invalid, for a selector that cannot be parsed.                          *)
(***************************************************************************)
EXTENDS Integers, Sequences, SequencesExt, FiniteSetsExt

Identifier(kind, namespace, name) == [kind |-> kind, namespace |-> namespace, name |-> name]

\* namespaceCROCandidate: a namespace selects everything in it.
OfNamespace(namespace) == Identifier("Namespace", "", namespace)

\* clusterScopedCROCandidate, namespacedROCandidate
OfResource(r) == Identifier(r.kind, r.namespace, r.name)

IsClusterScoped(r) == r.scope = "Cluster"

\* The ClusterResourceOverrides for a manifest are those of its namespace.
ClusterKey(r) == IF IsClusterScoped(r) THEN OfResource(r) ELSE OfNamespace(r.namespace)

----------------------------------------------------------------------------
(* FetchAllMatchingOverridesForResourceSnapshot                            *)

\* What an envelope wraps by mistake is skipped: generating its Work fails.
Wrapped(envelope) ==
    {r \in Range(envelope.data) :
        /\ IsClusterScoped(r) <=> envelope.kind = "ClusterResourceEnvelope"
        /\ ~IsClusterScoped(r) => r.namespace = envelope.namespace}

ClusterCandidates(r) ==
    CASE r.kind = "ClusterResourceEnvelope" -> {OfResource(w) : w \in Wrapped(r)}
      [] r.kind = "ResourceEnvelope"        -> {OfNamespace(r.namespace)}
      [] OTHER                              -> {ClusterKey(r)}

NamespacedCandidates(r) ==
    CASE r.kind = "ClusterResourceEnvelope" -> {}
      [] r.kind = "ResourceEnvelope"        -> {OfResource(w) : w \in Wrapped(r)}
      [] OTHER -> IF IsClusterScoped(r) THEN {} ELSE {OfResource(r)}

IsClusterOverride(o) == o.namespace = ""

\* A selector names a resource, of the namespace of a ResourceOverride.
Keys(o) == {Identifier(s.kind, o.namespace, s.name) : s \in o.selectors}

Candidates(o, resources) ==
    UNION {IF IsClusterOverride(o) THEN ClusterCandidates(r) ELSE NamespacedCandidates(r)
             : r \in resources}

FetchMatching(overrides, placement, resources) ==
    {o \in overrides :
        /\ o.latest
        /\ o.placement \in {"", placement}
        /\ Keys(o) \cap Candidates(o, resources) # {}}

----------------------------------------------------------------------------
(* PickFromResourceMatchedOverridesForTargetCluster                        *)

Requires(labels, term) ==
    \A k \in DOMAIN term.labels : k \in DOMAIN labels /\ labels[k] = term.labels[k]

\* IsClusterMatched: the terms are tried in order.
Matched(labels, rule) ==
    LET terms   == rule.selector[1]
        decides == {i \in DOMAIN terms : terms[i].invalid \/ Requires(labels, terms[i])}
    IN  IF rule.selector = <<>> THEN "no"
        ELSE IF terms = <<>> THEN "yes"
        ELSE IF decides = {} THEN "no"
        ELSE IF terms[Min(decides)].invalid THEN "invalid" ELSE "yes"

\* isClusterMatched: so are the rules.
Selected(labels, o) ==
    LET decides == {i \in DOMAIN o.rules : Matched(labels, o.rules[i]) # "no"}
    IN  IF decides = {} THEN "no" ELSE Matched(labels, o.rules[Min(decides)])

\* No cluster is served with some of the overrides when one is invalid.
PickFails(labels, matching) == \E o \in matching : Selected(labels, o) = "invalid"

InOrder(overrides) == SetToSortSeq(overrides, LAMBDA a, b : a.rank < b.rank)

Pick(labels, matching) == InOrder({o \in matching : Selected(labels, o) = "yes"})

----------------------------------------------------------------------------
(* applyOverrides.  The content of a manifest is the sequence of patches   *)
(* that have been applied to it.                                           *)

Deleted == [state |-> "deleted", patches |-> <<>>]
Failed == [state |-> "failed", patches |-> <<>>]
Present(patches) == [state |-> "present", patches |-> patches]

\* applyJSONPatchOverride: every variable must have a value.  A patch leaves an
\* empty document empty.
Patched(content, labels, rule) ==
    IF ~(rule.needs \subseteq DOMAIN labels) THEN Failed
    ELSE IF content.state = "deleted" THEN content
    ELSE Present(content.patches \o rule.patches)

\* applyOverrideRules: the rules that match, up to one that deletes.
ApplyRules(content, labels, rules) ==
    LET Apply(acc, rule) ==
            LET matched == Matched(labels, rule)
            IN  IF acc.stop \/ matched = "no" THEN acc
                ELSE IF matched = "invalid" THEN [stop |-> TRUE, content |-> Failed]
                ELSE IF rule.deletes THEN [stop |-> TRUE, content |-> Deleted]
                ELSE LET next == Patched(acc.content, labels, rule)
                     IN  [stop |-> next = Failed, content |-> next]
    IN  FoldLeft(Apply, [stop |-> FALSE, content |-> content], rules).content

\* The overrides of the cluster scope come first, in the order of the binding:
\* ResourceOverrides win.
ApplyOverrides(r, labels, picked) ==
    LET Of(key, scope(_)) ==
            SelectSeq(picked, LAMBDA o : scope(o) /\ key \in Keys(o))
        NotClusterOverride(o) == ~IsClusterOverride(o)
        Apply(content, o) == IF content = Failed THEN Failed
                             ELSE ApplyRules(content, labels, o.rules)
        namespaced == IF IsClusterScoped(r) THEN <<>> ELSE Of(OfResource(r), NotClusterOverride)
    IN  FoldLeft(Apply, Present(<<>>), Of(ClusterKey(r), IsClusterOverride) \o namespaced)
============================================================================
