---------------------------- MODULE MCPolicyV1 ----------------------------
(* Placement by annotation and the placement policy controller on a fleet   *)
(* of two clusters, of which one at first fits what the annotation asks for *)
(* twice; a cluster can be provisioned when one has left.                   *)
EXTENDS AnnotationV1

MCCluster == 1..2
Region == "topology.kubernetes.io/region"

MCProperty == [resource |-> {"available"}, other |-> {"nodes"}]

Term(labels, labelExprs, propExprs) == [labels |-> labels, labelExprs |-> labelExprs, propExprs |-> propExprs]

MCTerms == <<
    <<>>,
    <<Term({<<Region, 1>>}, <<>>, <<>>)>>,
    <<Term({}, <<[key |-> Region, op |-> "NotIn", values |-> {2}]>>,
               <<[key |-> "nodes", op |-> "Le", values |-> {1}]>>)>> >>

Sel(terms, form, n, claiming) ==
    [terms |-> terms, count |-> [form |-> form, n |-> n], minCount |-> -1, claim |-> claiming]

Number(n) == [key |-> "count", value |-> "number", n |-> n]
InRegion(n) == [key |-> "region", value |-> "text", n |-> n]

\* Two clusters of the region; one of them; a count that is no number.
MCAnnotations == << << <<InRegion(1), Number(2)>> >>,
                    << <<InRegion(1), Number(1)>> >>,
                    << <<InRegion(1), [Number(1) EXCEPT !.value = "all"]>> >> >>

MCUserSpecs == {
    [selectors |-> <<Sel(2, "number", 1, TRUE), Sel(3, "number", 2, TRUE)>>, tolerations |-> {}, strategy |-> 0],
    [selectors |-> <<Sel(2, "number", 0, TRUE)>>, tolerations |-> {}, strategy |-> 0]}

Profile(state, region, nodes, taints) ==
    [state |-> state, labels |-> (Region :> region), props |-> [nodes |-> nodes, available |-> 2 - nodes], taints |-> taints]

Tainted == {[key |-> "drain", value |-> "now", effect |-> "NoSchedule"]}

MCProfiles ==
    {Profile("up", 1, 1, {}), Profile("down", 1, 1, {}), Profile("up", 2, 2, {}), Profile("down", 2, 2, {}),
     Profile("up", 2, Malformed, Tainted), Profile("leaving", 1, 1, {}),
     Profile("absent", 1, 1, {})}

\* It moves to another region, is tainted and reports garbage, or it leaves.
MCChanges == {Profile("up", 2, Malformed, Tainted), Profile("leaving", 1, 1, {})}

MCNewProfile == <<Profile("down", 1, 1, {}), Profile("down", 1, 1, {}), Profile("down", 2, 2, {})>>

MCInitFleet == <<Profile("up", 1, 1, {}), Profile("up", 2, 2, {})>>
============================================================================
