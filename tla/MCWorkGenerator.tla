--------------------------- MODULE MCWorkGenerator ---------------------------
(***************************************************************************)
(* Two snapshots: the first has one sub-snapshot, the second has two.  The *)
(* manifests of the first Work are the same in both, and the overrides     *)
(* change, and fail on, only those of the second.                          *)
(***************************************************************************)
EXTENDS WorkGenerator

MCLayout == <<{0}, {0, 1}>>
MCEnvelopeIn == <<9, 9>>
MCContent == [n \in {0, 1} \X {"work", "envelope"} |->
                 IF n = <<0, "work">> THEN <<1, 1>> ELSE <<1, 2>>]
MCOverridden == {<<1, "work">>}
MCTargets == {<<1, 0, "ClientSideApply">>, <<2, 0, "ClientSideApply">>,
              <<2, 1, "ClientSideApply">>, <<1, 1, "ReportDiff">>}
MCBad == {<<1, 1>>}

----------------------------------------------------------------------------
\* A placement with a cluster role, a config map and an envelope around a secret
\* of another namespace and a service; overrides by namespace and by name, of the
\* cluster and of a namespace, with one that deletes and one that needs a label.
Rules == INSTANCE Overrides
Object(kind, namespace, name) ==
    [kind |-> kind, scope |-> IF namespace = "" THEN "Cluster" ELSE "Namespaced",
     namespace |-> namespace, name |-> name]
Role == Object("ClusterRole", "", "reader")
Map == Object("ConfigMap", "web", "settings")
Service == Object("Service", "web", "front")
Bundle ==
    [kind |-> "ResourceEnvelope", scope |-> "Namespaced", namespace |-> "web", name |-> "bundle",
     data |-> <<Service, Object("Secret", "other", "key")>>]
Delivered == {Role, Map, Service}

Rule(terms, deletes, patches, needs) ==
    [selector |-> <<terms>>, deletes |-> deletes, patches |-> patches, needs |-> needs]
Labelled(labels) == [labels |-> labels, invalid |-> FALSE]
Override(rank, namespace, placement, kind, name, rules) ==
    [rank |-> rank, namespace |-> namespace, placement |-> placement, latest |-> TRUE,
     selectors |-> {[kind |-> kind, name |-> name]}, rules |-> rules]
InEast == <<Labelled([region |-> "east"])>>
AllOverrides ==
    {Override(1, "", "", "Namespace", "web", <<Rule(<<>>, FALSE, <<"a">>, {})>>),
     Override(2, "", "mine", "ClusterRole", "reader",
              <<Rule(InEast, FALSE, <<"b">>, {}), Rule(<<>>, TRUE, <<>>, {})>>),
     Override(3, "web", "", "Service", "front",
              <<Rule(<<Labelled([region |-> "west"])>> \o InEast, FALSE, <<"c">>, {"region"})>>),
     Override(4, "web", "", "ConfigMap", "settings", <<Rule(InEast, TRUE, <<>>, {})>>),
     Override(5, "web", "", "ConfigMap", "settings", <<Rule(<<>>, FALSE, <<"d">>, {})>>),
     Override(6, "other", "", "Secret", "key", <<Rule(<<>>, TRUE, <<>>, {})>>)}

\* Nothing is lost between the two controllers: a manifest gets from the overrides
\* the rollout controller picks for its cluster what it would get from all of them;
\* and an override of an object has the last word over one of its namespace.
ASSUME PickIsComplete ==
    \A overrides \in SUBSET AllOverrides, labels \in {<<>>, [region |-> "east"], [region |-> "west"]} :
        LET matching == Rules!FetchMatching(overrides, "mine", {Role, Map, Bundle})
            picked   == Rules!Pick(labels, matching)
        IN  /\ ~Rules!PickFails(labels, matching)
            /\ \A r \in Delivered :
                  Rules!ApplyOverrides(r, labels, picked)
                      = Rules!ApplyOverrides(r, labels, Rules!InOrder(overrides))

ASSUME ResourceOverrideWins ==
    LET Given(r, labels) == Rules!ApplyOverrides(r, labels, Rules!InOrder(AllOverrides))
    IN  /\ Given(Service, [region |-> "east"]) = Rules!Present(<<"a", "c">>)
        /\ Given(Service, <<>>) = Rules!Present(<<"a">>)
        /\ Given(Map, [region |-> "east"]) = Rules!Deleted
        /\ Given(Map, <<>>) = Rules!Present(<<"a", "d">>)
        /\ Given(Role, [region |-> "west"]) = Rules!Deleted

\* One rule that cannot be read, or whose variables have no value, fails the whole.
ASSUME InvalidRulesFail ==
    LET broken == Override(7, "", "", "ClusterRole", "reader",
                           <<Rule(<<[labels |-> <<>>, invalid |-> TRUE]>>, FALSE, <<>>, {})>>)
        needy  == Override(7, "", "", "ClusterRole", "reader", <<Rule(<<>>, FALSE, <<"e">>, {"zone"})>>)
    IN  /\ Rules!PickFails(<<>>, AllOverrides \cup {broken})
        /\ \A o \in {broken, needy} :
              Rules!ApplyOverrides(Role, <<>>, Rules!InOrder(AllOverrides \cup {o})) = Rules!Failed

Webhook == INSTANCE Admission

\* No override that the webhook lets through can fail the choice of the overrides
\* of a cluster, which would hold up all the others.
ASSUME AdmittedOverridesMatch ==
    \A text \in {"", "bad", "prod"}, property \in BOOLEAN, type \in {"Delete", "JSONPatch"},
       path \in {<<>>, <<"spec", "x">>, <<"metadata">>, <<"metadata", "labels">>, <<"status">>} :
        LET patch == [path |-> path, operator |-> "add", value |-> TRUE]
            asked == [selector |-> <<<<[property |-> property, labels |-> text]>>>>, type |-> type,
                      patches |-> IF type = "Delete" THEN <<>> ELSE <<patch>>]
            rule  == [selector |-> <<<<[invalid |-> text = "bad", labels |-> [env |-> text]]>>>>,
                      deletes |-> type = "Delete", needs |-> {}, patches |-> <<1>>]
        IN  Webhook!ValidRule(asked) =>
                /\ \A labels \in [{"env"} -> {"prod", "test"}] : Rules!Matched(labels, rule) # "invalid"
                /\ type = "JSONPatch" => path[1] # "status"

\* However overrides are created and updated, no resource has two of one kind:
\* what is let through leaves the others' resources alone.
ASSUME OneOverridePerResource ==
    LET Named(name, selectors) ==
            [name |-> name, rules |-> <<>>,
             selectors |-> [i \in DOMAIN selectors |-> [name |-> selectors[i], labels |-> ""]]]
        Lists == {<<>>, <<"app">>, <<"web">>, <<"web", "app">>, <<"app", "app">>, <<"">>}
        Disjoint(list) == \A i, j \in DOMAIN list : i # j =>
                              Webhook!ToSet(list[i].selectors) \cap Webhook!ToSet(list[j].selectors) = {}
    IN  \A a, b, c \in Lists :
            LET before == <<Named("a", a), Named("b", b)>>
                Admitted(name) ==
                    Webhook!ReviewOverride("update", Named(name, c), before, TRUE)
            IN  /\ Disjoint(before) /\ Admitted("a") => Disjoint(<<Named("a", c), Named("b", b)>>)
                /\ Disjoint(before) /\ Admitted("c") => Disjoint(before \o <<Named("c", c)>>)
============================================================================
