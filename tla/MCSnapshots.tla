---------------------------- MODULE MCSnapshots ----------------------------
(* Small instances of the placement controller. *)
EXTENDS Snapshots

\* The reported status against the bindings it is computed from: two clusters, and
\* for each a binding that is current, of older resources or being deleted, with
\* some of the conditions true, then another status, then true ones again.
Status == INSTANCE StatusReport
Kinds == <<"RolloutStarted", "Overridden", "WorkSynchronized", "Applied", "Available", "DiffReported">>
Broken(at, status) ==
    [k \in Status!KindsOf(Kinds) |-> IF at \in DOMAIN Kinds /\ Kinds[at] = k THEN status ELSE "True"]
SomeBindings(c) ==
    {[cluster |-> c, policy |-> 1, deleting |-> d, snap |-> n, conditions |-> Broken(at, status)] :
        d \in BOOLEAN, n \in 1..2, at \in 0..5, status \in {"Unknown", "False"}}
SomePlacements ==
    {[policy |-> 1, type |-> "PickN", wanted |-> 3, external |-> e, diff |-> d, latest |-> 2,
      scheduled |-> s, selected |-> {"a", "b"}, unselected |-> {"c"},
      reported |-> Broken(0, "True")] : e, d \in BOOLEAN, s \in {"True", "Unknown"}}

\* A rollout is reported as completed exactly when it has been scheduled and
\* every selected cluster has a binding that has all its conditions and the resources the status names.
ASSUME CompletionIsEarned ==
    \A p \in SomePlacements : \A x \in SomeBindings("a"), y \in SomeBindings("b") :
        LET report == Status!PlacementReport(p, <<x, y>>)
        IN  Status!RolloutCompleted(p, report) <=>
                /\ p.scheduled = "True"
                /\ \A b \in {x, y} :
                       /\ ~b.deleting
                       /\ b.snap = report.index
                       /\ \A k \in Status!KindsOf(Status!ExpectedKinds(p)) :
                              b.conditions[k] = "True"

----------------------------------------------------------------------------
\* The default checkers of the two APIs, with a few of the denied gvks.
Selecting == INSTANCE ResourceSelection
Checker(skipNamespaces, skipObjects, prefixes, gvks) ==
    [namespaceMode |-> "DenyList", names |-> {}, prefixes |-> prefixes, skipNamespaces |-> skipNamespaces,
     gvkMode |-> "DenyList", gvks |-> gvks, skipGVKs |-> FALSE, skipObjects |-> skipObjects]
Denied == {<<"", "v1", "Pod">>, <<"events.k8s.io", "", "">>}
Baseline(skipObjects) == Checker(FALSE, skipObjects, {<<"kube">>, <<"fleet">>}, Denied)
DefaultForV0APIs == <<Checker(TRUE, TRUE, {}, {}), Baseline(TRUE)>>
DefaultForV1APIs == <<Checker(TRUE, TRUE, {}, {<<"apps", "v1", "ReplicaSet">>}), Baseline(FALSE)>>

Thing(gvk, namespace, name) ==
    [gvk |-> gvk, namespace |-> namespace, name |-> name, labels |-> <<>>, deleting |-> FALSE,
     owned |-> FALSE, controlled |-> FALSE, token |-> FALSE, managed |-> FALSE, fields |-> {}]
Space(name) == Thing(Selecting!NamespaceGVK, <<>>, name)
Web == Space(<<"web">>)
Settings == Thing(Selecting!Core("ConfigMap"), <<"web">>, <<"settings">>)
Role == Thing(<<"rbac", "v1", "ClusterRole">>, <<>>, <<"reader">>)
Custom(group) == Thing(<<group, "v1", "Widget">>, <<>>, <<"w">>)
Owned == [Thing(<<"apps", "v1", "ReplicaSet">>, <<"web">>, <<"set">>) EXCEPT !.owned = TRUE, !.controlled = TRUE]
Frontend(kind) == Thing(Selecting!Core(kind), <<"web">>, <<"front">>)
Everything ==
    {Web, Settings, Role, Owned, Frontend("Service"), Frontend("Endpoints"), Space(<<"kube", "system">>),
     Space(<<"default">>), Thing(Selecting!Core("ConfigMap"), <<"default">>, <<"settings">>)}
HubOf(objects, unsynced) ==
    [objects |-> objects, clusterScoped |-> {Selecting!NamespaceGVK, Role.gvk},
     tracked |-> {Settings.gvk, Owned.gvk, Frontend("Service").gvk, Frontend("Endpoints").gvk},
     unsynced |-> unsynced, unregistered |-> {}]
Selects(o, name, scope) == [gvk |-> o.gvk, name |-> name, labels |-> <<>>, scope |-> scope]
SomeSelectors ==
    {Selects(Web, n, scope) : n \in {<<>>, <<"web">>, <<"default">>},
                              scope \in {"", "NamespaceOnly", "NamespaceWithResourceSelectors"}}
        \cup {Selects(Settings, <<>>, ""), Selects(Role, <<"reader">>, ""), Selects(Frontend("Endpoints"), <<>>, "")}

\* Whatever a ClusterResourcePlacement selects, with any two selectors: every object
\* is one that may be placed, was not made by the hub, and comes with its namespace;
\* a ResourcePlacement stays in its own.
ASSUME SelectionIsPlaceable ==
    \A gone \in {{}, {Web}, {Frontend("Service"), Space(<<"default">>)}, {Role, Settings}, {Space(<<"kube", "system">>), Space(<<"default">>)}},
       dying \in {{}, {Web}, {Settings}}, unsynced \in {{}, {Settings.gvk}} :
    \A s, t \in SomeSelectors, own \in {<<>>, <<"web">>} :
        LET hub == HubOf({[o EXCEPT !.deleting = o \in dying] : o \in Everything \ gone}, unsynced)
            all == Selecting!Selection(hub, DefaultForV0APIs, <<s, t>>, own, FALSE)
        IN  Selecting!SelectionFails(hub, DefaultForV0APIs, <<s, t>>, own, FALSE) \/
            \A o \in all :
                /\ ~o.deleting /\ ~o.owned
                /\ o.gvk = Frontend("Endpoints").gvk => Frontend("Service") \notin hub.objects
                /\ Selecting!AllowsGVK(DefaultForV0APIs, o.gvk)
                /\ IF own # <<>> THEN o.namespace = own
                   ELSE /\ o.namespace # <<>> => Space(o.namespace) \in all
                        /\ o.gvk = Web.gvk => o.name = Web.name

\* A checker that wraps another only narrows what may be placed.
ASSUME WrappingNarrows ==
    \A c \in {[Checker(skip, skip, prefixes, Denied) EXCEPT !.namespaceMode = mode, !.gvkMode = mode] :
                  skip \in BOOLEAN, prefixes \in {{}, {<<"web">>}, {<<>>}}, mode \in {"AllowList", "DenyList"}} :
        /\ \A n \in {<<"web">>, <<"web", "1">>, <<"kube", "system">>} :
              Selecting!AllowsNamespace(<<c>> \o DefaultForV1APIs, n)
                  => Selecting!AllowsNamespace(DefaultForV1APIs, n)
        /\ \A o \in Everything :
              /\ Selecting!AllowsGVK(<<c>> \o DefaultForV1APIs, o.gvk)
                     => Selecting!AllowsGVK(DefaultForV1APIs, o.gvk)
              /\ Selecting!AllowsObject(<<c>> \o DefaultForV1APIs, o)
                     => ~o.controlled /\ o # Space(<<"default">>)

\* The list does not depend on the order in which the informers return objects: no
\* two of them are equal in the order, and it has no cycle.
ASSUME OrderIsTotal ==
    LET things == Everything \cup {Custom("a"), Custom("b"), Thing(<<"b", "v1", "Service">>, <<"web">>, <<"front">>)}
        words  == <<"", "/", "ClusterRole", "ConfigMap", "Endpoints", "Namespace", "ReplicaSet", "Service", "Widget",
                    "a", "apps", "b", "default", "front", "kube", "rbac", "reader", "set", "settings", "system", "v1",
                    "w", "web">>
        Less(a, b) == Selecting!Less(<<"Namespace", "ConfigMap", "ClusterRole", "Service">>, words, a, b)
    IN  \A a, b \in things :
            /\ a # b => Less(a, b) # Less(b, a)
            /\ ~Less(a, a)
            /\ \A c \in things : Less(a, b) /\ Less(b, c) => Less(a, c)
=============================================================================
