-------------------------- MODULE ResourceSelection --------------------------
(***************************************************************************)
(* The objects of the hub a placement selects, in the order in which they  *)
(* are written into its resource snapshots, and the checker that says what *)
(* may be placed at all.                                                   *)
(*                                                                         *)
(* A name is a sequence of words, a gvk a sequence of group, version and   *)
(* kind.  An object has gvk, namespace (empty for the cluster scope),      *)
(* name, labels, deleting, owned and controlled (by some owner, by a       *)
(* controller), token (a secret of a service account), managed (an         *)
(* endpoint slice of a controller) and fields, the names of those it has.  *)
(* A selector has gvk, name (empty for none), labels and scope.  The hub   *)
(* has objects, clusterScoped (gvks), tracked (namespaced gvks with an     *)
(* informer), unsynced (informers that have not listed yet) and            *)
(* unregistered (gvks of definitions that have been removed).              *)
(***************************************************************************)
EXTENDS Integers, Sequences, SequencesExt, FiniteSetsExt

NamespaceGVK == <<"", "v1", "Namespace">>
Core(kind) == <<"", "v1", kind>>
DefaultName == <<"default">>

----------------------------------------------------------------------------
(* The eligibility checker: a sequence in which each one wraps the next.   *)

\* gvkMatcherTrie: one entry whose version and kind are given or wild.  An
\* entry without version or kind matches any.
Edge(e) == IF e = "" THEN "*" ELSE e
Register(gvks) == {<<g[1], Edge(g[2]), Edge(g[3])>> : g \in gvks}
Match(list, gvk) == \E entry \in Register(list) : \A i \in 1..3 : entry[i] \in {"*", gvk[i]}

\* Without a wrapped checker, one that skips the test falls back on its mode.
Skips(checkers, i, mode) == i < Len(checkers) \/ mode # "AllowList"

Listed(mode, found) == IF mode = "AllowList" THEN found ELSE ~found

AllowsNamespace(checkers, namespace) ==
    \/ namespace = <<>>
    \/ \A i \in DOMAIN checkers :
          IF checkers[i].skipNamespaces THEN Skips(checkers, i, checkers[i].namespaceMode)
          ELSE Listed(checkers[i].namespaceMode,
                      \/ namespace \in checkers[i].names
                      \/ \E p \in checkers[i].prefixes \ {<<>>} : IsPrefix(p, namespace))

AllowsGVK(checkers, gvk) ==
    \A i \in DOMAIN checkers :
        IF checkers[i].skipGVKs THEN Skips(checkers, i, checkers[i].gvkMode)
        ELSE Listed(checkers[i].gvkMode, Match(checkers[i].gvks, gvk))

\* AllowsObject, for the v1 API.
AllowsObject(checkers, o) ==
    \A i \in DOMAIN checkers : checkers[i].skipObjects \/
        /\ ~o.deleting
        /\ ~o.controlled
        /\ ~(o.gvk = Core("ConfigMap") /\ o.name = <<"kube-root-ca.crt">>)
        /\ ~(o.gvk = Core("ServiceAccount") /\ o.name = DefaultName)
        /\ ~(o.gvk = Core("Service") /\ o.namespace = DefaultName /\ o.name = <<"kubernetes">>)
        /\ ~(o.gvk = Core("Secret") /\ o.token)
        /\ ~(o.gvk = NamespaceGVK /\ o.name = DefaultName)

----------------------------------------------------------------------------
(* ShouldPropagateObj                                                      *)

\* What the hub makes by itself is not placed.
IsGenerated(hub, o, enableWorkload) ==
    \/ o.gvk \in {<<"apps", "v1", "ReplicaSet">>, <<"apps", "v1", "ControllerRevision">>} /\ o.owned
    \/ o.gvk = Core("ConfigMap") /\ o.name = <<"kube-root-ca.crt">>
    \/ o.gvk = Core("ServiceAccount") /\ o.name = DefaultName
    \/ o.gvk = Core("Secret") /\ o.token
    \/ o.gvk = Core("PersistentVolumeClaim") /\ enableWorkload
    \/ /\ o.gvk = Core("Endpoints")
       /\ \E s \in hub.objects : s.gvk = Core("Service") /\ s.namespace = o.namespace /\ s.name = o.name
    \/ o.gvk = <<"discovery.k8s.io", "v1", "EndpointSlice">> /\ o.managed

\* Selecting a reserved namespace is an error, unless it is being deleted.
IsForbidden(checkers, o) ==
    /\ ~o.deleting
    /\ o.gvk = NamespaceGVK
    /\ ~AllowsNamespace(checkers, o.name) \/ o.name = DefaultName

ShouldPropagate(hub, o, enableWorkload) ==
    ~o.deleting /\ ~IsGenerated(hub, o, enableWorkload)

----------------------------------------------------------------------------
(* The objects of one selector, for a placement of a namespace (empty for  *)
(* a ClusterResourcePlacement).                                            *)

IsClusterScoped(hub, gvk) == gvk \in hub.clusterScoped

Fits(o, s) ==
    IF s.name # <<>> THEN o.name = s.name
    ELSE \A k \in DOMAIN s.labels : k \in DOMAIN o.labels /\ o.labels[k] = s.labels[k]

\* fetchResources
Listing(hub, s, namespace) ==
    {o \in hub.objects : o.gvk = s.gvk /\ o.namespace = namespace /\ Fits(o, s)}

FetchFails(hub, checkers, s, namespace) ==
    \/ s.gvk \in hub.unregistered \cup hub.unsynced
    \/ IsClusterScoped(hub, s.gvk) # (namespace = <<>>)
    \/ \E o \in Listing(hub, s, namespace) : IsForbidden(checkers, o)

Fetched(hub, s, namespace, enableWorkload) ==
    {o \in Listing(hub, s, namespace) : ShouldPropagate(hub, o, enableWorkload)}

\* fetchNamespaceResources.  A namespace that is named is looked at even if it
\* does not exist; one that is being deleted brings nothing.
NamesOf(hub, s) ==
    IF s.name # <<>> THEN {s.name} ELSE {o.name : o \in Listing(hub, s, <<>>)}

Stays(hub, n) == \E o \in hub.objects : o.gvk = NamespaceGVK /\ o.name = n /\ ~o.deleting

Eligible(hub, checkers) ==
    {gvk \in hub.tracked \ hub.unregistered : AllowsGVK(checkers, gvk)}

\* fetchAllResourcesInOneNamespace
NamespaceFails(hub, checkers, n) ==
    \/ ~AllowsNamespace(checkers, n)
    \/ n = DefaultName
    \/ Stays(hub, n) /\ Eligible(hub, checkers) \cap hub.unsynced # {}

InNamespace(hub, checkers, n, enableWorkload) ==
    IF ~Stays(hub, n) THEN {}
    ELSE {o \in hub.objects :
            \/ o.gvk = NamespaceGVK /\ o.name = n
            \/ /\ o.gvk \in Eligible(hub, checkers)
               /\ o.namespace = n
               /\ ShouldPropagate(hub, o, enableWorkload)}

----------------------------------------------------------------------------
(* gatherSelectedResource                                                  *)

PicksOne(s) == s.gvk = NamespaceGVK /\ s.scope = "NamespaceWithResourceSelectors"

WithResources(s) ==
    s.gvk = NamespaceGVK /\ s.scope \notin {"NamespaceOnly", "NamespaceWithResourceSelectors"}

\* The namespace of the first selector that picks one, for the other selectors.
Picking(selectors) == {i \in DOMAIN selectors : PicksOne(selectors[i])}

SelectedNamespace(hub, selectors, enableWorkload) ==
    IF Picking(selectors) = {} THEN <<>>
    ELSE LET s == selectors[Min(Picking(selectors))]
             found == Fetched(hub, s, <<>>, enableWorkload)
         IN  IF found = {} THEN <<>> ELSE (CHOOSE o \in found : TRUE).name

\* The namespace in which a selector of a placement of namespace own looks.
LooksIn(hub, selectors, s, own, enableWorkload) ==
    IF own = <<>> /\ ~IsClusterScoped(hub, s.gvk)
    THEN SelectedNamespace(hub, selectors, enableWorkload) ELSE own

Chosen(hub, checkers, selectors, s, own, enableWorkload) ==
    IF ~AllowsGVK(checkers, s.gvk) THEN {}
    ELSE IF WithResources(s)
    THEN UNION {InNamespace(hub, checkers, n, enableWorkload) : n \in NamesOf(hub, s)}
    ELSE Fetched(hub, s, LooksIn(hub, selectors, s, own, enableWorkload), enableWorkload)

SelectorFails(hub, checkers, selectors, s, own, enableWorkload) ==
    /\ AllowsGVK(checkers, s.gvk)
    /\ \/ s.gvk = NamespaceGVK /\ own # <<>>
       \/ IF WithResources(s)
          THEN \E n \in NamesOf(hub, s) : NamespaceFails(hub, checkers, n)
          ELSE FetchFails(hub, checkers, s, LooksIn(hub, selectors, s, own, enableWorkload))

\* An object may be selected only once.
SelectionFails(hub, checkers, selectors, own, enableWorkload) ==
    LET Of(i) == Chosen(hub, checkers, selectors, selectors[i], own, enableWorkload)
    IN  \/ /\ own = <<>> /\ Picking(selectors) # {}
           /\ LET first == selectors[Min(Picking(selectors))]
              IN  \/ FetchFails(hub, checkers, first, <<>>)
                  \/ Fetched(hub, first, <<>>, enableWorkload) = {}
        \/ \E i \in DOMAIN selectors :
              SelectorFails(hub, checkers, selectors, selectors[i], own, enableWorkload)
        \/ \E i, j \in DOMAIN selectors : i # j /\ Of(i) \cap Of(j) # {}

Selection(hub, checkers, selectors, own, enableWorkload) ==
    UNION {Chosen(hub, checkers, selectors, selectors[i], own, enableWorkload) : i \in DOMAIN selectors}

----------------------------------------------------------------------------
(* sortResources: sortOrder is the sequence of the kinds with a place of   *)
(* their own. A string is the sequence of its parts, and words has all of  *)
(* the parts in their order.                                               *)

\* strings.Compare
Below(words, x, y) ==
    LET Rank(w) == CHOOSE i \in DOMAIN words : words[i] = w
    IN  \E i \in DOMAIN y :
            /\ \A j \in 1..i - 1 : j \in DOMAIN x /\ x[j] = y[j]
            /\ i \in DOMAIN x => Rank(x[i]) < Rank(y[i])

Place(sortOrder, o) == {i \in DOMAIN sortOrder : sortOrder[i] = o.gvk[3]}

LessByGVK(words, a, b, ignoreKind) ==
    LET GVK(o)  == IF ignoreKind THEN <<o.gvk[1], o.gvk[2]>> ELSE o.gvk
        Full(o) == o.namespace \o <<"/">> \o o.name
    IN  IF GVK(a) # GVK(b) THEN Below(words, GVK(a), GVK(b)) ELSE Below(words, Full(a), Full(b))

Less(sortOrder, words, a, b) ==
    LET p == Place(sortOrder, a)
        q == Place(sortOrder, b)
    IN  IF p = {} \/ q = {} THEN IF p = q THEN LessByGVK(words, a, b, FALSE) ELSE q = {}
        ELSE IF p = q THEN LessByGVK(words, a, b, TRUE)
        ELSE Min(p) < Min(q)

----------------------------------------------------------------------------
\* generateRawContent: the fields that mean something only on the hub are left
\* out of the content.
HubFields ==
    {"resourceVersion", "generation", "uid", "selfLink", "deletionTimestamp", "managedFields",
     "lastApplied", "revision", "ownerReferences", "creationTimestamp", "status"}

RawContent(o) ==
    LET service == {"clusterIP", "clusterIPs", "healthCheckNodePort", "nodePort"}
        job     == {"controller-uid", "templateCreationTimestamp"}
        kept    == IF "headless" \in o.fields THEN {"clusterIP", "clusterIPs"} ELSE {}
    IN  o.fields \ (HubFields
            \cup (IF o.gvk = Core("Service") THEN service \ kept ELSE {})
            \cup (IF o.gvk = <<"batch", "v1", "Job">> /\ "manualSelector" \notin o.fields
                  THEN job ELSE {}))
==============================================================================
