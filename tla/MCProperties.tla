---------------------------- MODULE MCProperties ----------------------------
(* Two nodes, a pod and two namespaces, with room for one namespace.         *)
EXTENDS ClusterProperties

MCNodeShapes == {[capacity |-> 2, allocatable |-> 1, sku |-> "small"],
                 [capacity |-> 3, allocatable |-> 3, sku |-> ""]}
MCPodShapes == {<<1>>, <<1, 1>>}
MCTables == {[small |-> 1] @@ ("" :> MissingPrice), [small |-> 1] @@ ("" :> 2)}
=============================================================================
