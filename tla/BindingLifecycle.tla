-------------------------- MODULE BindingLifecycle --------------------------
(***************************************************************************)
(* What the controllers of a placement together promise about its          *)
(* bindings, whatever they are working on: a binding is created only for a *)
(* cluster that has no other binding in use, and it gets resources on the  *)
(* cluster only after every binding deleted there before it is gone.       *)
(***************************************************************************)
CONSTANTS Binding, Cluster, None

VARIABLE life

\* A binding in use is live until it may have resources on its cluster, and
\* then placed.
Life ==
    [stage : {"absent", "live", "placed", "deleting", "gone"},
     cluster : Cluster \cup {None}]

InUse(c) ==
    {b \in Binding : life[b].stage \in {"live", "placed"} /\ life[b].cluster = c}

Leaving(c) == {b \in Binding : life[b].stage = "deleting" /\ life[b].cluster = c}

Create(b, c) ==
    /\ life[b].stage = "absent"
    /\ InUse(c) = {}
    /\ life' = [life EXCEPT ![b] = [stage |-> "live", cluster |-> c]]

Place(b) ==
    /\ life[b].stage = "live"
    /\ Leaving(life[b].cluster) = {}
    /\ life' = [life EXCEPT ![b] = [stage |-> "placed", cluster |-> @.cluster]]

\* The scheduler loses track of whether a deselected binding was bound.
Forget(b) ==
    /\ life[b].stage = "placed"
    /\ life' = [life EXCEPT ![b] = [stage |-> "live", cluster |-> @.cluster]]

Remove(b) ==
    /\ life[b].stage \in {"live", "placed"}
    /\ life' = [life EXCEPT ![b] = [stage |-> "deleting", cluster |-> @.cluster]]

Vanish(b) ==
    /\ life[b].stage \in {"live", "placed", "deleting"}
    /\ life' = [life EXCEPT ![b] = [stage |-> "gone", cluster |-> None]]

LifeInit == life = [b \in Binding |-> [stage |-> "absent", cluster |-> None]]

LifeNext ==
    \E b \in Binding :
        \/ \E c \in Cluster : Create(b, c)
        \/ Place(b)
        \/ Forget(b)
        \/ Remove(b)
        \/ Vanish(b)

LifeSpec == LifeInit /\ [][LifeNext]_life
=============================================================================
