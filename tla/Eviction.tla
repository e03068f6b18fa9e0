------------------------------ MODULE Eviction ------------------------------
(***************************************************************************)
(* What the eviction controller decides about the request to remove a      *)
(* placement from one cluster, from the objects it has read.               *)
(*                                                                         *)
(* A placement is a record with phase, type (PickAll for one without a     *)
(* policy) and number.  A binding has cluster, deleting, placed            *)
(* (IsPlacementPresent), failed (HasBindingFailed), diff (its differences  *)
(* have been reported) and available (the condition of its generation).  A *)
(* disruption budget has limit, one of "maxUnavailable", "minAvailable"    *)
(* and "" (neither is given), and a value.                                 *)
(***************************************************************************)
EXTENDS Integers, Sequences, FiniteSetsExt

NoBudget == [limit |-> "none", percent |-> FALSE, value |-> 0]

\* GetScaledValueFromIntOrPercent, rounding up.
Share(db, total) == IF db.percent THEN (db.value * total + 99) \div 100 ELSE db.value

Targets(bindings, c) == {i \in DOMAIN bindings : bindings[i].cluster = c}

Available(bindings) == Cardinality({i \in DOMAIN bindings : bindings[i].available})

\* validateEviction: it makes sense for one binding of a placement that stays.
IsValid(placement, bindings, c) ==
    /\ placement.phase = "active"
    /\ placement.type # "PickFixed"
    /\ Cardinality(Targets(bindings, c)) = 1

\* The number of bindings is not known in advance for PickAll.
Desired(placement) == IF placement.type = "PickN" THEN placement.number ELSE 0

Misconfigured(placement, db) ==
    /\ placement.type = "PickAll"
    /\ db.limit = "maxUnavailable" \/ (db.limit = "minAvailable" /\ db.percent)

\* isEvictionAllowed
DisruptionsAllowed(placement, bindings, db) ==
    CASE db.limit = "maxUnavailable" ->
            Share(db, Desired(placement)) - (Len(bindings) - Available(bindings))
      [] db.limit = "minAvailable" ->
            Available(bindings) - Share(db, Desired(placement))
      [] OTHER -> 0

\* executeEviction, for a valid eviction of binding b.  Failed placements and
\* reports of differences are not protected by the budget.
Executed(placement, bindings, b, db) ==
    \/ b.deleting
    \/ /\ b.placed
       /\ \/ b.failed \/ b.diff
          \/ db = NoBudget
          \/ /\ ~Misconfigured(placement, db)
             /\ DisruptionsAllowed(placement, bindings, db) > 0

\* Reconcile: the conditions of the eviction, and whether the binding is
\* deleted (one that is being deleted is left alone).
Verdict(placement, bindings, c, db) ==
    IF ~IsValid(placement, bindings, c)
    THEN [valid |-> FALSE, executed |-> FALSE, deletes |-> FALSE]
    ELSE LET b == bindings[CHOOSE i \in Targets(bindings, c) : TRUE]
             executed == Executed(placement, bindings, b, db)
         IN  [valid |-> TRUE, executed |-> executed, deletes |-> executed /\ ~b.deleting]
============================================================================
