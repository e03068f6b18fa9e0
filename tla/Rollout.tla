------------------------------ MODULE Rollout ------------------------------
(***************************************************************************)
(* The rollout controller: moves the bindings the scheduler has selected   *)
(* to the latest resource snapshot (Scheduled to Bound, Bound to the new   *)
(* snapshot) and deletes the ones it has deselected, a few at a time: not  *)
(* more than maxUnavailable below the target number of clusters and not    *)
(* more than maxSurge above it.                                            *)
(*                                                                         *)
(* A reconciliation reads the bindings once, straight from the API server, *)
(* and then performs the writes it planned, one API call at a time.        *)
(* rollout holds the plan: the writes not yet performed, in the order in   *)
(* which the code issues the groups of calls.                              *)
(***************************************************************************)
EXTENDS Hub, Integers, FiniteSetsExt

CONSTANTS
    MaxUnavailable, \* [percent, value]: spec.strategy.rollingUpdate
    MaxSurge

IntOrPercent == [percent : BOOLEAN, value : Nat]

ASSUME RolloutAssumption ==
    /\ MaxUnavailable \in IntOrPercent
    /\ MaxSurge \in IntOrPercent

VARIABLE rollout

IdleRollout ==
    [pc |-> "idle", strategic |-> {}, stale |-> {}, refresh |-> {},
     update |-> {}, start |-> {}, delete |-> {},
     snap |-> 0, strategy |-> None, target |-> 0, ready |-> {}]

RolloutPlan ==
    [pc        : {"idle", "strategy", "roll"},
     strategic : SUBSET Binding,    \* patch spec.applyStrategy
     stale     : SUBSET Binding,    \* set RolloutStarted to False
     refresh   : SUBSET Binding,    \* set RolloutStarted to True
     update    : SUBSET Binding,    \* bind or move to rollout.snap
     start     : SUBSET Binding,    \* updated: set RolloutStarted
     delete    : SUBSET Binding,    \* delete
     snap      : 0..MaxSnapshot,
     strategy  : Strategies \cup {None},
     target    : Nat,
     ready     : SUBSET Binding]    \* the bindings that were ready

RolloutTypeOK == rollout \in RolloutPlan

----------------------------------------------------------------------------
(* What the conditions of the current generation say.                      *)

\* isBindingReady
IsReady(r) == r.report \in {"Available", "Settled", "Diffed"}

\* HasBindingFailed: a False condition whose reason is not in the list of
\* reasons that mean "in progress".  The reasons the work generator gives while
\* the member agent is at work are not in the list.
HasFailed(r) == r.report \in {"Progressing", "Failed"}

\* IsBindingDiffReported
IsDiffReported(r) == r.report \in {"Diffing", "Diffed"}

Ready(S) == {b \in S : IsReady(binding[b])}

Failed(S) == {b \in S : HasFailed(binding[b])}

\* Bindings that may be, or become, available on their clusters.
CanBeReady(S) ==
    {b \in S : ~HasFailed(binding[b]) /\ ~IsDiffReported(binding[b])}

\* GetScaledValueFromIntOrPercent, rounding up.
Scaled(v, total) ==
    IF v.percent THEN (v.value * total + 99) \div 100 ELSE v.value

----------------------------------------------------------------------------
(* waitForResourcesToCleanUp: a cluster with a deleting binding and another *)
(* one stops the rollout; some pairs are reported as unexpected.            *)

Siblings(a, b) ==
    /\ a # b
    /\ binding[a].cluster = binding[b].cluster

\* A live binding that has, or had before it was deselected, its resources
\* applied to the cluster.
HoldsResources(b) ==
    /\ b \in Live
    /\ \/ binding[b].state = "Bound"
       \/ binding[b].state = "Unscheduled" /\ binding[b].prev = "Bound"

UnexpectedSiblings ==
    \/ \E a, b \in Live : Siblings(a, b)
    \/ \E a \in Deleting, b \in Live : Siblings(a, b) /\ HoldsResources(b)

\* Mutant: only siblings that are bound are waited for.
WaitForCleanUpBound ==
    \E a \in Deleting, b \in Live : Siblings(a, b) /\ HoldsResources(b)

WaitForCleanUp == \E a \in Deleting, b \in Live : Siblings(a, b)

----------------------------------------------------------------------------
(* pickBindingsToRoll and determineBindingsToUpdate.                       *)

Bound == InState("Bound")

Scheduled == InState("Scheduled")

RemoveCandidates == InState("Unscheduled") \cap Live

OutOfDate == {b \in Bound \cap Live : binding[b].snap # cache.snap}

UpToDate == (Bound \cap Live) \ OutOfDate

\* calculateRealTarget: what the scheduler has picked, or numberOfClusters, or
\* the number of cluster names.
RealTarget ==
    IF PlacementType = "PickAll"
    THEN Cardinality(Scheduled \cup Bound)
    ELSE cache.placement.number

Rolled == Bound \cup InState("Unscheduled")

\* Mutant: bindings that may still become ready count as ready.
MaxToRemoveOptimistic ==
    Cardinality(CanBeReady(Rolled \ Deleting))
        - (RealTarget - Scaled(MaxUnavailable, RealTarget))

\* calculateMaxToRemove
MaxToRemove ==
    Cardinality(Ready(Rolled)) - Cardinality(Ready(Rolled \cap Deleting))
        - (RealTarget - Scaled(MaxUnavailable, RealTarget))

\* calculateMaxToAdd
MaxToAdd ==
    RealTarget + Scaled(MaxSurge, RealTarget) - Cardinality(CanBeReady(Rolled))

\* The first n candidates; the list has no particular order.
Picks(S, n) ==
    kSubset(IF n < 0 THEN 0 ELSE Min({n, Cardinality(S)}), S)

NeedsRoll ==
    RemoveCandidates \cup OutOfDate \cup Scheduled # {}

\* The out-of-date bindings whose update has to fit in the budget; one whose
\* apply has failed already is updated regardless of it.
UpdateCandidates == OutOfDate \ Failed(OutOfDate)

\* rem, upd, add: the bindings picked to be deleted, updated and bound.
RollPlan(rem, upd, add) ==
    [IdleRollout EXCEPT
        !.pc      = "roll",
        !.stale   = {b \in (UpdateCandidates \ upd) \cup (Scheduled \ add) :
                        binding[b].started # "False"},
        !.refresh = {b \in UpToDate : binding[b].started # "True"},
        !.update  = Failed(OutOfDate) \cup upd \cup add,
        !.delete  = rem,
        !.snap    = cache.snap,
        !.target  = RealTarget,
        !.ready   = Ready(Rolled \ Deleting)]

\* checkAndUpdateStaleBindingsStatus: nothing to roll.
RefreshPlan ==
    [IdleRollout EXCEPT
        !.pc = "roll",
        !.refresh = {b \in Scheduled \cup Bound : binding[b].started # "True"}]

\* processApplyStrategyUpdates
StrategyOutdated == {b \in Live : binding[b].strategy # cache.placement.strategy}

StrategyPlan ==
    [IdleRollout EXCEPT
        !.pc = "strategy",
        !.strategic = StrategyOutdated,
        !.strategy = cache.placement.strategy]

----------------------------------------------------------------------------
\* The plan is done when nothing is left to write.
Outstanding(p) ==
    p.strategic \cup p.stale \cup p.refresh \cup p.update \cup p.start \cup p.delete

Continue(p) ==
    IF Outstanding(p) = {}
    THEN rollout' = IdleRollout /\ rolloutFresh' = {}
    ELSE rollout' = p /\ UNCHANGED rolloutFresh

StartPlan(p) ==
    /\ Outstanding(p) # {}
    /\ rollout' = p
    /\ rolloutFresh' = Existing
    /\ UNCHANGED <<binding, schedFresh, hub, cache>>

\* Removals come first and what is left of the budget goes to the updates.
StartRoll ==
    \E rem \in Picks(RemoveCandidates, MaxToRemove) :
    \E upd \in Picks(UpdateCandidates, MaxToRemove - Cardinality(rem)) :
    \E add \in Picks(Scheduled, MaxToAdd) :
        StartPlan(RollPlan(rem, upd, add))

\* Reconcile up to its first write.  A reconciliation that writes nothing is
\* left out.
StartRollout ==
    /\ rollout.pc = "idle"
    /\ cache.placement.phase = "active"
    /\ IF StrategyOutdated # {}
       THEN StartPlan(StrategyPlan)
       ELSE /\ ~UnexpectedSiblings
            /\ ~WaitForCleanUp
            /\ cache.snap # 0
            /\ IF NeedsRoll THEN StartRoll ELSE StartPlan(RefreshPlan)

\* A merge patch without a lock: applied to whatever is stored.
PatchStrategy(b) ==
    /\ b \in rollout.strategic \cap Existing
    /\ RolloutWrites(b, NewGeneration(
          [binding[b] EXCEPT !.strategy = rollout.strategy]))
    /\ Continue([rollout EXCEPT !.strategic = @ \ {b}])
    /\ UNCHANGED <<hub, cache>>

\* updateStaleBindingsStatus
MarkStale(b) ==
    /\ b \in rollout.stale \cap rolloutFresh
    /\ RolloutWrites(b, [binding[b] EXCEPT !.started = "False"])
    /\ Continue([rollout EXCEPT !.stale = @ \ {b}])
    /\ UNCHANGED <<hub, cache>>

\* refreshUpToDateBindingStatus
Refresh(b) ==
    /\ rollout.stale = {}
    /\ b \in rollout.refresh \cap rolloutFresh
    /\ RolloutWrites(b, [binding[b] EXCEPT !.started = "True"])
    /\ Continue([rollout EXCEPT !.refresh = @ \ {b}])
    /\ UNCHANGED <<hub, cache>>

Updating == rollout.stale = {} /\ rollout.refresh = {}

\* updateBindings: a bound or scheduled binding.  Its status is written next,
\* by a call of its own.
UpdateBinding(b) ==
    /\ Updating
    /\ b \in rollout.update \cap rolloutFresh
    /\ RolloutWrites(b, NewGeneration(
          [binding[b] EXCEPT !.state = "Bound", !.snap = rollout.snap]))
    /\ Continue([rollout EXCEPT !.update = @ \ {b}, !.start = @ \cup {b}])
    /\ UNCHANGED <<hub, cache>>

MarkStarted(b) ==
    /\ b \in rollout.start \cap rolloutFresh
    /\ RolloutWrites(b, [binding[b] EXCEPT !.started = "True"])
    /\ Continue([rollout EXCEPT !.start = @ \ {b}])
    /\ UNCHANGED <<hub, cache>>

\* updateBindings: an unscheduled binding is deleted, whatever it is by now.
DeleteBinding(b) ==
    /\ Updating
    /\ b \in rollout.delete
    /\ RolloutWrites(b, MarkDeleting(binding[b]))
    /\ Continue([rollout EXCEPT !.delete = @ \ {b}])
    /\ UNCHANGED <<hub, cache>>

\* A version conflict, or a patch of a binding that is gone: the rest of the
\* plan is given up and the placement is queued again.
RolloutConflict ==
    \/ rollout.strategic \ Existing # {}
    \/ rollout.stale \ rolloutFresh # {}
    \/ rollout.stale = {} /\ rollout.refresh \ rolloutFresh # {}
    \/ Updating /\ rollout.update \ rolloutFresh # {}
    \/ rollout.start \ rolloutFresh # {}

AbandonRollout ==
    /\ rollout.pc # "idle"
    /\ rollout' = IdleRollout
    /\ rolloutFresh' = {}
    /\ UNCHANGED <<binding, schedFresh, hub, cache>>

RolloutRefused == RolloutConflict /\ AbandonRollout

RolloutInit == rollout = IdleRollout

RolloutStep ==
    \/ StartRollout
    \/ \E b \in Binding :
          \/ PatchStrategy(b)
          \/ MarkStale(b)
          \/ Refresh(b)
          \/ UpdateBinding(b)
          \/ MarkStarted(b)
          \/ DeleteBinding(b)
    \/ RolloutRefused
============================================================================
