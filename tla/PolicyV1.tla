------------------------------ MODULE PolicyV1 ------------------------------
(* The placement policy controller of the v1 stack                          *)
(* (pkg/v1/controllers/placementpolicy): it binds clusters to the policy,   *)
(* claims new clusters for selectors that cannot be satisfied, and reports. *)
(* A pass works on a cached copy of the policy and on cached lists of       *)
(* bindings and claims, one API call per step. Around it run the garbage    *)
(* collector, the cluster provisioner, the work generator and a rollout     *)
(* that competes for the binding manager role.                              *)
EXTENDS SelectionV1

CONSTANTS
    Profiles,           \* what a member cluster may look like
    Changes,            \* what a member cluster may turn into by surprise
    NewProfile,         \* what a provisioned cluster looks like, by the terms of its claim
    InitFleet,          \* the clusters at the start
    MaxSelectors,       \* bound on the selectors of a policy
    MaxSurprises        \* how many edits, outages, errors, rollouts and crashes happen

ASSUME PolicyAssumption ==
    /\ MaxSelectors \in Nat \ {0}
    /\ MaxSurprises \in Nat
    /\ InitFleet \in [Cluster -> Profiles]
    /\ Changes \subseteq Profiles

VARIABLES
    policy,             \* the PlacementPolicy object
    seen,               \* the controllers' cached copy of it
    seenFresh,          \* is the cached copy the latest version
    binding,            \* the PlacementBinding of each cluster
    bindingSeen,        \* the cached copies of the bindings
    claim,              \* the ClusterClaim of each selector
    claimSeen,          \* the cached copies of the claims
    fleet,              \* the MemberClusters
    resources,          \* have the selected resources changed since the latest revision
    due,                \* is a reconciliation of the policy queued, or due after a while
    pass,               \* the reconciliation under way
    surprises           \* what is left of MaxSurprises

objects == <<policy, binding, claim>>
caches == <<seen, seenFresh, bindingSeen, claimSeen>>
vars == <<objects, caches, fleet, resources, due, pass, surprises>>

Selector == 1..MaxSelectors

NoSpec == [selectors |-> <<>>, tolerations |-> {}, strategy |-> 0]

NoStatus == [scheduled |-> "None", counts |-> [desired |-> 0, scheduled |-> 0], claims |-> 0,
             collected |-> "None", synchronized |-> "None", available |-> "None"]

\* uid counts the policies of this name; owner is the uid of the source named
\* in the owner reference, 0 for none; labelled tells whether the policy
\* carries the labels of its source.
NoPolicy(uid) == [phase |-> "none", uid |-> uid, spec |-> NoSpec, fin |-> FALSE, role |-> "none",
                  status |-> NoStatus, owner |-> 0, labelled |-> FALSE]

\* born is the place in the order of creation, and tells two bindings of the
\* same name apart; owner is the uid of the policy in the controller
\* reference, 0 for none.
NoBinding(born) == [phase |-> "none", born |-> born, owner |-> 0, terms |-> {}, strategy |-> 0, sync |-> "None"]

NoClaim(uid) == [phase |-> "none", uid |-> uid, terms |-> 0, cluster |-> 0, recent |-> 0]

Idle == [stage |-> "idle"]

TypeOK ==
    /\ policy.phase \in {"none", "live", "terminating"} /\ seen.phase \in {"none", "live", "terminating"}
    /\ policy.role \in {"none", "policy", "rollout"} /\ policy.fin \in BOOLEAN
    /\ \A c \in Cluster : /\ binding[c].phase \in {"none", "live", "terminating"}
                          /\ binding[c].sync \in {"None", "outdated", "syncing", "available"}
                          /\ fleet[c] \in Profiles
    /\ \A i \in Selector : claim[i].phase \in {"none", "live", "terminating"} /\ claim[i].cluster \in Cluster \cup {0}
    /\ resources \in {"current", "changed"}
    /\ pass.stage \in {"idle", "bindings", "claims", "listed", "reviewed", "create", "status"}
    /\ surprises \in 0..MaxSurprises

Exists(object) == object.phase # "none"
Live(object) == object.phase = "live"

\* Deletion waits for the finalizer, if there is one.
Terminated(p) == IF p.fin THEN [p EXCEPT !.phase = "terminating"] ELSE NoPolicy(p.uid)

\* A write of the policy by anyone else makes every copy stale.
WritePolicy(p) ==
    /\ policy' = p
    /\ seenFresh' = FALSE
    /\ pass' = IF pass.stage = "idle" THEN pass ELSE [pass EXCEPT !.fresh = FALSE]
    /\ UNCHANGED seen

----------------------------------------------------------------------------
(* What a pass decides from what it has read *)

\* The cached bindings that the policy controls.
listBindings(pol) == {c \in Cluster : Exists(bindingSeen[c]) /\ bindingSeen[c].owner = pol.uid}

Recorded(pol) == [c \in Cluster |-> IF c \in listBindings(pol) THEN bindingSeen[c].terms ELSE {}]
Age(pol) == [c \in Cluster |-> IF c \in listBindings(pol) THEN bindingSeen[c].born ELSE 0]

Outcomes(pol) == evaluateSelectors(fleet, pol.spec, Recorded(pol))
Choice(pol, outcomes) == chooseClusters(outcomes, Age(pol), fleet)
PlanFrom(outcomes, choice) == [c \in Cluster |-> SelectorsFor(outcomes, choice, c)]

ToCreate(pol, plan) == {c \in Cluster \ listBindings(pol) : plan[c] # {}}
ToUpdate(pol, plan) ==
    {c \in listBindings(pol) : /\ plan[c] # {}
                               /\ \/ bindingSeen[c].terms # plan[c]
                                  \/ bindingSeen[c].strategy # pol.spec.strategy}
ToDelete(pol, plan) == {c \in listBindings(pol) : plan[c] = {} /\ Live(bindingSeen[c])}

\* The first selector that wants a claim; one claim at a time.
desiredClaims(outcomes) ==
    LET short == {i \in 1..Len(outcomes) : ~satisfiedInFull(outcomes[i]) /\ outcomes[i].claim}
    IN  IF short = {} THEN 0 ELSE Min(short)

mostRecentClusterCreation == Max({0} \cup {c \in Cluster : IsListed(fleet[c])})

countsTowardStatus(pol, plan, c) ==
    c \in listBindings(pol) /\ plan[c] # {} /\ Live(bindingSeen[c]) /\ bindingSeen[c].strategy = pol.spec.strategy

Counted(pol, plan, syncs) ==
    Cardinality({c \in Cluster : countsTowardStatus(pol, plan, c) /\ bindingSeen[c].sync \in syncs})

Targets(plan) == Cardinality({c \in Cluster : plan[c] # {}})

synchronizedCondition(pol, plan) ==
    CASE Targets(plan) > 0 /\ resources = "changed" -> "ResourcesChangedPendingRollout"
      [] Counted(pol, plan, {"available"}) = Targets(plan) -> "AllClustersSynchronized"
      [] Counted(pol, plan, {"outdated"}) > 0 -> "SomeClustersOnOlderResourceRevision"
      [] OTHER -> "FailedToSynchronizeSomeClusters"

availableCondition(pol, plan) ==
    IF Counted(pol, plan, {"available"}) = Targets(plan) THEN "AllClustersAvailable" ELSE "SomeClustersUnavailable"

\* Without a revision to compare with, a binding on an older one counts too.
availabilityOnly(pol, plan) ==
    IF Counted(pol, plan, {"available", "outdated"}) = Targets(plan)
    THEN "AllClustersAvailable" ELSE "SomeClustersUnavailable"

\* The status that updateStatus works out, by what became of the snapshot.
Report(pol, outcomes, choice, plan, snapshot) ==
    LET scheduling == [pol.status EXCEPT !.scheduled = scheduledCondition(outcomes),
                                         !.counts = aggregateCounts(outcomes, choice)]
    IN  CASE snapshot = "ok" ->
               [scheduling EXCEPT !.collected = "AllResourcesCollected",
                                  !.synchronized = synchronizedCondition(pol, plan),
                                  !.available = availableCondition(pol, plan)]
          [] snapshot = "invalid" ->
               [scheduling EXCEPT !.collected = "FailedToCollectSomeResources",
                                  !.synchronized = "FailedToSynchronizeSomeClusters",
                                  !.available = availabilityOnly(pol, plan)]
          [] OTHER -> scheduling

invalidSelectorsReport(pol) ==
    [pol.status EXCEPT !.scheduled = "InvalidClusterSelectors", !.counts = NoStatus.counts]

----------------------------------------------------------------------------
(* A pass: what its calls do. Each step makes one API call, the readings of *)
(* the caches before it included; a pass that has nothing to write is one   *)
(* step that changes nothing but the queue.                                 *)

\* The pass writes the policy; the cached copy is then behind.
WriteFromPass(p) == policy' = p /\ seenFresh' = FALSE /\ UNCHANGED seen
NoWrite == UNCHANGED <<policy, seen, seenFresh>>

\* The request is taken off the queue at the start of a pass, and may be
\* queued again during it; at the end a live policy comes back after a
\* while, as does an error.
Queued == IF pass.stage = "idle" THEN "no" ELSE due
Ends(again) == pass' = Idle /\ due' = IF Queued = "no" /\ again THEN "later" ELSE Queued
Goes(p) == pass' = p /\ due' = Queued

\* updateStatus; a status that has not changed is not written.
updateStatus(p) ==
    LET report == IF p.outstanding = -1 THEN p.report ELSE [p.report EXCEPT !.claims = p.outstanding]
        write == report # p.pol.status
    IN  /\ IF write /\ p.fresh THEN WriteFromPass([policy EXCEPT !.status = report]) ELSE NoWrite
        /\ Ends(p.again \/ (write /\ ~p.fresh))

ToStatus(p) ==
    [stage |-> "status", pol |-> p.pol, fresh |-> p.fresh, report |-> p.report,
     outstanding |-> p.outstanding, again |-> p.again]

\* The claims could not be reconciled, and their number is not reported.
ClaimError(p) == [p EXCEPT !.outstanding = -1]

----------------------------------------------------------------------------
(* A pass: the claims *)

claimReadyToRotate(p, c) == c.cluster # 0 /\ c.cluster \in p.matched

\* The cached claims, p.claims, fall into those on their way out, those that
\* are kept, and those to withdraw.
Leaving(p) == {i \in Selector : p.claims[i].phase = "terminating"}
Kept(p) == {i \in Selector : /\ Live(p.claims[i]) /\ p.want = i
                             /\ p.claims[i].terms = p.terms /\ ~claimReadyToRotate(p, p.claims[i])}
Withdrawn(p) == {i \in Selector : Live(p.claims[i])} \ Kept(p)

\* refreshClaimFreshness is best effort: a claim that has changed is left alone.
Stale(p, i) == claim[i] = p.claims[i] /\ claim[i].recent < p.recent

\* Mutant: the claims are counted in the cached list only.
countUnseenClaimsNone(p) == 0

\* Claims that exist and that the cached list did not have.
countUnseenClaims(p) ==
    Cardinality({i \in Selector : Exists(claim[i]) /\ ~(Exists(p.claims[i]) /\ p.claims[i].uid = claim[i].uid)})

newClaim(p) ==
    [phase |-> "live", uid |-> claim[p.want].uid + 1, terms |-> p.terms, cluster |-> 0, recent |-> p.recent]

\* One claim at a time, the unseen ones counted.
CreateClaim(p) ==
    IF p.outstanding + countUnseenClaims(p) >= 1
    THEN updateStatus([p EXCEPT !.outstanding = @ + countUnseenClaims(p)]) /\ UNCHANGED claim
    ELSE /\ claim' = [claim EXCEPT ![p.want] = newClaim(p)]
         /\ NoWrite /\ Goes(ToStatus([p EXCEPT !.outstanding = @ + 1]))

\* ensureFinalizer, from the copy of the pass.
AddFinalizer(p, stage) ==
    IF p.fresh
    THEN WriteFromPass([policy EXCEPT !.fin = TRUE]) /\ Goes([p EXCEPT !.pol.fin = TRUE, !.stage = stage])
    ELSE updateStatus(ClaimError(p))

AddClaim(p) == IF p.pol.fin THEN CreateClaim(p) ELSE AddFinalizer(p, "create") /\ UNCHANGED claim

\* releaseFinalizerIfNoClaims looks at the API server, not at the cache.
ReleaseFinalizer(p) ==
    /\ CASE ~p.pol.fin \/ (\E i \in Selector : Exists(claim[i])) -> updateStatus(p)
         [] p.pol.fin /\ (\A i \in Selector : ~Exists(claim[i])) /\ p.fresh ->
              WriteFromPass([policy EXCEPT !.fin = FALSE]) /\ Goes(ToStatus([p EXCEPT !.pol.fin = FALSE]))
         [] OTHER -> updateStatus(ClaimError(p))
    /\ UNCHANGED claim

\* After the review of the claims p.outstanding are left, and p.want is the
\* one that is missing, if any.
AfterReview(p) ==
    CASE p.want # 0 -> AddClaim(p)
      [] p.want = 0 /\ p.outstanding = 0 -> ReleaseFinalizer(p)
      [] OTHER -> updateStatus(p) /\ UNCHANGED claim

\* The review of the cached claims: the policy has at most one claim, so
\* that the loop over them makes at most one call.
ReviewClaims(p) ==
    LET mistaken == {i \in Withdrawn(p) : Exists(claim[i]) /\ claim[i].uid # p.claims[i].uid}
        deleted == {i \in Withdrawn(p) : Exists(claim[i]) /\ claim[i].uid = p.claims[i].uid}
        refreshed == {i \in Kept(p) : Stale(p, i)}
        after == [p EXCEPT !.want = IF @ \in Leaving(p) \cup Kept(p) THEN 0 ELSE @,
                           !.outstanding = Cardinality(Leaving(p) \cup Kept(p) \cup deleted)]
    IN  CASE mistaken # {} -> updateStatus(ClaimError(p)) /\ UNCHANGED claim
          [] mistaken = {} /\ deleted \cup refreshed # {} ->
               /\ claim' = [i \in Selector |-> CASE i \in deleted -> [claim[i] EXCEPT !.phase = "terminating"]
                                                [] i \in refreshed -> [claim[i] EXCEPT !.recent = p.recent]
                                                [] OTHER -> claim[i]]
               /\ NoWrite /\ Goes([after EXCEPT !.stage = "reviewed"])
          [] OTHER -> AfterReview(after)

\* reconcileClaims up to its first call. A policy that has claims carries the
\* finalizer.
ListClaims(p) ==
    LET q == [p EXCEPT !.stage = "listed", !.claims = claimSeen]
    IN  IF (\E i \in Selector : Exists(claimSeen[i])) /\ ~q.pol.fin
        THEN AddFinalizer(q, "listed") /\ UNCHANGED claim
        ELSE ReviewClaims(q)

----------------------------------------------------------------------------
(* A pass: the bindings *)

holdsBindingManagerRole(pol) == pol.role = "policy"

\* ClaimRoleAs: "held" by another controller, "stale" when the copy is not
\* the latest, else the role is this controller's.
ClaimRoleAs(pol, fresh) ==
    CASE pol.role = "rollout" -> "held"
      [] ~fresh -> "stale"
      [] OTHER -> "claimed"

\* The bindings are done with, or given up.
ToClaims(p) ==
    [p EXCEPT !.stage = "claims", !.base = <<>>, !.plan = <<>>, !.create = {}, !.update = {}, !.delete = {}]

\* RelinquishRoleFor: a stale copy leaves the role where it is.
RelinquishRoleFor(p, q) ==
    IF p.fresh
    THEN WriteFromPass([policy EXCEPT !.role = "none"]) /\ Goes([q EXCEPT !.pol.role = "none"])
    ELSE NoWrite /\ Goes(q)

Begun(pol, snapshot, outcomes, choice, plan) ==
    LET want == desiredClaims(outcomes)
    IN  [stage |-> "bindings", pol |-> pol, fresh |-> seenFresh, plan |-> plan, base |-> bindingSeen,
         create |-> IF snapshot = "ok" THEN ToCreate(pol, plan) ELSE {},
         update |-> ToUpdate(pol, plan), delete |-> ToDelete(pol, plan),
         want |-> want,
         terms |-> IF want = 0 THEN 0 ELSE outcomes[want].terms,
         matched |-> IF want = 0 THEN {} ELSE outcomes[want].matched,
         recent |-> mostRecentClusterCreation,
         report |-> Report(pol, outcomes, choice, plan, snapshot),
         claims |-> <<>>, outstanding |-> 0, again |-> TRUE]

\* A live policy with valid selectors: up to the first call. A pass that may
\* not touch the bindings goes on to the claims.
BeginPlacing(snapshot) ==
    /\ Live(seen) /\ ~InvalidSelectors(seen.spec.selectors)
    /\ snapshot # "ok" => surprises > 0
    /\ surprises' = IF snapshot = "ok" THEN surprises ELSE surprises - 1
    /\ \E outcomes \in {Outcomes(seen)} : \E choice \in {Choice(seen, outcomes)} :
       \E p \in {Begun(seen, snapshot, outcomes, choice, PlanFrom(outcomes, choice))} :
          LET idle == p.create \cup p.update \cup p.delete = {}
          IN  CASE idle /\ holdsBindingManagerRole(p.pol) ->
                     RelinquishRoleFor(p, ToClaims(p)) /\ UNCHANGED claim
                [] ~idle /\ ClaimRoleAs(p.pol, p.fresh) = "claimed" ->
                     /\ IF holdsBindingManagerRole(p.pol) THEN NoWrite
                        ELSE WriteFromPass([policy EXCEPT !.role = "policy"])
                     /\ Goes([p EXCEPT !.pol.role = "policy"]) /\ UNCHANGED claim
                [] OTHER -> ListClaims(ToClaims(p))

\* Invalid selectors: the role is given back and the status says so.
BeginInvalid ==
    LET p == [stage |-> "status", pol |-> seen, fresh |-> seenFresh, report |-> invalidSelectorsReport(seen),
              outstanding |-> -1, again |-> FALSE]
    IN  /\ Live(seen) /\ InvalidSelectors(seen.spec.selectors)
        /\ CASE holdsBindingManagerRole(seen) /\ seenFresh -> RelinquishRoleFor(p, p)
             [] holdsBindingManagerRole(seen) /\ ~seenFresh -> NoWrite /\ Ends(TRUE)
             [] OTHER -> updateStatus(p)
        /\ UNCHANGED <<claim, surprises>>

\* Mutant: the claims are read from the cache.
BeginDeletedCached ==
    LET unclaimed == \A i \in Selector : ~Exists(claimSeen[i])
    IN  /\ seen.phase = "terminating" /\ seen.fin
        /\ claim' = [i \in Selector |-> IF Live(claim[i]) THEN [claim[i] EXCEPT !.phase = "terminating"] ELSE claim[i]]
        /\ IF unclaimed /\ seenFresh THEN WriteFromPass(NoPolicy(policy.uid)) ELSE NoWrite
        /\ Ends(unclaimed /\ ~seenFresh)
        /\ UNCHANGED surprises

\* A policy that is being deleted: cleanupClaims reads the claims from the
\* API server, withdraws them, and releases the finalizer when none is left.
BeginDeleted ==
    LET unclaimed == \A i \in Selector : ~Exists(claim[i])
    IN  /\ seen.phase = "terminating" /\ seen.fin
        /\ claim' = [i \in Selector |-> IF Live(claim[i]) THEN [claim[i] EXCEPT !.phase = "terminating"] ELSE claim[i]]
        /\ IF unclaimed /\ seenFresh THEN WriteFromPass(NoPolicy(policy.uid)) ELSE NoWrite
        /\ Ends(unclaimed /\ ~seenFresh)
        /\ UNCHANGED surprises

BeginGone ==
    /\ ~Live(seen) /\ (Exists(seen) => ~seen.fin)
    /\ NoWrite /\ Ends(FALSE) /\ UNCHANGED <<claim, surprises>>

\* The request is taken off the queue and worked on.
Take(step) == pass.stage = "idle" /\ due = "now" /\ step

newBinding(c) ==
    [phase |-> "live", born |-> 1 + Max({binding[d].born : d \in Cluster}), owner |-> pass.pol.uid,
     terms |-> pass.plan[c], strategy |-> pass.pol.spec.strategy, sync |-> "syncing"]

\* The binding that already has the name: one without a controller is
\* adopted, any other is left alone (and reported, or waited for).
adoptOrReportBindingOccupant(c) ==
    IF Live(binding[c]) /\ binding[c].owner = 0
    THEN [newBinding(c) EXCEPT !.born = binding[c].born] ELSE binding[c]

CreateBinding(c) ==
    /\ pass.stage = "bindings" /\ pass.create # {} /\ c = Min(pass.create)
    /\ binding' = [binding EXCEPT ![c] = IF Exists(@) THEN adoptOrReportBindingOccupant(c) ELSE newBinding(c)]
    /\ pass' = [pass EXCEPT !.create = @ \ {c}]
    /\ UNCHANGED <<policy, claim, caches, fleet, resources, due, surprises>>

\* The update is refused when the binding has changed since it was listed,
\* and the pass gives up on the bindings with the role in its hands.
UpdateBinding(c) ==
    /\ pass.stage = "bindings" /\ pass.create = {} /\ c \in pass.update
    /\ IF binding[c] = pass.base[c]
       THEN /\ binding' = [binding EXCEPT ![c].terms = pass.plan[c], ![c].strategy = pass.pol.spec.strategy,
                                          ![c].sync = IF @ = "outdated" THEN @ ELSE "syncing"]
            /\ pass' = [pass EXCEPT !.update = @ \ {c}]
       ELSE UNCHANGED binding /\ pass' = ToClaims(pass)
    /\ UNCHANGED <<policy, claim, caches, fleet, resources, due, surprises>>

\* The deletion is for this very binding.
DeleteBinding(c) ==
    /\ pass.stage = "bindings" /\ pass.create \cup pass.update = {} /\ c \in pass.delete
    /\ IF Exists(binding[c]) /\ binding[c].born # pass.base[c].born
       THEN UNCHANGED binding /\ pass' = ToClaims(pass)
       ELSE /\ binding' = [binding EXCEPT ![c].phase = IF Live(binding[c]) THEN "terminating" ELSE @]
            /\ pass' = [pass EXCEPT !.delete = @ \ {c}]
    /\ UNCHANGED <<policy, claim, caches, fleet, resources, due, surprises>>

FinishBindings ==
    /\ pass.stage = "bindings" /\ pass.create \cup pass.update \cup pass.delete = {}
    /\ RelinquishRoleFor(pass, ToClaims(pass))
    /\ UNCHANGED <<binding, claim, bindingSeen, claimSeen, fleet, resources, surprises>>

----------------------------------------------------------------------------
(* A pass as a whole *)

Others == UNCHANGED <<binding, bindingSeen, claimSeen, fleet, resources>>

Reconcile ==
    /\ \/ \E snapshot \in {"ok", "invalid", "error"} : Take(BeginPlacing(snapshot))
       \/ Take(BeginInvalid)
       \/ Take(BeginDeleted)
       \/ Take(BeginGone)
    /\ Others

GoOn ==
    /\ CASE pass.stage = "claims" -> ListClaims(pass)
         [] pass.stage = "listed" -> ReviewClaims(pass)
         [] pass.stage = "reviewed" -> AfterReview(pass)
         [] pass.stage = "create" -> CreateClaim(pass)
         [] pass.stage = "status" -> updateStatus(pass) /\ UNCHANGED claim
         [] OTHER -> FALSE
    /\ UNCHANGED surprises /\ Others

\* An API call of the pass fails: the bindings are given up with the role
\* held, the claims with their count unknown, and the pass is run again.
CallFails ==
    /\ pass.stage # "idle" /\ surprises > 0
    /\ surprises' = surprises - 1
    /\ CASE pass.stage = "bindings" -> Goes(ToClaims(pass))
         [] pass.stage = "status" -> Ends(TRUE)
         [] OTHER -> Goes(ToStatus(ClaimError(pass)))
    /\ UNCHANGED <<objects, caches, fleet, resources>>

\* The requeue after a while.
Requeue ==
    /\ due = "later" /\ due' = "now"
    /\ UNCHANGED <<objects, caches, fleet, resources, pass, surprises>>

----------------------------------------------------------------------------
(* The informers *)

\* A step that touches nothing which the rest of the pass reads or writes has
\* the same effect after the pass, and is taken then: BetweenPasses for what
\* is read when a pass begins, the two others for what is read or written by
\* one half of it.
BetweenPasses == pass.stage = "idle"
BesideClaims == pass.stage \in {"idle", "bindings"}
BesideBindings == pass.stage # "bindings"

\* Each informer delivers its objects in the order of their changes.
DeliverBindings ==
    /\ BetweenPasses
    /\ bindingSeen # binding
    /\ bindingSeen' = binding
    /\ due' = "now"
    /\ UNCHANGED <<objects, seen, seenFresh, claimSeen, fleet, resources, pass, surprises>>

DeliverClaims ==
    /\ pass.stage \in {"idle", "claims"}
    /\ claimSeen # claim
    /\ claimSeen' = claim
    /\ due' = "now"
    /\ UNCHANGED <<objects, seen, seenFresh, bindingSeen, fleet, resources, pass, surprises>>

----------------------------------------------------------------------------
(* The others *)

\* The garbage collector deletes the bindings of a policy that is gone.
CollectBinding(c) ==
    /\ BesideClaims
    /\ Live(binding[c]) /\ binding[c].owner # 0
    /\ Exists(policy) => binding[c].owner # policy.uid
    /\ binding' = [binding EXCEPT ![c].phase = "terminating"]
    /\ UNCHANGED <<policy, claim, caches, fleet, resources, due, pass, surprises>>

\* The work generator applies the resources, and lets a deleted binding go
\* when it has removed them.
WorkGenerator(c) ==
    /\ BesideClaims
    /\ binding' = [binding EXCEPT ![c] = IF Live(@) THEN [@ EXCEPT !.sync = "available"] ELSE NoBinding(@.born)]
    /\ binding[c].phase = "terminating" \/ (Live(binding[c]) /\ binding[c].sync = "syncing")
    /\ UNCHANGED <<policy, claim, caches, fleet, resources, due, pass, surprises>>

\* The provisioner makes a cluster for a claim, and lets a withdrawn claim go.
Provision(i) ==
    LET free == {c \in Cluster : ~IsListed(fleet[c])}
    IN  /\ BesideBindings
        /\ Live(claim[i]) /\ claim[i].cluster = 0 /\ free # {}
        /\ fleet' = [fleet EXCEPT ![Min(free)] = [NewProfile[claim[i].terms] EXCEPT !.state = "down"]]
        /\ claim' = [claim EXCEPT ![i].cluster = Min(free)]
        /\ due' = "now"
        /\ UNCHANGED <<policy, binding, caches, resources, pass, surprises>>

LetClaimGo(i) ==
    /\ BesideBindings
    /\ claim[i].phase = "terminating"
    /\ claim' = [claim EXCEPT ![i] = NoClaim(@.uid)]
    /\ UNCHANGED <<policy, binding, caches, fleet, resources, due, pass, surprises>>

\* A cluster comes up, or leaves for good.
ClusterSettles(c) ==
    /\ BetweenPasses
    /\ fleet[c].state \in {"down", "leaving"}
    /\ fleet' = [fleet EXCEPT ![c].state = IF @ = "down" THEN "up" ELSE "absent"]
    /\ due' = "now"
    /\ UNCHANGED <<objects, caches, resources, pass, surprises>>

Surprise == surprises > 0 /\ surprises' = surprises - 1

\* A cluster goes down, changes its labels, properties or taints, or is told
\* to leave.
ClusterChanges(c) ==
    /\ BetweenPasses
    /\ Surprise
    /\ \E profile \in Changes \ {fleet[c]} :
         /\ IsListed(fleet[c]) /\ ~IsLeaving(fleet[c])
         /\ fleet' = [fleet EXCEPT ![c] = profile]
    /\ due' = "now"
    /\ UNCHANGED <<objects, caches, resources, pass>>

ResourcesChange ==
    /\ BetweenPasses
    /\ Surprise
    /\ resources = "current" /\ resources' = "changed"
    /\ due' = "now"
    /\ UNCHANGED <<objects, caches, fleet, pass>>

\* A rollout takes the role and makes a revision of the resources; when it
\* has moved the bindings to it, it gives the role back.
RolloutBegins ==
    /\ Surprise
    /\ Live(policy) /\ policy.role = "none"
    /\ WritePolicy([policy EXCEPT !.role = "rollout"])
    /\ resources' = "current"
    /\ binding' = [c \in Cluster |-> IF Live(binding[c]) /\ binding[c].sync = "available"
                                     THEN [binding[c] EXCEPT !.sync = "outdated"] ELSE binding[c]]
    /\ UNCHANGED <<claim, bindingSeen, claimSeen, fleet, due>>

RolloutEnds ==
    /\ policy.role = "rollout"
    /\ WritePolicy([policy EXCEPT !.role = "none"])
    /\ binding' = [c \in Cluster |-> IF binding[c].sync = "outdated" THEN [binding[c] EXCEPT !.sync = "syncing"]
                                     ELSE binding[c]]
    /\ UNCHANGED <<claim, bindingSeen, claimSeen, fleet, resources, due, surprises>>

\* The policy and the queue are AnnotationV1's.
Init ==
    /\ seenFresh = TRUE
    /\ binding = [c \in Cluster |-> NoBinding(0)] /\ bindingSeen = binding
    /\ claim = [i \in Selector |-> NoClaim(0)] /\ claimSeen = claim
    /\ fleet = InitFleet
    /\ resources = "current"
    /\ pass = Idle
    /\ surprises = MaxSurprises

PassStep ==
    \/ Reconcile
    \/ \E c \in Cluster : CreateBinding(c) \/ UpdateBinding(c) \/ DeleteBinding(c)
    \/ FinishBindings
    \/ GoOn

Surroundings ==
    \/ \E c \in Cluster : CollectBinding(c) \/ WorkGenerator(c) \/ ClusterSettles(c)
    \/ \E i \in Selector : Provision(i) \/ LetClaimGo(i)
    \/ RolloutEnds

Deliveries == DeliverBindings \/ DeliverClaims \/ Requeue

Surprises ==
    \/ CallFails
    \/ \E c \in Cluster : ClusterChanges(c)
    \/ ResourcesChange
    \/ RolloutBegins
============================================================================
