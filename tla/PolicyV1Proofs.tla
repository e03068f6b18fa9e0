--------------------------- MODULE PolicyV1Proofs ---------------------------
(***************************************************************************)
(* A placement policy of the v1 stack has at most one claim at a time,     *)
(* for any number of selectors and clusters, any annotations and any       *)
(* number of edits, errors, restarts and other surprises.                  *)
(***************************************************************************)
EXTENDS AnnotationV1, FiniteSetTheorems, TLAPS

\* Zenon proves what is not arithmetic; SMT is cited for the rest.
USE ZenonT(30)

----------------------------------------------------------------------------
(* The inductive invariant.                                                *)

OneClaim(claims) ==
    \A i, j \in Selector : Exists(claims[i]) /\ Exists(claims[j]) => i = j

\* What a claim may be like; a claim for each selector.
Phased(c) == "phase" \in DOMAIN c /\ c.phase \in {"none", "live", "terminating"}
AllPhased(claims) == \A i \in Selector : Phased(claims[i])
BySelector(claims) == claims = [i \in Selector |-> claims[i]] /\ AllPhased(claims)

\* The fields of a pass that the claims depend on.
Fields == {"stage", "pol", "fresh", "want", "claims", "outstanding"}

\* No claim of the list that the pass has read is left.
ListIsGone(p, claims) ==
    p.outstanding = 0 => \A i \in Selector : Exists(p.claims[i]) => ~Exists(claims[i])

\* The count of a pass that has reviewed its list is that of the claims of the
\* list that still exist: with a count of 0 none of them does, and none comes
\* back, because only a pass makes claims.
Reviewed(p, claims) == p.outstanding \in Nat /\ ListIsGone(p, claims)

PassOK(p, claims) ==
    /\ "stage" \in DOMAIN p
    /\ p.stage \in {"bindings", "claims", "listed", "reviewed", "create"} => Fields \subseteq DOMAIN p
    /\ p.stage = "listed" => AllPhased(p.claims)
    /\ p.stage \in {"reviewed", "create"} => Reviewed(p, claims)

ClaimInvariant ==
    /\ BySelector(claim) /\ OneClaim(claim)
    /\ AllPhased(claimSeen) /\ OneClaim(claimSeen)
    /\ PassOK(pass, claim)

\* What a step makes of the claims and of the pass.
ClaimsKept == BySelector(claim') /\ OneClaim(claim') /\ PassOK(pass', claim')

----------------------------------------------------------------------------
(* Facts about the definitions.                                            *)

\* There are finitely many selectors, and a set of them has a size.
LEMMA SelectorsFinite ==
    ASSUME NEW S, S \subseteq Selector
    PROVE  IsFiniteSet(S) /\ Cardinality(S) \in Nat /\ (Cardinality(S) = 0 <=> S = {})
<1>1. MaxSelectors \in Int
  BY SMT, PolicyAssumption
<1>2. IsFiniteSet(Selector)
  BY SMT, <1>1, FS_Interval DEF Selector
<1> QED BY <1>2, FS_Subset, FS_CardinalityType, FS_EmptySet

\* OneClaim is the budget of ClaimBudget.
LEMMA OneClaimIsBudget ==
    ASSUME OneClaim(claim)
    PROVE  ClaimBudget
<1> DEFINE S == {i \in Selector : Exists(claim[i])}
<1>1. CASE S = {}
  <2>1. Cardinality(S) = 0
    BY <1>1, FS_EmptySet
  <2> QED BY SMT, <2>1 DEF ClaimBudget
<1>2. CASE S # {}
  <2>1. PICK i \in S : TRUE
    BY <1>2
  <2>2. S = {i}
    BY <2>1 DEF OneClaim
  <2>3. Cardinality(S) = 1
    BY <2>2, FS_Singleton
  <2> QED BY SMT, <2>3 DEF ClaimBudget
<1> QED BY <1>1, <1>2

\* A pass that is over, or goes on to the report, has nothing to do with claims.
LEMMA IdleOK ==
    ASSUME NEW claims
    PROVE  PassOK(Idle, claims)
BY DEF PassOK, Idle

\* The same for the report.
LEMMA ToStatusOK ==
    ASSUME NEW p, NEW claims
    PROVE  PassOK(ToStatus(p), claims)
BY DEF PassOK, ToStatus

\* What a pass knows stays true when claims go.
LEMMA FewerClaims ==
    ASSUME NEW p, NEW claims, NEW fewer, PassOK(p, claims),
           \A i \in Selector : Exists(fewer[i]) => Exists(claims[i])
    PROVE  PassOK(p, fewer)
BY DEF PassOK, Reviewed, ListIsGone

\* The report ends the pass.
LEMMA updateStatusEnds ==
    ASSUME NEW p, updateStatus(p)
    PROVE  pass' = Idle
BY DEF updateStatus, Ends

----------------------------------------------------------------------------
(* The steps of a pass.                                                    *)

\* A claim is made only when there is none.
LEMMA CreateClaimOK ==
    ASSUME NEW p, ClaimInvariant, Reviewed(p, claim), CreateClaim(p)
    PROVE  ClaimsKept
<1> DEFINE unseen == {i \in Selector : Exists(claim[i]) /\ ~(Exists(p.claims[i]) /\ p.claims[i].uid = claim[i].uid)}
<1>1. Cardinality(unseen) \in Nat /\ (Cardinality(unseen) = 0 <=> unseen = {})
  BY SelectorsFinite
<1>2. countUnseenClaims(p) = Cardinality(unseen)
  BY DEF countUnseenClaims
<1>3. CASE p.outstanding + countUnseenClaims(p) >= 1
  <2>1. updateStatus([p EXCEPT !.outstanding = @ + countUnseenClaims(p)]) /\ UNCHANGED claim
    BY <1>3 DEF CreateClaim
  <2>2. pass' = Idle
    BY <2>1, updateStatusEnds
  <2> QED BY <2>1, <2>2, IdleOK DEF ClaimsKept, ClaimInvariant
<1>4. CASE ~(p.outstanding + countUnseenClaims(p) >= 1)
  <2>1. claim' = [claim EXCEPT ![p.want] = newClaim(p)]
    BY <1>4 DEF CreateClaim
  <2>2. pass' = ToStatus([p EXCEPT !.outstanding = @ + 1])
    BY <1>4 DEF CreateClaim, Goes
  <2>3. p.outstanding = 0 /\ Cardinality(unseen) = 0
    BY SMT, <1>1, <1>2, <1>4 DEF Reviewed
  <2>4. \A i \in Selector : ~Exists(claim[i])
    BY <1>1, <2>3 DEF Reviewed, ListIsGone
  <2>5. /\ claim' = [i \in Selector |-> claim'[i]]
        /\ \A i \in Selector : claim'[i] = IF i = p.want THEN newClaim(p) ELSE claim[i]
    BY <2>1 DEF ClaimInvariant, BySelector
  <2>6. OneClaim(claim')
    BY <2>4, <2>5 DEF OneClaim
  <2>7. Phased(newClaim(p))
    BY DEF Phased, newClaim
  <2>8. BySelector(claim')
    BY <2>5, <2>7 DEF ClaimInvariant, BySelector, AllPhased
  <2> QED BY <2>2, <2>6, <2>8, ToStatusOK DEF ClaimsKept
<1> QED BY <1>3, <1>4

\* The finalizer is put on, or the pass is over.
LEMMA AddFinalizerOK ==
    ASSUME NEW p, NEW stage, ClaimInvariant, Fields \subseteq DOMAIN p,
           (stage = "listed" /\ AllPhased(p.claims)) \/ (stage = "create" /\ Reviewed(p, claim)),
           AddFinalizer(p, stage), UNCHANGED claim
    PROVE  ClaimsKept
<1> DEFINE q == [p EXCEPT !.pol.fin = TRUE, !.stage = stage]
<1>1. CASE ~p.fresh
  BY <1>1, updateStatusEnds, IdleOK DEF AddFinalizer, ClaimsKept, ClaimInvariant
<1>2. CASE p.fresh
  <2>1. pass' = q
    BY <1>2 DEF AddFinalizer, Goes
  <2>2. /\ DOMAIN q = DOMAIN p /\ q.stage = stage
        /\ q.outstanding = p.outstanding /\ q.claims = p.claims
    BY DEF Fields
  <2>3. PassOK(q, claim)
    BY <2>2 DEF PassOK, Reviewed, ListIsGone, Fields
  <2> QED BY <2>1, <2>3 DEF ClaimsKept, ClaimInvariant
<1> QED BY <1>1, <1>2

\* What follows the review.
LEMMA AfterReviewOK ==
    ASSUME NEW p, ClaimInvariant, Fields \subseteq DOMAIN p, Reviewed(p, claim), AfterReview(p)
    PROVE  ClaimsKept
<1>1. CASE p.want # 0
  <2>1. AddClaim(p)
    BY <1>1 DEF AfterReview
  <2> QED BY <2>1, CreateClaimOK, AddFinalizerOK DEF AddClaim
<1>2. CASE p.want = 0 /\ p.outstanding = 0
  <2>1. ReleaseFinalizer(p)
    BY <1>2 DEF AfterReview
  <2>2. UNCHANGED claim
    BY <2>1 DEF ReleaseFinalizer
  <2>3. \/ updateStatus(p)
        \/ pass' = ToStatus([p EXCEPT !.pol.fin = FALSE])
        \/ updateStatus(ClaimError(p))
    BY <2>1 DEF ReleaseFinalizer, Goes
  <2> QED BY <2>2, <2>3, updateStatusEnds, IdleOK, ToStatusOK DEF ClaimsKept, ClaimInvariant
<1>3. CASE p.want = 0 /\ p.outstanding # 0
  <2>1. updateStatus(p) /\ UNCHANGED claim
    BY <1>3 DEF AfterReview
  <2> QED BY <2>1, updateStatusEnds, IdleOK DEF ClaimsKept, ClaimInvariant
<1> QED BY <1>1, <1>2, <1>3

\* A review withdraws claims and makes none, and counts those that are left.
LEMMA ReviewClaimsOK ==
    ASSUME NEW p, ClaimInvariant, Fields \subseteq DOMAIN p, AllPhased(p.claims), ReviewClaims(p)
    PROVE  ClaimsKept
<1> DEFINE mistaken == {i \in Withdrawn(p) : Exists(claim[i]) /\ claim[i].uid # p.claims[i].uid}
           deleted == {i \in Withdrawn(p) : Exists(claim[i]) /\ claim[i].uid = p.claims[i].uid}
           refreshed == {i \in Kept(p) : Stale(p, i)}
           want == IF p.want \in Leaving(p) \cup Kept(p) THEN 0 ELSE p.want
           count == Cardinality(Leaving(p) \cup Kept(p) \cup deleted)
           after == [p EXCEPT !.want = want, !.outstanding = count]
           new(i) == CASE i \in deleted -> [claim[i] EXCEPT !.phase = "terminating"]
                       [] i \in refreshed -> [claim[i] EXCEPT !.recent = p.recent]
                       [] OTHER -> claim[i]
           left == [i \in Selector |-> new(i)]
<1>1. \/ updateStatus(ClaimError(p)) /\ UNCHANGED claim
      \/ /\ mistaken = {} /\ deleted \cup refreshed # {}
         /\ claim' = left /\ pass' = [after EXCEPT !.stage = "reviewed"]
      \/ mistaken = {} /\ AfterReview(after)
  BY DEF ReviewClaims, Goes
<1>2. Withdrawn(p) \subseteq Selector /\ Kept(p) \subseteq Selector /\ Leaving(p) \subseteq Selector
  BY DEF Withdrawn, Kept, Leaving
<1>3. count \in Nat /\ (count = 0 <=> Leaving(p) \cup Kept(p) \cup deleted = {})
  BY <1>2, SelectorsFinite
<1>4. DOMAIN after = DOMAIN p /\ after.outstanding = count /\ after.claims = p.claims
  BY DEF Fields
<1>5. ASSUME mistaken = {}
      PROVE  Reviewed(after, claim)
  <2>1. ASSUME count = 0, NEW i \in Selector, Exists(p.claims[i]), Exists(claim[i])
        PROVE  FALSE
    <3>1. i \notin Leaving(p) /\ i \notin Kept(p) /\ i \notin deleted /\ i \notin mistaken
      BY <1>3, <1>5, <2>1
    <3>2. CASE Live(p.claims[i])
      BY <2>1, <3>1, <3>2 DEF Withdrawn
    <3>3. CASE p.claims[i].phase = "terminating"
      BY <3>1, <3>3 DEF Leaving
    <3> QED BY <2>1, <3>2, <3>3 DEF AllPhased, Phased, Exists, Live
  <2> QED BY <1>3, <1>4, <2>1 DEF Reviewed, ListIsGone
<1>6. CASE updateStatus(ClaimError(p)) /\ UNCHANGED claim
  BY <1>6, updateStatusEnds, IdleOK DEF ClaimsKept, ClaimInvariant
<1>7. CASE mistaken = {} /\ AfterReview(after)
  BY <1>4, <1>5, <1>7, AfterReviewOK
<1>8. CASE /\ mistaken = {} /\ deleted \cup refreshed # {}
           /\ claim' = left /\ pass' = [after EXCEPT !.stage = "reviewed"]
  <2>1. \A i \in deleted \cup refreshed : Exists(claim[i])
    BY DEF Kept, Stale, Live, Exists
  <2>2. ASSUME NEW i \in Selector
        PROVE  Phased(left[i]) /\ (i \notin deleted \cup refreshed => left[i] = claim[i])
    <3>0. left[i] = new(i) /\ ~(i \in deleted /\ i \in refreshed)
      <4>1. ~(i \in deleted /\ i \in refreshed)
        BY DEF Withdrawn
      <4> HIDE DEF new
      <4> QED BY <4>1
    <3> HIDE DEF deleted, refreshed, left
    <3>1. Phased(claim[i])
      BY DEF ClaimInvariant, BySelector, AllPhased
    <3>2. CASE i \in deleted
      <4>1. left[i] = [claim[i] EXCEPT !.phase = "terminating"]
        BY <3>0, <3>2
      <4> QED BY <3>1, <3>2, <4>1 DEF Phased
    <3>3. CASE i \notin deleted /\ i \in refreshed
      <4>1. left[i] = [claim[i] EXCEPT !.recent = p.recent]
        BY <3>0, <3>3
      <4> QED BY <3>1, <3>3, <4>1 DEF Phased
    <3>4. CASE i \notin deleted /\ i \notin refreshed
      <4>1. left[i] = claim[i]
        BY <3>0, <3>4
      <4> QED BY <3>1, <4>1
    <3> QED BY <3>2, <3>3, <3>4
  <2>3. \A i \in Selector : Exists(left[i]) => Exists(claim[i])
    BY <2>1, <2>2
  <2> HIDE DEF deleted, refreshed, new
  <2>4. BySelector(claim') /\ OneClaim(claim')
    <3>1. claim' = [i \in Selector |-> claim'[i]]
      BY <1>8
    <3> QED BY <1>8, <2>2, <2>3, <3>1 DEF ClaimInvariant, BySelector, AllPhased, OneClaim
  <2> DEFINE q == [after EXCEPT !.stage = "reviewed"]
  <2> HIDE DEF after
  <2>5. DOMAIN q = DOMAIN p /\ q.stage = "reviewed" /\ q.outstanding = after.outstanding /\ q.claims = after.claims
    BY <1>4 DEF Fields
  <2>6. PassOK(q, claim)
    BY <1>5, <1>8, <2>5 DEF PassOK, Reviewed, ListIsGone, Fields
  <2>7. PassOK(q, claim')
    BY <1>8, <2>3, <2>6, FewerClaims
  <2> QED BY <1>8, <2>4, <2>7 DEF ClaimsKept
<1> QED BY <1>1, <1>6, <1>7, <1>8

\* The list is read from the cache and reviewed.
LEMMA ListClaimsOK ==
    ASSUME NEW p, ClaimInvariant, Fields \subseteq DOMAIN p, ListClaims(p)
    PROVE  ClaimsKept
<1> DEFINE q == [p EXCEPT !.stage = "listed", !.claims = claimSeen]
<1>1. Fields \subseteq DOMAIN q /\ q.claims = claimSeen
  BY DEF Fields
<1>2. (AddFinalizer(q, "listed") /\ UNCHANGED claim) \/ ReviewClaims(q)
  BY DEF ListClaims
<1> HIDE DEF q
<1> QED BY <1>1, <1>2, AddFinalizerOK, ReviewClaimsOK DEF ClaimInvariant

\* The pass turns to the claims.
LEMMA ToClaimsOK ==
    ASSUME NEW p, NEW claims, Fields \subseteq DOMAIN p
    PROVE  /\ Fields \subseteq DOMAIN ToClaims(p) /\ ToClaims(p).stage = "claims"
           /\ PassOK(ToClaims(p), claims)
<1>1. DOMAIN ToClaims(p) = DOMAIN p /\ ToClaims(p).stage = "claims"
  BY DEF ToClaims, Fields
<1> QED BY <1>1 DEF PassOK, Fields

\* The role is given back, or stays where it is.
LEMMA RelinquishOK ==
    ASSUME NEW p, NEW q, NEW claims, PassOK(q, claims), q.stage \notin {"listed", "reviewed", "create"},
           RelinquishRoleFor(p, q)
    PROVE  PassOK(pass', claims)
<1> DEFINE r == [q EXCEPT !.pol.role = "none"]
<1>1. pass' = q \/ pass' = r
  BY DEF RelinquishRoleFor, Goes
<1>2. DOMAIN r = DOMAIN q /\ r.stage = q.stage
  BY DEF PassOK
<1>3. PassOK(r, claims)
  BY <1>2 DEF PassOK
<1> QED BY <1>1, <1>3

\* What a new pass holds.
LEMMA BegunFields ==
    ASSUME NEW pol, NEW snapshot, NEW outcomes, NEW choice, NEW plan
    PROVE  /\ Fields \subseteq DOMAIN Begun(pol, snapshot, outcomes, choice, plan)
           /\ Begun(pol, snapshot, outcomes, choice, plan).stage = "bindings"
BY SMTT(60) DEF Begun, Fields

\* The start of a pass for a live policy.
LEMMA BeginPlacingOK ==
    ASSUME NEW snapshot, ClaimInvariant, BeginPlacing(snapshot)
    PROVE  ClaimsKept
<1>1. PICK outcomes \in {Outcomes(seen)} : \E choice \in {Choice(seen, outcomes)} :
      \E p \in {Begun(seen, snapshot, outcomes, choice, PlanFrom(outcomes, choice))} :
          LET idle == p.create \cup p.update \cup p.delete = {}
          IN  CASE idle /\ holdsBindingManagerRole(p.pol) ->
                     RelinquishRoleFor(p, ToClaims(p)) /\ UNCHANGED claim
                [] ~idle /\ ClaimRoleAs(p.pol, p.fresh) = "claimed" ->
                     /\ IF holdsBindingManagerRole(p.pol) THEN NoWrite
                        ELSE WriteFromPass([policy EXCEPT !.role = "policy"])
                     /\ Goes([p EXCEPT !.pol.role = "policy"]) /\ UNCHANGED claim
                [] OTHER -> ListClaims(ToClaims(p))
  BY DEF BeginPlacing
<1>2. PICK choice \in {Choice(seen, outcomes)} :
      \E p \in {Begun(seen, snapshot, outcomes, choice, PlanFrom(outcomes, choice))} :
          LET idle == p.create \cup p.update \cup p.delete = {}
          IN  CASE idle /\ holdsBindingManagerRole(p.pol) ->
                     RelinquishRoleFor(p, ToClaims(p)) /\ UNCHANGED claim
                [] ~idle /\ ClaimRoleAs(p.pol, p.fresh) = "claimed" ->
                     /\ IF holdsBindingManagerRole(p.pol) THEN NoWrite
                        ELSE WriteFromPass([policy EXCEPT !.role = "policy"])
                     /\ Goes([p EXCEPT !.pol.role = "policy"]) /\ UNCHANGED claim
                [] OTHER -> ListClaims(ToClaims(p))
  BY <1>1
<1> DEFINE p == Begun(seen, snapshot, outcomes, choice, PlanFrom(outcomes, choice))
           q == [p EXCEPT !.pol.role = "policy"]
<1>3. \/ RelinquishRoleFor(p, ToClaims(p)) /\ UNCHANGED claim
      \/ pass' = q /\ UNCHANGED claim
      \/ ListClaims(ToClaims(p))
  BY <1>2 DEF Goes
<1>4. Fields \subseteq DOMAIN p /\ p.stage = "bindings"
  BY BegunFields
<1> HIDE DEF p
<1>5. Fields \subseteq DOMAIN q /\ q.stage = "bindings"
  BY <1>4 DEF Fields
<1>6. PassOK(q, claim)
  BY <1>5 DEF PassOK, Fields
<1> HIDE DEF q
<1>7. CASE RelinquishRoleFor(p, ToClaims(p)) /\ UNCHANGED claim
  <2>1. PassOK(ToClaims(p), claim) /\ ToClaims(p).stage = "claims"
    BY <1>4, ToClaimsOK
  <2>2. PassOK(pass', claim)
    BY <1>7, <2>1, RelinquishOK
  <2> QED BY <1>7, <2>2 DEF ClaimsKept, ClaimInvariant
<1>8. CASE pass' = q /\ UNCHANGED claim
  BY <1>6, <1>8 DEF ClaimsKept, ClaimInvariant
<1>9. CASE ListClaims(ToClaims(p))
  BY <1>4, <1>9, ToClaimsOK, ListClaimsOK
<1> QED BY <1>3, <1>7, <1>8, <1>9

\* A policy that cannot be evaluated.
LEMMA BeginInvalidOK ==
    ASSUME ClaimInvariant, BeginInvalid
    PROVE  ClaimsKept
<1> DEFINE p == [stage |-> "status", pol |-> seen, fresh |-> seenFresh, report |-> invalidSelectorsReport(seen),
                 outstanding |-> -1, again |-> FALSE]
<1>1. UNCHANGED claim
  BY DEF BeginInvalid
<1>2. RelinquishRoleFor(p, p) \/ pass' = Idle \/ updateStatus(p)
  BY DEF BeginInvalid, Ends
<1>3. PassOK(p, claim) /\ p.stage = "status"
  BY DEF PassOK
<1> HIDE DEF p
<1>4. PassOK(pass', claim)
  BY <1>2, <1>3, RelinquishOK, updateStatusEnds, IdleOK
<1> QED BY <1>1, <1>4 DEF ClaimsKept, ClaimInvariant

\* A policy that is being deleted: its claims are withdrawn.
LEMMA BeginDeletedOK ==
    ASSUME ClaimInvariant, BeginDeleted
    PROVE  ClaimsKept
<1>1. claim' = [i \in Selector |-> IF Live(claim[i]) THEN [claim[i] EXCEPT !.phase = "terminating"] ELSE claim[i]]
  BY DEF BeginDeleted
<1>2. pass' = Idle
  BY DEF BeginDeleted, Ends
<1>3. \A i \in Selector : Live(claim[i]) \/ claim'[i] = claim[i]
  BY <1>1
<1>4. \A i \in Selector : Exists(claim'[i]) => Exists(claim[i])
  BY <1>3 DEF Live, Exists
<1>5. ASSUME NEW i \in Selector PROVE Phased(claim'[i])
  <2>1. Phased(claim[i])
    BY DEF ClaimInvariant, BySelector, AllPhased
  <2>2. CASE Live(claim[i])
    <3>1. claim'[i] = [claim[i] EXCEPT !.phase = "terminating"]
      BY <1>1, <2>2
    <3> QED BY <2>1, <3>1 DEF Phased
  <2> QED BY <1>3, <2>1, <2>2
<1>6. BySelector(claim') /\ OneClaim(claim')
  <2>1. claim' = [i \in Selector |-> claim'[i]]
    BY <1>1
  <2> QED BY <1>4, <1>5, <2>1 DEF ClaimInvariant, BySelector, AllPhased, OneClaim
<1> QED BY <1>2, <1>6, IdleOK DEF ClaimsKept

\* The first step of a pass.
LEMMA ReconcileOK ==
    ASSUME ClaimInvariant, Reconcile
    PROVE  ClaimInvariant'
<1>1. UNCHANGED claimSeen
  BY DEF Reconcile, Others
<1>2. ASSUME BeginGone PROVE ClaimsKept
  BY <1>2, IdleOK DEF BeginGone, Ends, ClaimsKept, ClaimInvariant
<1>3. ClaimsKept
  BY <1>2, BeginPlacingOK, BeginInvalidOK, BeginDeletedOK DEF Reconcile, Take
<1> QED BY <1>1, <1>3 DEF ClaimsKept, ClaimInvariant

\* The steps that touch the bindings.
LEMMA BindingsOK ==
    ASSUME ClaimInvariant,
           (\E c \in Cluster : CreateBinding(c) \/ UpdateBinding(c) \/ DeleteBinding(c)) \/ FinishBindings
    PROVE  ClaimInvariant'
<1>1. pass.stage = "bindings"
  BY DEF CreateBinding, UpdateBinding, DeleteBinding, FinishBindings
<1>2. Fields \subseteq DOMAIN pass
  BY <1>1 DEF ClaimInvariant, PassOK
<1>3. UNCHANGED <<claim, claimSeen>>
  BY DEF CreateBinding, UpdateBinding, DeleteBinding, FinishBindings, caches
<1>4. PassOK(ToClaims(pass), claim) /\ ToClaims(pass).stage = "claims"
  BY <1>2, ToClaimsOK
<1>5. CASE FinishBindings
  <2>1. PassOK(pass', claim)
    BY <1>4, <1>5, RelinquishOK DEF FinishBindings
  <2> QED BY <1>3, <2>1 DEF ClaimInvariant
<1>6. CASE \E c \in Cluster : CreateBinding(c) \/ UpdateBinding(c) \/ DeleteBinding(c)
  <2>1. PICK c \in Cluster : CreateBinding(c) \/ UpdateBinding(c) \/ DeleteBinding(c)
    BY <1>6
  <2>2. \/ pass' = ToClaims(pass)
        \/ pass' = [pass EXCEPT !.create = @ \ {c}]
        \/ pass' = [pass EXCEPT !.update = @ \ {c}]
        \/ pass' = [pass EXCEPT !.delete = @ \ {c}]
    BY <2>1 DEF CreateBinding, UpdateBinding, DeleteBinding
  <2>3. CASE pass' # ToClaims(pass)
    <3>1. DOMAIN pass' = DOMAIN pass /\ pass'.stage = "bindings"
      BY <1>1, <1>2, <2>2, <2>3 DEF Fields
    <3> QED BY <1>2, <1>3, <3>1 DEF ClaimInvariant, PassOK, Fields
  <2> QED BY <1>3, <1>4, <2>3 DEF ClaimInvariant
<1> QED BY <1>5, <1>6

\* The steps that go on with the claims and the report.
LEMMA GoOnOK ==
    ASSUME ClaimInvariant, GoOn
    PROVE  ClaimInvariant'
<1>1. UNCHANGED claimSeen
  BY DEF GoOn, Others
<1>2. CASE pass.stage = "status"
  <2>1. updateStatus(pass) /\ UNCHANGED claim
    BY <1>2 DEF GoOn
  <2> QED BY <1>1, <2>1, updateStatusEnds, IdleOK DEF ClaimInvariant
<1>3. CASE pass.stage # "status"
  <2>1. \/ pass.stage = "claims" /\ ListClaims(pass)
        \/ pass.stage = "listed" /\ ReviewClaims(pass)
        \/ pass.stage = "reviewed" /\ AfterReview(pass)
        \/ pass.stage = "create" /\ CreateClaim(pass)
    BY <1>3 DEF GoOn
  <2>2. /\ Fields \subseteq DOMAIN pass
        /\ pass.stage = "listed" => AllPhased(pass.claims)
        /\ pass.stage \in {"reviewed", "create"} => Reviewed(pass, claim)
    BY <2>1 DEF ClaimInvariant, PassOK
  <2>3. ClaimsKept
    BY <2>1, <2>2, ListClaimsOK, ReviewClaimsOK, AfterReviewOK, CreateClaimOK
  <2> QED BY <1>1, <2>3 DEF ClaimsKept, ClaimInvariant
<1> QED BY <1>2, <1>3

----------------------------------------------------------------------------
(* The steps of the others.                                                *)

\* A write of the policy makes the copy of the pass stale.
LEMMA WritePolicyOK ==
    ASSUME NEW p, ClaimInvariant, WritePolicy(p), UNCHANGED <<claim, claimSeen>>
    PROVE  ClaimInvariant'
<1> DEFINE q == [pass EXCEPT !.fresh = FALSE]
<1>1. pass' = pass \/ pass' = q
  BY DEF WritePolicy
<1>2. DOMAIN q = DOMAIN pass /\ q.stage = pass.stage
  BY DEF ClaimInvariant, PassOK
<1>3. Fields \subseteq DOMAIN pass => q.outstanding = pass.outstanding /\ q.claims = pass.claims
  BY DEF Fields
<1>4. PassOK(q, claim)
  BY <1>2, <1>3 DEF ClaimInvariant, PassOK, Reviewed, ListIsGone
<1> QED BY <1>1, <1>4 DEF ClaimInvariant

\* A claim is served, or goes.
LEMMA ProvisionerOK ==
    ASSUME NEW i \in Selector, ClaimInvariant, Provision(i) \/ LetClaimGo(i)
    PROVE  ClaimInvariant'
<1>1. UNCHANGED <<pass, claimSeen>>
  BY DEF Provision, LetClaimGo, caches
<1>2. Exists(claim[i])
  BY DEF Provision, LetClaimGo, Live, Exists
<1> DEFINE served(c) == [claim[i] EXCEPT !.cluster = c]
<1>3. \/ \E c : claim' = [claim EXCEPT ![i] = served(c)]
      \/ claim' = [claim EXCEPT ![i] = NoClaim(claim[i].uid)]
  BY DEF Provision, LetClaimGo
<1>4. Phased(NoClaim(claim[i].uid)) /\ \A c : Phased(served(c))
  <2>1. Phased(claim[i])
    BY DEF ClaimInvariant, BySelector, AllPhased
  <2> QED BY <2>1 DEF Phased, NoClaim
<1>5. PICK new : claim' = [claim EXCEPT ![i] = new] /\ Phased(new)
  BY <1>3, <1>4
<1>6. BySelector(claim') /\ \A j \in Selector : j # i => claim'[j] = claim[j]
  <2>1. claim = [j \in Selector |-> claim[j]] /\ AllPhased(claim)
    BY DEF ClaimInvariant, BySelector
  <2>2. /\ claim' = [j \in Selector |-> claim'[j]]
        /\ \A j \in Selector : claim'[j] = IF j = i THEN new ELSE claim[j]
    BY <1>5, <2>1
  <2> QED BY <1>5, <2>1, <2>2 DEF BySelector, AllPhased
<1>7. \A j \in Selector : Exists(claim'[j]) => Exists(claim[j])
  BY <1>2, <1>6
<1>8. OneClaim(claim')
  BY <1>7 DEF ClaimInvariant, OneClaim
<1>9. PassOK(pass, claim')
  BY <1>7, FewerClaims DEF ClaimInvariant
<1> QED BY <1>1, <1>6, <1>8, <1>9 DEF ClaimInvariant

\* The garbage collector, the work generator, the clusters and the rollout.
LEMMA SurroundingsOK ==
    ASSUME ClaimInvariant, Surroundings
    PROVE  ClaimInvariant'
<1>1. CASE \E i \in Selector : Provision(i) \/ LetClaimGo(i)
  BY <1>1, ProvisionerOK
<1>2. CASE RolloutEnds
  BY <1>2, WritePolicyOK DEF RolloutEnds
<1>3. CASE \E c \in Cluster : CollectBinding(c) \/ WorkGenerator(c) \/ ClusterSettles(c)
  <2>1. UNCHANGED <<claim, claimSeen, pass>>
    BY <1>3 DEF CollectBinding, WorkGenerator, ClusterSettles, caches, objects
  <2> QED BY <2>1 DEF ClaimInvariant
<1> QED BY <1>1, <1>2, <1>3 DEF Surroundings

\* The informers.
LEMMA DeliveriesOK ==
    ASSUME ClaimInvariant, Deliveries \/ DeliverPolicy
    PROVE  ClaimInvariant'
<1>1. UNCHANGED <<claim, pass>>
  BY DEF Deliveries, DeliverBindings, DeliverClaims, Requeue, DeliverPolicy, objects
<1>2. claimSeen' = claimSeen \/ claimSeen' = claim
  BY DEF Deliveries, DeliverBindings, DeliverClaims, Requeue, DeliverPolicy, caches
<1> QED BY <1>1, <1>2 DEF ClaimInvariant, BySelector

\* A call of the pass fails.
LEMMA CallFailsOK ==
    ASSUME ClaimInvariant, CallFails
    PROVE  ClaimInvariant'
<1>1. UNCHANGED <<claim, claimSeen>>
  BY DEF CallFails, objects, caches
<1>2. \/ pass.stage = "bindings" /\ pass' = ToClaims(pass)
      \/ pass' = Idle
      \/ pass' = ToStatus(ClaimError(pass))
  BY DEF CallFails, Goes, Ends
<1>3. PassOK(pass', claim)
  BY <1>2, IdleOK, ToStatusOK, ToClaimsOK DEF ClaimInvariant, PassOK
<1> QED BY <1>1, <1>3 DEF ClaimInvariant

\* What comes as a surprise.
LEMMA SurprisesOK ==
    ASSUME ClaimInvariant, Surprises
    PROVE  ClaimInvariant'
<1>1. CASE CallFails
  BY <1>1, CallFailsOK
<1>2. CASE RolloutBegins
  BY <1>2, WritePolicyOK DEF RolloutBegins
<1>3. CASE ResourcesChange \/ \E c \in Cluster : ClusterChanges(c)
  <2>1. UNCHANGED <<claim, claimSeen, pass>>
    BY <1>3 DEF ResourcesChange, ClusterChanges, objects, caches
  <2> QED BY <2>1 DEF ClaimInvariant
<1> QED BY <1>1, <1>2, <1>3 DEF Surprises

\* The annotation controller and the garbage collector write the policy or nothing.
LEMMA SourceOK ==
    ASSUME ClaimInvariant, SourceStep \/ CollectPolicy
    PROVE  ClaimInvariant'
<1>1. (\E p : SourceWrites(p)) \/ UNCHANGED vars
  BY DEF SourceStep, CollectPolicy, syncPolicy, IgnoreInvalid, deleteGeneratedPolicy
<1>2. CASE \E p : SourceWrites(p)
  BY <1>2, WritePolicyOK DEF SourceWrites
<1>3. CASE UNCHANGED vars
  BY <1>3 DEF vars, objects, caches, ClaimInvariant
<1> QED BY <1>1, <1>2, <1>3

\* The users of the annotated resource and of the policy.
LEMMA UsersOK ==
    ASSUME ClaimInvariant,
           \/ Annotate \/ Block \/ RemoveSource \/ Recreate
           \/ UserEdits \/ (\E orphan \in BOOLEAN : UserDeletes(orphan)) \/ UserCreates
    PROVE  ClaimInvariant'
<1>1. CASE Annotate \/ Block \/ RemoveSource \/ Recreate
  <2>1. \E s : SourceBecomes(s)
    BY <1>1 DEF Annotate, Block, RemoveSource, Recreate
  <2>2. UNCHANGED <<claim, claimSeen, pass>>
    BY <2>1 DEF SourceBecomes, objects, caches
  <2> QED BY <2>2 DEF ClaimInvariant
<1>2. CASE UserEdits \/ (\E orphan \in BOOLEAN : UserDeletes(orphan)) \/ UserCreates
  <2>1. \E p : UserWrites(p)
    BY <1>2 DEF UserEdits, UserDeletes, UserCreates
  <2> QED BY <2>1, WritePolicyOK DEF UserWrites
<1> QED BY <1>1, <1>2

\* After a restart no pass is under way and the cache is that of the objects.
LEMMA RestartOK ==
    ASSUME ClaimInvariant, Restart
    PROVE  ClaimInvariant'
<1>1. pass' = Idle /\ claimSeen' = claim /\ claim' = claim
  BY DEF Restart, objects
<1> QED BY <1>1, IdleOK DEF ClaimInvariant, BySelector

----------------------------------------------------------------------------
(* The theorems.                                                           *)

\* The invariant of the claims and of the pass that counts them holds at the
\* start and is preserved by every step.
THEOREM ClaimInvariance == Spec => []ClaimInvariant
<1>1. InitAll => ClaimInvariant
  <2> SUFFICES ASSUME InitAll PROVE ClaimInvariant
    OBVIOUS
  <2>1. claim = [i \in Selector |-> NoClaim(0)] /\ claimSeen = claim /\ pass = Idle
    BY DEF InitAll, Init
  <2>2. \A i \in Selector : ~Exists(claim[i])
    BY <2>1 DEF NoClaim, Exists
  <2>3. AllPhased(claim)
    BY <2>1 DEF AllPhased, Phased, NoClaim
  <2>4. OneClaim(claim) /\ BySelector(claim)
    BY <2>1, <2>2, <2>3 DEF OneClaim, BySelector
  <2> QED BY <2>1, <2>3, <2>4, IdleOK DEF ClaimInvariant
<1>2. ClaimInvariant /\ [Next]_allVars => ClaimInvariant'
  <2> SUFFICES ASSUME ClaimInvariant, [Next]_allVars PROVE ClaimInvariant'
    OBVIOUS
  <2>1. CASE UNCHANGED allVars
    BY <2>1 DEF allVars, vars, objects, caches, ClaimInvariant
  <2>2. CASE Next
    BY <2>2, ReconcileOK, BindingsOK, GoOnOK, SurroundingsOK, DeliveriesOK, SurprisesOK, SourceOK,
       UsersOK, RestartOK DEF Next, PassStep
  <2> QED BY <2>1, <2>2
<1> QED BY <1>1, <1>2, PTL DEF Spec

\* A policy has at most one claim at a time, however far the caches of the
\* policy and of its claims are behind, and through errors and restarts
\* (reconcileClaims: maxConcurrentClaimsPerPolicy, countUnseenClaims).
THEOREM ClaimsWithinBudget == Spec => []ClaimBudget
<1>1. ClaimInvariant => ClaimBudget
  BY OneClaimIsBudget DEF ClaimInvariant
<1> QED BY <1>1, ClaimInvariance, PTL

\* The cached list of a policy's claims has at most one of them too, so that a
\* review of it makes at most one call (the loop over the list in
\* reconcileClaims, which ReviewClaims takes as one step).
THEOREM ListHasOneClaim == Spec => [](\A i, j \in Selector : Exists(claimSeen[i]) /\ Exists(claimSeen[j]) => i = j)
<1>1. ClaimInvariant => \A i, j \in Selector : Exists(claimSeen[i]) /\ Exists(claimSeen[j]) => i = j
  BY DEF ClaimInvariant, OneClaim
<1> QED BY <1>1, ClaimInvariance, PTL
=============================================================================
