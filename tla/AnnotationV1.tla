---------------------------- MODULE AnnotationV1 ----------------------------
(* Placement by annotation (pkg/v1/controllers/annotationplacement): the    *)
(* cluster-selectors annotation of a resource is turned into a placement    *)
(* policy, which PolicyV1 then carries out. The annotated resource is read  *)
(* from the API server, the policy from the cache.                          *)
EXTENDS PolicyV1

CONSTANTS
    Annotations,        \* the values of the annotation that are tried, in a sequence
    UserSpecs           \* the specs that users give to policies of their own

VARIABLES
    source,             \* the resource that carries the annotation
    sourceDue           \* is a reconciliation of the resource queued

allVars == <<vars, source, sourceDue>>
sourceVars == <<source, sourceDue>>

\* uid counts the resources of this name; annotation is an index of
\* Annotations, 0 for none; allowed is what the eligibility checks say of it.
NoSource(uid) == [phase |-> "none", uid |-> uid, annotation |-> 0, allowed |-> TRUE]

----------------------------------------------------------------------------
(* The annotation *)

MaxAnnotationSelectors == 10
MaxMatchLabels == 10

\* An annotation is a sequence of selectors, a selector a sequence of
\* matchers [key, value, n]; n is the number of a count, or the value of a
\* label. An empty value is the empty sequence.
IsCount(m) == m.key = "count"

parseLabelKey(key) == IF key = "region" THEN "topology.kubernetes.io/region" ELSE key

ValidLabel(m) == m.key # "" /\ m.value = "text"

parseCount(m) ==
    CASE m.value = "All" -> [form |-> "All", n |-> 0]
      [] m.value = "number" /\ m.n \in 1..MaxClusterCount -> [form |-> "number", n |-> m.n]
      [] OTHER -> [form |-> "junk", n |-> 0]

CountsOf(segment) == SelectSeq(segment, IsCount)
LabelsOf(segment) == SelectSeq(segment, LAMBDA m : ~IsCount(m))

ValidSegment(segment) ==
    LET counts == CountsOf(segment)
        labels == LabelsOf(segment)
    IN  /\ segment # <<>>
        /\ Len(counts) <= 1 /\ \A j \in 1..Len(counts) : parseCount(counts[j]).form # "junk"
        /\ \A j \in 1..Len(labels) : ValidLabel(labels[j])
        /\ \A j, k \in 1..Len(labels) : j # k => parseLabelKey(labels[j].key) # parseLabelKey(labels[k].key)
        /\ Len(labels) <= MaxMatchLabels

TermsOf(segment) ==
    LET labels == LabelsOf(segment)
        pairs == {<<parseLabelKey(labels[j].key), labels[j].n>> : j \in 1..Len(labels)}
        terms == IF pairs = {} THEN <<>> ELSE <<[labels |-> pairs, labelExprs |-> <<>>, propExprs |-> <<>>]>>
    IN  CHOOSE t \in 1..Len(Terms) : Terms[t] = terms

\* Unset fields are filled in as the API server would.
parseSelector(segment) ==
    [terms |-> TermsOf(segment),
     count |-> IF CountsOf(segment) = <<>> THEN [form |-> "number", n |-> 1] ELSE parseCount(CountsOf(segment)[1]),
     minCount |-> -1, claim |-> TRUE]

ValidAnnotation(value) ==
    Len(value) \in 1..MaxAnnotationSelectors /\ \A j \in 1..Len(value) : ValidSegment(value[j])

parseClusterSelectors(value) == [j \in 1..Len(value) |-> parseSelector(value[j])]

----------------------------------------------------------------------------
(* The reconciliation of the resource *)

\* What the policy is to look like: the spec is replaced, the labels and the
\* owner reference are restored, and the rest is left as it is.
desiredSpec(src) ==
    [selectors |-> parseClusterSelectors(Annotations[src.annotation]), tolerations |-> {}, strategy |-> 0]

applyDesiredPolicy(p, src) ==
    [p EXCEPT !.spec = desiredSpec(src), !.owner = src.uid, !.labelled = TRUE]

\* Either mark is enough.
isGeneratedFor(p) == p.owner # 0 \/ p.labelled

Wanted(src) == Exists(src) /\ src.allowed /\ src.annotation # 0

\* The end of a reconciliation; an error is retried.
Finished(retry) == sourceDue' = retry /\ UNCHANGED source

SourceWrites(p) ==
    /\ WritePolicy(p)
    /\ UNCHANGED <<binding, claim, bindingSeen, claimSeen, fleet, resources, due, surprises>>

\* CreateOrUpdate on the cached policy: a policy that is not in the cache
\* yet, or that has changed since, is an error, as is a foreign one.
syncPolicy ==
    /\ sourceDue /\ Wanted(source) /\ ValidAnnotation(Annotations[source.annotation])
    /\ LET want == applyDesiredPolicy(seen, source)
           new == [applyDesiredPolicy(NoPolicy(policy.uid + 1), source) EXCEPT !.phase = "live"]
       IN  CASE ~Exists(seen) /\ ~Exists(policy) -> SourceWrites(new) /\ Finished(FALSE)
             [] ~Exists(seen) /\ Exists(policy) -> UNCHANGED vars /\ Finished(TRUE)
             [] Exists(seen) /\ (~isGeneratedFor(seen) \/ (want # seen /\ ~seenFresh)) ->
                  UNCHANGED vars /\ Finished(TRUE)
             [] Exists(seen) /\ isGeneratedFor(seen) /\ want = seen -> UNCHANGED vars /\ Finished(FALSE)
             [] OTHER -> SourceWrites(want) /\ Finished(FALSE)

\* An annotation that cannot be parsed changes nothing.
IgnoreInvalid ==
    /\ sourceDue /\ Wanted(source) /\ ~ValidAnnotation(Annotations[source.annotation])
    /\ UNCHANGED vars /\ Finished(FALSE)

\* The policy is deleted only in the version in which it was seen to be a
\* generated one.
deleteGeneratedPolicy ==
    /\ sourceDue /\ ~Wanted(source)
    /\ CASE ~Exists(seen) \/ ~isGeneratedFor(seen) \/ ~Exists(policy) -> UNCHANGED vars /\ Finished(FALSE)
         [] Exists(seen) /\ isGeneratedFor(seen) /\ Exists(policy) /\ ~seenFresh -> UNCHANGED vars /\ Finished(TRUE)
         [] OTHER -> (IF Live(policy) THEN SourceWrites(Terminated(policy)) ELSE UNCHANGED vars) /\ Finished(FALSE)

----------------------------------------------------------------------------
(* What wakes the two controllers *)

generatedPolicyDrift(old, new) ==
    \/ Exists(old) # Exists(new) \/ Live(old) # Live(new) \/ old.uid # new.uid
    \/ old.spec # new.spec \/ old.labelled # new.labelled \/ old.owner # new.owner

\* An event of the policy reaches its source through the owner reference. The
\* informer shows every version: that of its creation had the reference, even
\* if it was taken off since.
mapGeneratedPolicyToSource(old, new) ==
    \/ old.owner # 0 \/ new.owner # 0
    \/ old.uid # new.uid /\ isGeneratedFor(new)

\* Mutant: the event of the policy is for its source only.
DeliverPolicyQuiet ==
    /\ ~seenFresh
    /\ seen' = policy /\ seenFresh' = TRUE
    /\ sourceDue' = (sourceDue \/ (generatedPolicyDrift(seen, policy) /\ mapGeneratedPolicyToSource(seen, policy)))
    /\ UNCHANGED <<objects, bindingSeen, claimSeen, fleet, resources, due, pass, surprises, source>>

DeliverPolicy ==
    /\ ~seenFresh
    /\ seen' = policy /\ seenFresh' = TRUE
    /\ due' = "now"
    /\ sourceDue' = (sourceDue \/ (generatedPolicyDrift(seen, policy) /\ mapGeneratedPolicyToSource(seen, policy)))
    /\ UNCHANGED <<objects, bindingSeen, claimSeen, fleet, resources, pass, surprises, source>>

\* A change of the resource is reported if it carried the annotation before
\* or carries it now.
reportAnnotated(old, new) == old.annotation # 0 \/ new.annotation # 0

SourceBecomes(s) ==
    /\ Surprise
    /\ source' = s
    /\ sourceDue' = (sourceDue \/ reportAnnotated(source, s))
    /\ UNCHANGED <<objects, caches, fleet, resources, due, pass>>

Annotate == Exists(source) /\ \E a \in (0..Len(Annotations)) \ {source.annotation} :
                                SourceBecomes([source EXCEPT !.annotation = a])
Block == Exists(source) /\ SourceBecomes([source EXCEPT !.allowed = ~@])
RemoveSource == Exists(source) /\ SourceBecomes(NoSource(source.uid))
Recreate == /\ ~Exists(source) /\ \E a \in 0..Len(Annotations) :
                 SourceBecomes([NoSource(source.uid + 1) EXCEPT !.phase = "live", !.annotation = a])

----------------------------------------------------------------------------
(* Users of the policy, the garbage collector, and a restart *)

\* Someone edits the generated policy, takes a mark off it, deletes it
\* (leaving its bindings behind or not), or makes one of their own.
UserWrites(p) == /\ Surprise /\ WritePolicy(p)
                 /\ UNCHANGED <<claim, bindingSeen, claimSeen, fleet, resources, due, sourceVars>>

UserEdits ==
    /\ Live(policy)
    /\ \/ \E spec \in UserSpecs \ {policy.spec} : UserWrites([policy EXCEPT !.spec = spec])
       \/ policy.owner # 0 /\ UserWrites([policy EXCEPT !.owner = 0])
       \/ policy.labelled /\ UserWrites([policy EXCEPT !.labelled = FALSE])
       \/ isGeneratedFor(policy) /\ UserWrites([policy EXCEPT !.owner = 0, !.labelled = FALSE])
    /\ UNCHANGED binding

UserDeletes(orphan) ==
    /\ Live(policy)
    /\ UserWrites(Terminated(policy))
    /\ binding' = [c \in Cluster |-> IF orphan /\ Exists(binding[c]) /\ binding[c].owner = policy.uid
                                     THEN [binding[c] EXCEPT !.owner = 0] ELSE binding[c]]

UserCreates ==
    /\ ~Exists(policy)
    /\ \E spec \in UserSpecs : UserWrites([NoPolicy(policy.uid + 1) EXCEPT !.phase = "live", !.spec = spec])
    /\ UNCHANGED binding

\* The garbage collector deletes a policy whose source is gone.
CollectPolicy ==
    /\ Live(policy) /\ policy.owner # 0
    /\ Exists(source) => policy.owner # source.uid
    /\ SourceWrites(Terminated(policy))
    /\ UNCHANGED sourceVars

\* The hub agent restarts: the passes are lost, the caches are read anew and
\* everything there is is reconciled.
Restart ==
    /\ Surprise
    /\ pass' = Idle
    /\ seen' = policy /\ seenFresh' = TRUE /\ bindingSeen' = binding /\ claimSeen' = claim
    /\ due' = IF Exists(policy) THEN "now" ELSE "no"
    /\ sourceDue' = ((Exists(source) /\ source.annotation # 0) \/ (Exists(policy) /\ policy.owner # 0))
    /\ UNCHANGED <<objects, fleet, resources, source>>

----------------------------------------------------------------------------
\* The resource is new, or the hub agent starts again after a while in which
\* the generated policy was edited badly and the resource was removed.
InitAll ==
    LET annotated == [NoSource(1) EXCEPT !.phase = "live", !.annotation = 1]
    IN  /\ Init
        /\ \/ source = annotated /\ policy = NoPolicy(0)
           \/ /\ source = NoSource(1)
              /\ \E spec \in {t \in UserSpecs : InvalidSelectors(t.selectors)} :
                    policy = [applyDesiredPolicy(NoPolicy(1), annotated) EXCEPT !.phase = "live", !.spec = spec]
        /\ seen = policy
        /\ due = IF Exists(policy) THEN "now" ELSE "no"
        /\ sourceDue = TRUE

SourceStep == syncPolicy \/ IgnoreInvalid \/ deleteGeneratedPolicy

Next ==
    \/ (PassStep \/ Surroundings \/ Deliveries \/ Surprises) /\ UNCHANGED sourceVars
    \/ SourceStep
    \/ DeliverPolicy
    \/ CollectPolicy
    \/ Annotate \/ Block \/ RemoveSource \/ Recreate
    \/ UserEdits \/ (\E orphan \in BOOLEAN : UserDeletes(orphan)) \/ UserCreates
    \/ Restart

Spec == InitAll /\ [][Next]_allVars

\* A step of the pass, told by its effect; a crash or an error looks like one,
\* but there are only so many of them.
PassMoves ==
    \/ pass'.stage # pass.stage
    \/ pass.stage = "idle" /\ due = "now" /\ due' # "now"
    \/ pass.stage = "bindings" /\ pass'.stage = "bindings" /\
         <<pass'.create, pass'.update, pass'.delete>> # <<pass.create, pass.update, pass.delete>>

\* The annotation controller has work that it can do: what it reads is not
\* behind, and the policy is not someone else's.
SourceReady == sourceDue /\ seenFresh /\ (Exists(seen) /\ Wanted(source) => isGeneratedFor(seen))

\* The queues are served, the informers deliver, and the garbage collector,
\* the work generator, the provisioner and the clusters get on with their
\* work; a rollout ends. The fairness of the two controllers is weak
\* fairness, its enabling condition written out; that of the others is
\* strong because their steps are put off until the pass is over
\* (BetweenPasses).
FairSpec ==
    /\ Spec
    /\ []<>(pass.stage = "idle" /\ due # "now") \/ []<><<PassMoves>>_allVars
    /\ WF_allVars(Requeue /\ UNCHANGED sourceVars)
    /\ []<>~SourceReady \/ []<><<sourceDue /\ ~sourceDue'>>_allVars
    /\ WF_allVars(DeliverPolicy)
    /\ SF_allVars((DeliverBindings \/ DeliverClaims \/ Surroundings) /\ UNCHANGED sourceVars)
    /\ WF_allVars(CollectPolicy)

----------------------------------------------------------------------------
(* Properties *)

\* A policy has at most one claim at a time, however far the caches are
\* behind (maxConcurrentClaimsPerPolicy, countUnseenClaims): a provisioner is
\* not asked twice.
ClaimBudget == Cardinality({i \in Selector : Exists(claim[i])}) <= 1

\* A claim does not outlive the policy it was made for: the cleanup
\* finalizer is on the policy before a claim is made and stays until the
\* last claim is gone (ensureFinalizer, cleanupClaims,
\* releaseFinalizerIfNoClaims).  (For one surprise: MaxSurprises = 1.)
NoOrphanClaim == ~Exists(policy) => \A i \in Selector : ~Exists(claim[i])

\* Bindings are sticky: a cluster that stays in the fleet is not unbound
\* because it went down, was tainted, was relabelled or reports garbage, only
\* because every selector it was bound for is gone or has enough others
\* (selectedBefore, chooseClusters).
Sticky ==
    [][pass.stage = "idle" /\ pass'.stage = "bindings" =>
         \A c \in pass'.delete :
            LET selectors == EffectiveSelectors(seen.spec)
                others(i) == {d \in Cluster \ {c} : selectors[i].terms \in pass'.plan[d] /\ IsEligible(fleet[d])}
            IN  \/ ~IsListed(fleet[c]) \/ IsLeaving(fleet[c])
                \/ \A i \in 1..Len(selectors) :
                      selectors[i].terms \in bindingSeen[c].terms =>
                        /\ ~resolveCounts(selectors[i]).selectAll
                        /\ Cardinality(others(i)) >= resolveCounts(selectors[i]).desired]_allVars

SourceSettled ==
    LET valid == Wanted(source) /\ ValidAnnotation(Annotations[source.annotation])
    IN  Live(policy) /\ isGeneratedFor(policy) =>
            IF valid THEN applyDesiredPolicy(policy, source) = policy ELSE Wanted(source)

PolicySettled ==
    /\ pass.stage = "idle" /\ seenFresh /\ bindingSeen = binding /\ claimSeen = claim
    /\ Exists(policy) => Live(policy)
    /\ ~Exists(policy) => \A c \in Cluster : binding[c].owner = 0
    /\ policy.role = "none"
    /\ Live(policy) /\ ~InvalidSelectors(policy.spec.selectors) =>
         LET outcomes == Outcomes(policy)
             choice == Choice(policy, outcomes)
             plan == PlanFrom(outcomes, choice)
         IN  /\ \A c \in Cluster :
                  /\ Live(binding[c]) = (plan[c] # {})
                  /\ Live(binding[c]) => /\ binding[c].owner = policy.uid /\ binding[c].terms = plan[c]
                                        /\ binding[c].strategy = policy.spec.strategy
             /\ (\E i \in Selector : Exists(claim[i])) = (desiredClaims(outcomes) # 0)
             /\ policy.status.synchronized = synchronizedCondition(policy, plan)
             /\ policy.status.counts = aggregateCounts(outcomes, choice)

\* Once nothing surprising happens any more, the policy is what the
\* annotation asks for, and the bindings and the report are what the policy
\* asks for; the role is free, and no trace is left of a policy that is gone.
Settles == <>[](PolicySettled /\ SourceSettled)
============================================================================
