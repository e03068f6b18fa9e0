----------------------------- MODULE WorkApplier -----------------------------
(***************************************************************************)
(* The work applier of the member agent for ONE Work: it writes ahead what *)
(* it is about to do, removes left-over manifests, takes over, applies or  *)
(* only compares the objects on the member cluster, and reports.  Around   *)
(* it the hub edits and deletes the Work, users of the member cluster      *)
(* meddle with the objects, the cluster leaves and joins again, calls fail *)
(* and the agent restarts at any point.                                    *)
(*                                                                         *)
(* A condition of an older generation of the Work is treated by every      *)
(* reader like a missing one, so an edit drops it.  A worker handles one   *)
(* Work at a time, and within it the manifests of a wave do not share      *)
(* state, so they are processed one after the other in any order.          *)
(***************************************************************************)
EXTENDS Naturals, FiniteSets

CONSTANTS
    Manifest,       \* the objects a Work may contain, by their identifier
    Wave,           \* the processing wave of each
    Immutable,      \* those whose content the member's API server lets nobody change
    MaxVersion,     \* bound: versions of the content of a manifest
    Strategies,     \* the apply strategies the Work may have
    Starts,         \* the manifests and the objects on the member cluster at first
    MaxOwner,       \* bound: AppliedWork objects ever created
    MaxEdits,       \* bound: edits of the Work by the hub
    MaxMeddles,     \* bound: changes by users of the member cluster
    MaxErrors,      \* bound: failed calls, failed lookups and restarts
    MaxLeaves       \* bound: how often the cluster leaves the fleet

StrategyType == {"ClientSideApply", "ServerSideApply", "ReportDiff"}

ApplyStrategy ==
    [type     : StrategyType,
     takeOver : {"Always", "IfNoDiff", "Never"},    \* whenToTakeOver
     apply    : {"Always", "IfNotDrifted"},         \* whenToApply
     compare  : {"Partial", "Full"},                \* comparisonOption
     coOwn    : BOOLEAN,                            \* allowCoOwnership
     force    : BOOLEAN]                            \* forceConflicts

\* Owner references: the AppliedWork objects of this Work, one after the other,
\* an AppliedWork of another Work, one whose Work is gone, one of the newer API
\* group, and an owner outside Fleet.
Peer == MaxOwner + 1
Orphan == MaxOwner + 2
Newer == MaxOwner + 3
User == MaxOwner + 4
Owners == 1..MaxOwner + 4
FleetOwners == (1..MaxOwner) \cup {Peer, Orphan}

\* An object on the member cluster.  A content of 0 is one no manifest asked for.
MemberObject ==
    [here    : BOOLEAN,
     owners  : SUBSET Owners,
     hash    : 0..MaxVersion,       \* manifest hash annotation, 0: none
     content : 0..MaxVersion,       \* the fields the manifest specifies
     extra   : BOOLEAN,             \* fields it does not specify have been changed
     block   : BOOLEAN]             \* our reference holds up the deletion of its owner

NoObject ==
    [here |-> FALSE, owners |-> {}, hash |-> 0, content |-> 0, extra |-> FALSE, block |-> FALSE]

\* ManifestProcessingApplyOrReportDiffResultType
ApplyResult ==
    {"DecodingErred", "FailedToFindObjInMemberCluster", "OwnedByOtherKubeFleetAPIObjects",
     "FailedToTakeOver", "NotTakenOver", "FoundDrifts", "FoundDriftsInDegradedMode",
     "FailedToApply", "Applied"}
DiffResult ==
    {"FoundDiff", "FoundDiffInDegradedMode", "NoDiffFound"}
Result == ApplyResult \cup DiffResult

\* The Applied condition of a manifest: its reason, or the write-ahead mark.
\* Listed is an entry without that condition, as ReportDiff leaves it.
ManifestCondition == ApplyResult \cup {"None", "PreparingToProcess", "Listed"}

ConditionStatus == {"None", "True", "False"}

WorkObj ==
    [phase     : {"absent", "live", "deleting"},
     fin       : BOOLEAN,                           \* WorkFinalizer
     spec      : [Manifest -> 0..MaxVersion],       \* 0: not in the Work
     strategy  : Strategies,
     conds     : [Manifest -> ManifestCondition],
     applied   : ConditionStatus,
     available : ConditionStatus,
     diffed    : ConditionStatus]

\* One reconciliation: what it has read and where it is.
Stage == {"idle", "ensure", "prepare", "clean", "remove", "find", "takeover", "apply", "record"}
Nothing == "nothing"
Job ==
    [pc      : Stage,
     work    : WorkObj,                     \* the Work as read
     fresh   : BOOLEAN,                     \* it is still the stored one
     uid     : 0..MaxOwner,                 \* the AppliedWork it applies for
     broken  : SUBSET Manifest,             \* manifests that could not be mapped to a resource
     left    : SUBSET Manifest,             \* left-over manifests still to remove
     todo    : SUBSET Manifest,             \* manifests still to process
     cur     : Manifest \cup {Nothing},     \* the manifest in hand
     held    : MemberObject,                \* its object, as read
     same    : BOOLEAN,                     \* nobody else has written it since
     result  : [Manifest -> Result \cup {"None"}],
     details : BOOLEAN]                     \* drifts or diffs are to be reported

VARIABLES
    work,       \* the stored Work
    seen,       \* the Work as the hub informer last delivered it
    synced,     \* seen is the stored version
    owner,      \* the AppliedWork: its number, 0 when there is none
    dying,      \* the AppliedWork is being deleted
    recorded,   \* status.appliedResources of the AppliedWork
    created,    \* AppliedWork objects created so far
    object,     \* the objects on the member cluster
    job,        \* the reconciliation in progress
    membership, \* joined, leaving (Leave is not through) or left
    leaked,     \* history: manifests that may be missing in the status though their object is ours
    budget      \* what the environment may still do

vars == <<work, seen, synced, owner, dying, recorded, created, object,
          job, membership, leaked, budget>>
hubVars == <<work, seen, synced>>
ownerVars == <<owner, dying, recorded, created>>

\* What an object may be before the Work is there: it has no AppliedWork yet, and
\* Fleet has placed the object for one other Work at most.
AtFirst(o) ==
    /\ ~o.here => o = NoObject
    /\ o.owners \cap 1..MaxOwner = {}
    /\ ~({Peer, Orphan} \subseteq o.owners)

ASSUME ApplierAssumption ==
    /\ MaxVersion \in Nat \ {0} /\ MaxOwner \in Nat \ {0}
    /\ Wave \in [Manifest -> Nat] /\ Immutable \subseteq Manifest
    /\ Strategies \subseteq ApplyStrategy
    /\ Starts \subseteq [spec : [Manifest -> 0..1], object : [Manifest -> MemberObject],
                     events : Nat]      \* bound: edits, changes, errors and leaves together
    /\ \A start \in Starts, m \in Manifest : AtFirst(start.object[m])
    /\ {MaxEdits, MaxMeddles, MaxErrors, MaxLeaves} \subseteq Nat

-----------------------------------------------------------------------------
NoWork(s) ==
    [phase |-> "absent", fin |-> FALSE, spec |-> [m \in Manifest |-> 0], strategy |-> s,
     conds |-> [m \in Manifest |-> "None"],
     applied |-> "None", available |-> "None", diffed |-> "None"]

NewWork(spec, s) == [NoWork(s) EXCEPT !.phase = "live", !.spec = spec]

Idle(s) ==
    [pc |-> "idle", work |-> NoWork(s), fresh |-> FALSE, uid |-> 0, broken |-> {}, left |-> {}, todo |-> {},
     cur |-> Nothing, held |-> NoObject, same |-> FALSE,
     result |-> [m \in Manifest |-> "None"], details |-> FALSE]

Init ==
    /\ \E s \in Strategies, start \in Starts :
         /\ work = NewWork(start.spec, s)
         /\ object = start.object
         /\ job = Idle(s)
         /\ budget = [edits |-> MaxEdits, meddles |-> MaxMeddles, errors |-> MaxErrors,
                      leaves |-> MaxLeaves, events |-> start.events]
    /\ seen = work
    /\ synced = TRUE
    /\ owner = 0 /\ dying = FALSE /\ recorded = {} /\ created = 0
    /\ membership = "joined"
    /\ leaked = {}

Spend(what) ==
    /\ budget[what] > 0 /\ budget.events > 0
    /\ budget' = [budget EXCEPT ![what] = @ - 1, !.events = @ - 1]

-----------------------------------------------------------------------------
(***************************************************************************)
(* What the code asks of a Work and of an object.                          *)
(***************************************************************************)
InWork(w) == {m \in Manifest : w.spec[m] > 0}
ReportDiffOn(w) == w.strategy.type = "ReportDiff"
Version(m) == job.work.spec[m]
Strategy == job.work.strategy

\* isInMemberClusterObjectDerivedFromManifestObj, canApplyWithOwnership: the
\* reference to the AppliedWork read in this reconciliation.
Owned(o) == o.here /\ job.uid \in o.owners

\* diffBetweenManifestAndInMemberClusterObjects: partial comparison sees what the
\* manifest specifies, by a dry-run apply; when the API server refuses that as
\* invalid everything is compared.
Degraded(m, o) == Strategy.compare = "Partial" /\ m \in Immutable /\ o.content # Version(m)
Differs(m, o) ==
    \/ o.content # Version(m)
    \/ o.extra /\ (Strategy.compare = "Full" \/ Degraded(m, o))

\* removeLeftBehindAppliedWorkOwnerRefs: an AppliedWork whose Work is gone does not
\* count; an earlier AppliedWork of this Work has its name, so it does.
RemainingOwners(o) == o.owners \ {Orphan}

\* isPlacedByFleetInDuplicate
PlacedInDuplicate(owners) == owners \cap (FleetOwners \ {job.uid}) # {}

\* findLeftOverManifests: which entries of the status count as applied.
CountsAsApplied(cond) == cond \in {"Applied", "PreparingToProcess"}

\* An entry without an Applied condition makes findLeftOverManifests dereference nil.
Panics(w, kept) ==
    \E m \in Manifest \ kept : w.conds[m] = "Listed"

-----------------------------------------------------------------------------
(***************************************************************************)
(* Reconcile, up to the write-ahead.                                       *)
(***************************************************************************)
\* The reconciliation returns, with or without an error; it runs again later.
Return == job' = Idle(job.work.strategy)

\* A write to the hub: accepted when the Work is still the one that was read.
StoreWork(w) ==
    /\ job.fresh
    /\ work' = w
    /\ synced' = FALSE
    /\ UNCHANGED seen

\* Reconcile: the Work comes from the informer's cache.
Start ==
    /\ job.pc = "idle" /\ membership = "joined"
    /\ seen.phase = "live"
    /\ job' = [Idle(seen.strategy) EXCEPT !.pc = "ensure", !.work = seen, !.fresh = synced]
    /\ UNCHANGED <<hubVars, ownerVars, object, membership, leaked, budget>>

\* ensureAppliedWork, first part
AddFinalizer ==
    /\ job.pc = "ensure" /\ ~job.work.fin
    /\ LET w == [job.work EXCEPT !.fin = TRUE]
       IN  \/ StoreWork(w) /\ job' = [job EXCEPT !.work = w]
           \/ ~job.fresh /\ Return /\ UNCHANGED hubVars
    /\ UNCHANGED <<ownerVars, object, membership, leaked, budget>>

\* ensureAppliedWork, second part: an AppliedWork of that name is used as it is,
\* even one that is being deleted.
EnsureAppliedWork ==
    /\ job.pc = "ensure" /\ job.work.fin
    /\ \/ /\ owner # 0
          /\ job' = [job EXCEPT !.pc = "prepare", !.uid = owner]
          /\ UNCHANGED ownerVars
       \/ /\ owner = 0 /\ created < MaxOwner
          /\ created' = created + 1 /\ owner' = created + 1
          /\ dying' = FALSE /\ recorded' = {}
          /\ job' = [job EXCEPT !.pc = "prepare", !.uid = created + 1]
    /\ UNCHANGED <<hubVars, object, membership, leaked, budget>>

\* Mutant: an attempt on record counts whatever generation it was made on.
SkipWriteAheadStale(w) == (\E m \in Manifest : w.conds[m] # "None") \/ ReportDiffOn(w)

\* The shortcuts of writeAheadManifestProcessingAttempts.
SkipWriteAhead(w) == w.applied # "None" \/ ReportDiffOn(w)

\* preProcessManifests and the head of writeAheadManifestProcessingAttempts: a
\* manifest whose resource cannot be mapped is left out; there is no write-ahead
\* when an attempt on this generation is on record, nor in ReportDiff mode.
PreProcess ==
    /\ job.pc = "prepare"
    /\ \E bad \in SUBSET InWork(job.work) :
         LET w == job.work
             kept == InWork(w) \ bad
             skip == SkipWriteAhead(w)
             left == {m \in Manifest \ kept : CountsAsApplied(w.conds[m])}
         IN  /\ IF bad = {} THEN UNCHANGED budget ELSE Spend("errors")
             /\ IF ~skip /\ Panics(w, kept)
                THEN Return
                ELSE job' = [job EXCEPT !.pc = IF skip THEN "find" ELSE "clean",
                                        !.broken = bad,
                                        !.left = IF skip THEN {} ELSE left,
                                        !.todo = kept,
                                        !.result = [m \in Manifest |-> IF m \in bad THEN "DecodingErred"
                                                                                     ELSE "None"]]
    /\ UNCHANGED <<hubVars, ownerVars, object, membership, leaked>>

\* removeOneLeftOverManifest reads the object ...
ReadLeftOver(m) ==
    /\ job.pc = "clean" /\ m \in job.left
    /\ job' = [job EXCEPT !.left = @ \ {m},
                          !.pc = IF Owned(object[m]) THEN "remove" ELSE "clean",
                          !.cur = IF Owned(object[m]) THEN m ELSE Nothing,
                          !.held = IF Owned(object[m]) THEN object[m] ELSE NoObject,
                          !.same = Owned(object[m])]
    /\ UNCHANGED <<hubVars, ownerVars, object, membership, leaked, budget>>

\* removeOwnerRef
Disowned(o) == [o EXCEPT !.owners = @ \ {job.uid}]

\* ... and gives it up: with other owners only the reference is dropped, by an
\* update; otherwise it is deleted, if it is still the object of that UID.
RemoveLeftOver ==
    LET m == job.cur
        shared == Cardinality(job.held.owners) > 1
        done == [job EXCEPT !.pc = "clean", !.cur = Nothing, !.held = NoObject, !.same = FALSE]
    IN  /\ job.pc = "remove"
        /\ \/ /\ job.same
              /\ object' = [object EXCEPT ![m] = IF shared THEN Disowned(object[m]) ELSE NoObject]
              /\ job' = done
           \/ /\ ~job.same /\ ~object[m].here
              /\ job' = done /\ UNCHANGED object
           \/ /\ ~job.same /\ object[m].here /\ shared     \* conflict
              /\ Return /\ UNCHANGED object
           \/ /\ ~job.same /\ object[m].here /\ ~shared    \* by UID
              /\ \/ Owned(object[m]) /\ object' = [object EXCEPT ![m] = NoObject] /\ job' = done
                 \/ ~Owned(object[m]) /\ Return /\ UNCHANGED object
        /\ UNCHANGED <<hubVars, ownerVars, membership, leaked, budget>>

\* Entries that a status without them drops although nothing was removed for them.
Forgotten(w) ==
    {m \in Manifest : /\ job.work.conds[m] # "None" /\ w.conds[m] = "None"
                      /\ ~CountsAsApplied(job.work.conds[m]) \/ ReportDiffOn(w)}

\* prepareManifestCondForWriteAhead for every manifest, then the status update.
WriteAhead ==
    LET kept == InWork(job.work) \ job.broken
        w == [job.work EXCEPT !.conds = [m \in Manifest |->
                 IF m \notin kept THEN "None"
                 ELSE IF @[m] = "None" THEN "PreparingToProcess" ELSE @[m]]]
    IN  /\ job.pc = "clean" /\ job.left = {}
        /\ \/ /\ StoreWork(w)
              /\ job' = [job EXCEPT !.pc = "find", !.work = w]
              /\ leaked' = (leaked \cup Forgotten(w)) \ kept
           \/ ~job.fresh /\ Return /\ UNCHANGED <<hubVars, leaked>>
        /\ UNCHANGED <<ownerVars, object, membership, budget>>

-----------------------------------------------------------------------------
(***************************************************************************)
(* processOneManifest                                                      *)
(***************************************************************************)
\* The manifest in hand is done with this result.
Finish(m, res, details) ==
    job' = [job EXCEPT !.pc = "find", !.cur = Nothing, !.held = NoObject, !.same = FALSE,
                       !.todo = @ \ {m}, !.result[m] = res, !.details = @ \/ details]

\* organizeBundlesIntoProcessingWaves: a wave starts when the earlier ones are done;
\* ReportDiff mode has no waves.
CanProcess(m) ==
    /\ m \in job.todo
    /\ ReportDiffOn(job.work) \/ \A n \in job.todo : Wave[m] <= Wave[n]

\* findInMemberClusterObjectFor
FindObject(m) ==
    /\ job.pc = "find" /\ CanProcess(m)
    /\ \/ /\ job' = [job EXCEPT !.pc = "takeover", !.cur = m, !.held = object[m], !.same = TRUE]
          /\ UNCHANGED budget
       \/ Finish(m, "FailedToFindObjInMemberCluster", FALSE) /\ Spend("errors")
    /\ UNCHANGED <<hubVars, ownerVars, object, membership, leaked>>

\* takeOverInMemberClusterObjectIfApplicable
ShouldTakeOver == job.held.here /\ Strategy.takeOver # "Never" /\ ~Owned(job.held)

\* Mutant: with co-ownership any other owner is fine.
TakeOverRefusedUnlessShared == RemainingOwners(job.held) # {} /\ ~Strategy.coOwn

\* takeOverPreExistingObject, before it writes
TakeOverRefused ==
    LET others == RemainingOwners(job.held)
    IN  (others # {} /\ ~Strategy.coOwn) \/ PlacedInDuplicate(others)

TakenOver == [job.held EXCEPT !.owners = RemainingOwners(job.held) \cup {job.uid}, !.block = TRUE]

TakeOver ==
    LET m == job.cur
        o == job.held
        diff == Strategy.takeOver = "IfNoDiff" /\ Differs(m, o)
    IN  /\ job.pc = "takeover"
        /\ \/ /\ Newer \in o.owners
              /\ Finish(m, "OwnedByOtherKubeFleetAPIObjects", FALSE) /\ UNCHANGED <<object, leaked>>
           \/ /\ Newer \notin o.owners /\ ~ShouldTakeOver
              /\ job' = [job EXCEPT !.pc = "apply"] /\ UNCHANGED <<object, leaked>>
           \/ /\ Newer \notin o.owners /\ ShouldTakeOver /\ TakeOverRefused
              /\ Finish(m, "FailedToTakeOver", FALSE) /\ UNCHANGED <<object, leaked>>
           \/ /\ Newer \notin o.owners /\ ShouldTakeOver /\ ~TakeOverRefused /\ diff
              /\ Finish(m, "FailedToTakeOver", TRUE) /\ UNCHANGED <<object, leaked>>
           \/ /\ Newer \notin o.owners /\ ShouldTakeOver /\ ~TakeOverRefused /\ ~diff
              /\ \/ /\ job.same
                    /\ object' = [object EXCEPT ![m] = TakenOver]
                    /\ job' = [job EXCEPT !.pc = "apply", !.held = TakenOver]
                    /\ leaked' = IF ReportDiffOn(job.work) THEN leaked \cup {m} ELSE leaked
                 \/ ~job.same /\ Finish(m, "FailedToTakeOver", FALSE) /\ UNCHANGED <<object, leaked>>
        /\ UNCHANGED <<hubVars, ownerVars, membership, budget>>

\* reportDiffOnlyIfApplicable
ReportDiffOnly ==
    LET m == job.cur
        o == job.held
    IN  /\ job.pc = "apply" /\ ReportDiffOn(job.work)
        /\ \/ ~o.here /\ Finish(m, "FoundDiff", TRUE)
           \/ o.here /\ Differs(m, o) /\ Degraded(m, o) /\ Finish(m, "FoundDiffInDegradedMode", TRUE)
           \/ o.here /\ Differs(m, o) /\ ~Degraded(m, o) /\ Finish(m, "FoundDiff", TRUE)
           \/ o.here /\ ~Differs(m, o) /\ Finish(m, "NoDiffFound", FALSE)
        /\ UNCHANGED <<hubVars, ownerVars, object, membership, leaked, budget>>

\* canApplyWithOwnership, for an object that exists
CanApply(o) == Owned(o)

\* shouldPerformPreApplyDriftDetection: the manifest is the one applied last.
PreApplyDrift ==
    /\ Strategy.apply = "IfNotDrifted" /\ job.held.here
    /\ job.held.hash = Version(job.cur)
    /\ Differs(job.cur, job.held)

\* canApplyWithOwnership and performPreApplyDriftDetectionIfApplicable
RefuseToApply ==
    LET m == job.cur
        o == job.held
    IN  /\ job.pc = "apply" /\ ~ReportDiffOn(job.work)
        /\ \/ o.here /\ ~CanApply(o) /\ Finish(m, "NotTakenOver", FALSE)
           \/ /\ o.here /\ CanApply(o) /\ PreApplyDrift
              /\ Finish(m, IF Degraded(m, o) THEN "FoundDriftsInDegradedMode" ELSE "FoundDrifts", TRUE)
        /\ UNCHANGED <<hubVars, ownerVars, object, membership, leaked, budget>>

\* validateOwnerReferences
OwnersValid(o) ==
    /\ Cardinality(o.owners) > 1 => Strategy.coOwn
    /\ job.uid \in o.owners
    /\ ~PlacedInDuplicate(o.owners)

\* createManifestObject
Created(m) ==
    [here |-> TRUE, owners |-> {job.uid}, hash |-> Version(m), content |-> Version(m),
     extra |-> FALSE, block |-> TRUE]

\* threeWayMergePatch: the reference is in the object that was read, so the patch
\* does not carry it; serverSideApply always carries it.
Patched(m) ==
    LET new == [object[m] EXCEPT !.hash = Version(m), !.content = Version(m)]
    IN  IF Strategy.type = "ServerSideApply"
        THEN [new EXCEPT !.owners = @ \cup {job.uid}, !.block = TRUE]
        ELSE new

\* Mutant: no optimistic lock.
LockedNever == FALSE

\* shouldEnableOptimisticLock
Locked == Strategy.apply = "IfNotDrifted"

\* What the API server makes of the apply op: whether it is accepted, and the object.
Accepted(m) ==
    LET o == job.held
    IN  IF ~o.here
        THEN ~object[m].here
        ELSE /\ OwnersValid(o)
             /\ Locked => job.same
             /\ object[m].here \/ Strategy.type = "ServerSideApply"
             /\ object[m].here /\ m \in Immutable => object[m].content = Version(m)
             /\ Strategy.type = "ServerSideApply" /\ ~Strategy.force =>
                  o.content # 0 \/ object[m].content # 0      \* no other field manager

Outcome(m) == IF object[m].here THEN Patched(m) ELSE Created(m)

\* apply and performPostApplyDriftDetectionIfApplicable; the answer may get lost.
Apply ==
    LET m == job.cur
    IN  /\ job.pc = "apply" /\ ~ReportDiffOn(job.work)
        /\ job.held.here => CanApply(job.held) /\ ~PreApplyDrift
        /\ \/ /\ ~Accepted(m)
              /\ Finish(m, "FailedToApply", FALSE) /\ UNCHANGED <<object, budget>>
           \/ /\ Accepted(m)
              /\ object' = [object EXCEPT ![m] = Outcome(m)]
              /\ \/ /\ Finish(m, "Applied", Strategy.compare = "Full" /\ Outcome(m).extra)
                    /\ UNCHANGED budget
                 \/ Finish(m, "FailedToApply", FALSE) /\ Spend("errors")
        /\ UNCHANGED <<hubVars, ownerVars, membership, leaked>>

-----------------------------------------------------------------------------
(***************************************************************************)
(* refreshWorkStatus and refreshAppliedWorkStatus                          *)
(***************************************************************************)
AllResults(set) == \A m \in InWork(job.work) : job.result[m] \in set

\* The conditions are rebuilt from the manifests of the Work alone.
RebuiltConds ==
    [m \in Manifest |-> IF m \notin InWork(job.work) THEN "None"
                        ELSE IF ReportDiffOn(job.work) THEN "Listed"
                        ELSE job.result[m]]

\* setWorkAppliedCondition, setWorkAvailableCondition and setWorkDiffReportedCondition;
\* what the availability tracker finds of the applied objects is theirs to say.
RefreshedWorks ==
    LET diffing == ReportDiffOn(job.work)
        applied == CASE diffing -> "None"
                     [] ~diffing /\ AllResults({"Applied"}) -> "True"
                     [] OTHER -> "False"
        available == IF applied # "True" THEN {"None"}
                     ELSE IF InWork(job.work) = {} THEN {"True"} ELSE {"True", "False"}
        diffed == CASE ~diffing -> "None"
                    [] diffing /\ AllResults({"FoundDiff", "NoDiffFound"}) -> "True"
                    [] OTHER -> "False"
    IN  {[job.work EXCEPT !.conds = RebuiltConds, !.applied = applied, !.available = a, !.diffed = diffed] :
            a \in available}

\* Mutant: only the conditions of the manifests are compared.
SkipStatusUpdateSame(w) == w.conds = job.work.conds /\ ~job.details

\* shouldSkipStatusUpdate
SkipStatusUpdate(w) == w = job.work /\ ~job.details

RefreshWorkStatus ==
    /\ job.pc = "find" /\ job.todo = {}
    /\ \E w \in RefreshedWorks :
         LET next == [job EXCEPT !.pc = "record", !.work = w]
         IN  \/ /\ SkipStatusUpdate(w)
                /\ job' = next /\ UNCHANGED <<hubVars, leaked>>
             \/ /\ ~SkipStatusUpdate(w)
                /\ \/ /\ StoreWork(w)
                      /\ job' = next
                      /\ leaked' = (leaked \cup Forgotten(w)) \ InWork(w)
                   \/ ~job.fresh /\ Return /\ UNCHANGED <<hubVars, leaked>>
    /\ UNCHANGED <<ownerVars, object, membership, budget>>

RefreshAppliedWorkStatus ==
    /\ job.pc = "record"
    /\ recorded' = IF owner = job.uid THEN {m \in InWork(job.work) : job.result[m] = "Applied"}
                                      ELSE recorded
    /\ Return
    /\ UNCHANGED <<hubVars, owner, dying, created, object, membership, leaked, budget>>

-----------------------------------------------------------------------------
(***************************************************************************)
(* garbageCollectAppliedWork, one call                                     *)
(***************************************************************************)
CanCollect == job.pc = "idle" /\ membership = "joined" /\ seen.phase = "deleting" /\ seen.fin

DeleteAppliedWork ==
    /\ CanCollect /\ owner # 0
    /\ dying' = TRUE
    /\ UNCHANGED <<hubVars, owner, recorded, created, object, job, membership, leaked, budget>>

\* updateOwnerReference, after deletionWaitTime
UpdateOwnerReference ==
    /\ CanCollect /\ owner # 0 /\ dying
    /\ object' = [m \in Manifest |->
                    IF /\ seen.conds[m] \notin {"None", "DecodingErred"}
                       /\ object[m].here /\ owner \in object[m].owners
                       /\ Cardinality(object[m].owners) > 1
                    THEN [object[m] EXCEPT !.block = FALSE]
                    ELSE object[m]]
    /\ UNCHANGED <<hubVars, ownerVars, job, membership, leaked, budget>>

\* A Work without finalizer disappears as soon as it is being deleted.
Released(w) == IF w.phase = "deleting" THEN NoWork(w.strategy) ELSE [w EXCEPT !.fin = FALSE]

\* Mutant: an AppliedWork that is being deleted is as good as gone.
OwnerGoneSoon == owner = 0 \/ dying

OwnerGone == owner = 0

\* forgetWorkAndRemoveFinalizer
ForgetWork ==
    /\ CanCollect /\ OwnerGone
    /\ synced
    /\ work' = Released(work) /\ synced' = FALSE
    /\ UNCHANGED <<seen, ownerVars, object, job, membership, leaked, budget>>

-----------------------------------------------------------------------------
(***************************************************************************)
(* Leave and Join                                                          *)
(***************************************************************************)
Leave ==
    /\ membership = "joined" /\ Spend("leaves")
    /\ membership' = "leaving"
    /\ UNCHANGED <<hubVars, ownerVars, object, job, leaked>>

\* The Works come from the cache; the objects on the member cluster stay.
LeaveRemovesFinalizer ==
    /\ membership = "leaving" /\ seen.phase # "absent" /\ seen.fin /\ synced
    /\ work' = Released(work) /\ synced' = FALSE
    /\ job' = [job EXCEPT !.fresh = FALSE]
    /\ leaked' = IF work.phase = "deleting" THEN leaked \cup {m \in Manifest : work.conds[m] # "None"}
                                            ELSE leaked
    /\ UNCHANGED <<seen, ownerVars, object, membership, budget>>

Left ==
    /\ membership = "leaving" /\ (seen.phase = "absent" \/ ~seen.fin)
    /\ membership' = "left"
    /\ UNCHANGED <<hubVars, ownerVars, object, job, leaked, budget>>

Join ==
    /\ membership = "left"
    /\ membership' = "joined"
    /\ UNCHANGED <<hubVars, ownerVars, object, job, leaked, budget>>

-----------------------------------------------------------------------------
(***************************************************************************)
(* The environment                                                         *)
(***************************************************************************)
\* A new generation of the Work, by the work generator.
Generation(w) ==
    /\ work' = [w EXCEPT !.applied = "None", !.available = "None", !.diffed = "None"]
    /\ synced' = FALSE
    /\ job' = [job EXCEPT !.fresh = FALSE]
    /\ Spend("edits")
    /\ UNCHANGED <<seen, ownerVars, object, membership, leaked>>

EditManifest(m, v) ==
    /\ work.phase = "live" /\ work.spec[m] # v
    /\ Generation([work EXCEPT !.spec[m] = v])

EditStrategy(s) ==
    /\ work.phase = "live" /\ work.strategy # s
    /\ Generation([work EXCEPT !.strategy = s])

DeleteWork ==
    /\ work.phase = "live" /\ Spend("edits")
    /\ work' = IF work.fin THEN [work EXCEPT !.phase = "deleting"] ELSE NoWork(work.strategy)
    /\ leaked' = IF work.fin THEN leaked ELSE leaked \cup {m \in Manifest : work.conds[m] # "None"}
    /\ synced' = FALSE
    /\ job' = [job EXCEPT !.fresh = FALSE]
    /\ UNCHANGED <<seen, ownerVars, object, membership>>

RecreateWork(spec) ==
    /\ work.phase = "absent" /\ Spend("edits")
    /\ work' = NewWork(spec, work.strategy) /\ synced' = FALSE
    /\ UNCHANGED <<seen, ownerVars, object, job, membership, leaked>>

Deliver ==
    /\ ~synced
    /\ seen' = work /\ synced' = TRUE
    /\ UNCHANGED <<work, ownerVars, object, job, membership, leaked, budget>>

\* Somebody else writes an object.
Write(m, o) ==
    /\ object' = [object EXCEPT ![m] = o]
    /\ job' = [job EXCEPT !.same = @ /\ job.cur # m]
    /\ UNCHANGED <<hubVars, ownerVars, membership, leaked>>

Meddle(m) ==
    /\ Spend("meddles")
    /\ IF object[m].here
       THEN \E o \in {NoObject, [object[m] EXCEPT !.content = 0], [object[m] EXCEPT !.extra = TRUE],
                      [object[m] EXCEPT !.owners = @ \cup {User}]} :
              /\ o # object[m]
              /\ m \in Immutable => o.content \in {object[m].content} \/ ~o.here
              /\ Write(m, o)
       ELSE Write(m, [NoObject EXCEPT !.here = TRUE])

\* The garbage collector of the member cluster: owners that are gone, or being
\* deleted in the foreground, do not keep an object.
Solid(o) == {x \in o.owners : x \in {Peer, Orphan, Newer, User} \/ (x = owner /\ ~dying)}
CollectObject(m) ==
    /\ object[m].here /\ Solid(object[m]) # object[m].owners
    /\ Write(m, IF Solid(object[m]) = {} THEN NoObject
                ELSE [object[m] EXCEPT !.owners = Solid(object[m])])
    /\ UNCHANGED budget

CollectOwner ==
    /\ owner # 0 /\ dying
    /\ \A m \in Manifest : ~(object[m].here /\ owner \in object[m].owners /\ object[m].block)
    /\ owner' = 0 /\ dying' = FALSE /\ recorded' = {}
    /\ UNCHANGED <<hubVars, created, object, job, membership, leaked, budget>>

\* A call fails or the context is cancelled: the reconciliation gives up.  A restart
\* also reads everything anew and has to join again.
GiveUp ==
    /\ job.pc # "idle" /\ Spend("errors")
    /\ Return
    /\ UNCHANGED <<hubVars, ownerVars, object, membership, leaked>>

Restart ==
    /\ Spend("errors")
    /\ Return
    /\ seen' = work /\ synced' = TRUE
    /\ membership' = IF membership = "joined" THEN "left" ELSE membership
    /\ UNCHANGED <<work, ownerVars, object, leaked>>

-----------------------------------------------------------------------------
Applier ==
    \/ Start \/ AddFinalizer \/ EnsureAppliedWork \/ PreProcess
    \/ \E m \in Manifest : ReadLeftOver(m) \/ FindObject(m)
    \/ RemoveLeftOver \/ WriteAhead
    \/ TakeOver \/ ReportDiffOnly \/ RefuseToApply \/ Apply
    \/ RefreshWorkStatus \/ RefreshAppliedWorkStatus
    \/ DeleteAppliedWork \/ UpdateOwnerReference \/ ForgetWork

Membership == Leave \/ LeaveRemovesFinalizer \/ Left \/ Join

Hub ==
    \/ \E m \in Manifest, v \in 0..MaxVersion : EditManifest(m, v)
    \/ \E s \in Strategies : EditStrategy(s)
    \/ DeleteWork
    \/ \E spec \in [Manifest -> 0..1] : RecreateWork(spec)
    \/ Deliver

GarbageCollector == (\E m \in Manifest : CollectObject(m)) \/ CollectOwner

Next ==
    \/ Applier \/ Membership \/ Hub \/ GarbageCollector
    \/ \E m \in Manifest : Meddle(m)
    \/ GiveUp \/ Restart

Spec == Init /\ [][Next]_vars

\* The rate limiter requeues every Work; informers deliver; the collector runs, and
\* within one of the pauses of the rate limiter it gets to an AppliedWork all of
\* whose objects are gone; a cluster that left joins again, and Leave is retried
\* until it is through.
FairSpec ==
    /\ Spec
    /\ WF_vars(Applier)
    /\ WF_vars(Deliver)
    /\ WF_vars(GarbageCollector) /\ SF_vars(CollectOwner)
    /\ WF_vars(LeaveRemovesFinalizer) /\ WF_vars(Left) /\ WF_vars(Join)

-----------------------------------------------------------------------------
TypeOK ==
    /\ work \in WorkObj /\ seen \in WorkObj /\ synced \in BOOLEAN
    /\ owner \in 0..MaxOwner /\ created \in 0..MaxOwner /\ dying \in BOOLEAN
    /\ recorded \subseteq Manifest
    /\ object \in [Manifest -> MemberObject]
    /\ job \in Job
    /\ membership \in {"joined", "leaving", "left"}
    /\ leaked \subseteq Manifest
    /\ budget \in [edits : 0..MaxEdits, meddles : 0..MaxMeddles, errors : 0..MaxErrors,
                    leaves : 0..MaxLeaves, events : Nat]

\* The write-ahead does its job: whatever crashes or conflicts happen in between, an
\* object that carries the reference to the current AppliedWork is listed in the
\* status of the Work, so that a later generation can remove it.  Excepted are the
\* entries findLeftOverManifests and ReportDiff mode give up, and an object that
\* ReportDiff mode takes over, without a write-ahead, until it is reported on (the
\* history "leaked").
Tracked ==
    \A m \in Manifest :
        owner # 0 /\ ~dying /\ object[m].here /\ owner \in object[m].owners
            => work.conds[m] # "None" \/ m \in leaked

\* garbageCollectAppliedWork holds the Work until the member cluster is clean: unless
\* the cluster leaves, a Work that is gone leaves neither an AppliedWork behind nor an
\* object that the garbage collector would keep for it.
NothingLeftBehind ==
    work.phase = "absent" /\ budget.leaves = MaxLeaves =>
        /\ owner = 0
        /\ job.pc \notin {"clean", "remove", "find", "takeover", "apply"} \/ ~job.work.fin

\* IfNotDrifted: an apply never overwrites a change made to the object since its
\* current manifest was applied, whenever the change happens.  (Action property of
\* the optimistic lock together with the pre-apply drift detection.)
DriftPreserved ==
    [][\A m \in Manifest :
        /\ object[m].here /\ object'[m].here
        /\ object'[m].content # object[m].content /\ object'[m].content > 0
        /\ job.work.strategy.apply = "IfNotDrifted"
        => object[m].hash # object'[m].hash]_vars

\* No object is placed by two Works, nor for two AppliedWorks of the same Work:
\* takeOverPreExistingObject, with co-ownership allowed or not, and applies that
\* race with the users of the member cluster never add a second reference.
NotPlacedTwice ==
    \A m \in Manifest : Cardinality(object[m].owners \cap FleetOwners) <= 1

\* The reconciliation panics on this Work every time.
Stuck ==
    /\ work.phase = "live" /\ ~ReportDiffOn(work) /\ work.applied = "None"
    /\ Panics(work, InWork(work))

\* What is true of a Work in the end.
InSync(m) ==
    object[m].here /\ owner \in object[m].owners /\ object[m].content = work.spec[m]
Settled ==
    /\ work.phase # "deleting"
    /\ work.phase = "live" =>
        /\ IF ReportDiffOn(work) THEN work.diffed # "None" ELSE work.applied # "None"
        /\ work.applied = "True" => \A m \in InWork(work) : InSync(m)
        /\ ~ReportDiffOn(work) =>
             \A m \in Manifest \ InWork(work) :
                object[m].here /\ owner \in object[m].owners => m \in leaked

\* Once edits, meddling and failures stop, a deleted Work is gone, also when the
\* cluster left and joined in between; the latest generation is reported on, an
\* Applied condition that says True is true, and nothing but what the status lost
\* track of is left of the manifests that were removed.
Converges == <>[](Stuck \/ Settled)
=============================================================================
