----------------------------- MODULE GeneratorV1 -----------------------------
(***************************************************************************)
(* The work generator of the v1 stack (pkg/v1/controllers/workgenerator):  *)
(* it turns a placement binding into Works in the namespace of the member  *)
(* cluster, one per snapshot of the revision the binding targets, and      *)
(* reports in the binding's status what the cluster says about them.       *)
(*                                                                         *)
(* The Work of the primary snapshot owns the others, so that deleting it   *)
(* is enough: Kubernetes' garbage collector removes what it owned.  Every  *)
(* read goes through an informer's cache.  The writes of binding status    *)
(* and finalizer, and the updates of Works, carry the version that was     *)
(* read and fail when it is not the newest one.  One binding is modelled.  *)
(***************************************************************************)
EXTENDS Integers, FiniteSets

CONSTANTS
    Revisions,     \* the primary snapshots a binding can target: 1..n
    ContentOf,     \* the content of each revision
    PartsOf,       \* the number of snapshots each content is split into
    Strategies,    \* the sync strategies: 1..m
    Rollbacks,     \* whether a binding may be given back an older revision or
                   \*   strategy
    LaggingStatus, \* whether a reconciliation may start from a cached binding that
                   \*   lacks nothing but the controller's own last writes
    Surprises,     \* what may happen: "roll", "strategy", "suspend", "delete",
                   \*   "report", "remove", "prune", "failure", "restart"
    MaxEdits,      \* bound: how many of the first four happen
    MaxFaults      \* bound: how many of the others happen

ASSUME GeneratorV1Assumption ==
    /\ Revisions \subseteq Nat \ {0} /\ 1 \in Revisions
    /\ \A r \in Revisions : ContentOf[r] \in Nat /\ PartsOf[ContentOf[r]] \in Nat \ {0}
    /\ Strategies \subseteq Nat \ {0} /\ 1 \in Strategies
    /\ Rollbacks \in BOOLEAN /\ LaggingStatus \in BOOLEAN /\ {MaxEdits, MaxFaults} \subseteq Nat

VARIABLES
    binding,   \* the binding in the API server
    seen,      \* the binding in the informer's cache
    works,     \* the Works in the API server, by the sub-index of their source
    seenWorks, \* the Works in the informer's cache
    made,      \* how many primary Works have been created: their UIDs
    visible,   \* the revisions whose snapshots are in the informer's cache
    queued,    \* whether the binding's key is in the work queue
    later,     \* whether the key is to be queued again after a second
    pass,      \* the reconciliation in progress
    trouble

wVars == <<works, seenWorks, made>>
bVars == <<binding, seen>>
vars == <<binding, seen, works, seenWorks, made, visible, queued, later, pass,
          trouble>>

Subs == UNION {0..(PartsOf[ContentOf[r]] - 1) : r \in Revisions}
Parts(r) == 0..(PartsOf[ContentOf[r]] - 1)
Statuses == {"None", "False", "True"}

\* A binding: its generation, the revision it targets, its sync strategy, whether
\* it is suspended or being deleted, whether it holds the cleanup finalizer, and
\* its status: the last processed revision (0: none) and the conditions
\* Synchronized and Available for the present generation.
Binding == [gen : Nat, target : Revisions, strategy : Strategies,
            suspended : BOOLEAN, deleting : BOOLEAN, fin : BOOLEAN,
            last : Revisions \cup {0},
            sync : Statuses \cup {"Invalid"}, avail : Statuses]
NoBinding == [gen |-> 0]

\* A Work: the revision it is linked to, the content it carries, the linked work
\* count (0 on a secondary), its strategy, its generation, what the member agent
\* reported and for which generation, the UID of a primary Work and that of the
\* primary Work that owns a secondary one, and whether it is being deleted.
Reports == {"None", "Failed", "Unavailable", "Available"}
Work == [linked : Revisions, body : Nat, count : Nat, strategy : Strategies,
         gen : Nat, report : Reports, reportGen : Nat, uid : Nat,
         owner : Nat, deleting : BOOLEAN]
NoWork == [gen |-> 0]
NoPass == [pc |-> "idle"]

Exists(o) == o.gen # 0
Present(W) == {i \in Subs : Exists(W[i])}

Init ==
    /\ binding = [gen |-> 1, target |-> 1, strategy |-> 1,
                  suspended |-> FALSE, deleting |-> FALSE, fin |-> FALSE,
                  last |-> 0, sync |-> "None", avail |-> "None"]
    /\ seen = NoBinding
    /\ works = [i \in Subs |-> NoWork] /\ seenWorks = works /\ made = 0
    /\ visible \in {{}, Revisions}
    /\ queued = FALSE /\ later = FALSE
    /\ pass = NoPass
    /\ trouble = [edits |-> 0, faults |-> IF visible = {} THEN 1 ELSE 0]

-----------------------------------------------------------------------------
(* Checks *)

\* areWorksInSync, as to the resources: the revision has been processed, and
\* the Works are linked to it and as many as the primary one says.
InSync(b, W) ==
    /\ b.last = b.target
    /\ Present(W) # {}
    /\ \A i \in Present(W) : W[i].linked = b.target
    /\ Exists(W[0]) /\ W[0].count = Cardinality(Present(W))

\* Works whose strategy differs from the binding's.
Outmoded(b, W) == {i \in Present(W) : W[i].strategy # b.strategy}

\* A condition counts for the Work's present generation only.
SettledReport(w) == w.report # "None" /\ w.reportGen = w.gen

\* refreshPlacementBindingSyncCond and refreshPlacementBindingAvailableCond go
\* through the Works in the order of the list, which is any: a Work that is not
\* reported on yet stops the refresh, one that failed ends the search.
MayStop(W) == \E i \in Present(W) : ~SettledReport(W[i])
MayRefresh(W) ==
    \/ ~MayStop(W)
    \/ \E i \in Present(W) : SettledReport(W[i]) /\ W[i].report = "Failed"

AsStatus(b) == IF b THEN "True" ELSE "False"

\* refreshPlacementBindingStatus.
Refreshed(b, W) ==
    LET reported(R) == \A i \in Present(W) : SettledReport(W[i]) /\ W[i].report \in R
    IN  [b EXCEPT !.sync = AsStatus(reported({"Unavailable", "Available"})),
                  !.avail = AsStatus(reported({"Available"}))]

\* markPlacementBindingAsFailedToSynchronizeDueToInvalidSnapshots.
MarkedInvalid(b) ==
    [b EXCEPT !.sync = "Invalid",
              !.avail = IF b.last \in {0, b.target} THEN "False" ELSE @]

\* reportPlacementBindingProcessingProgress; Available is Unknown.
Progressed(b) ==
    [b EXCEPT !.last = b.target, !.sync = "False", !.avail = "None"]

-----------------------------------------------------------------------------
(* One reconciliation.  It ends, or fails and is queued again. *)

\* A reconciliation that starts takes the key off the queue.
Dequeued == IF pass.pc = "idle" THEN FALSE ELSE queued
Continue == queued' = Dequeued /\ UNCHANGED later
End == pass' = NoPass /\ Continue
Retry == pass' = NoPass /\ queued' = TRUE /\ UNCHANGED later

\* A write of the binding read as b: refused unless b is the newest version.
\* A binding that is being deleted is gone with its last finalizer.
WriteBinding(b, new) ==
    /\ b = binding
    /\ binding' = IF new.deleting /\ ~new.fin THEN NoBinding ELSE new
    /\ UNCHANGED seen

\* A status that does not change is not written.
UpdateStatus(b, new, then) ==
    \/ /\ b = new
       /\ UNCHANGED bVars
       /\ then
    \/ /\ b # new
       /\ WriteBinding(b, new)
       /\ then
    \/ /\ b # new /\ b # binding
       /\ UNCHANGED bVars
       /\ Retry

Begin ==
    /\ pass.pc = "idle" /\ queued
    /\ LaggingStatus \/ (seen.gen = binding.gen => seen = binding)

\* The cached binding is gone, or it is to be cleaned up and has no finalizer.
ReconcileNothing ==
    /\ Begin
    /\ Exists(seen) => (seen.deleting \/ seen.suspended) /\ ~seen.fin
    /\ queued' = FALSE
    /\ UNCHANGED <<bVars, wVars, visible, later, pass, trouble>>

Active(b) == Exists(b) /\ ~b.deleting /\ ~b.suspended

\* Mutant: the Works are written without the finalizer.
CanCheckBare == pass.pc = "check" \/ (Begin /\ Active(seen))

\* The list of the cached Works follows once the binding has the finalizer.
CanCheck == pass.pc = "check" \/ (Begin /\ Active(seen) /\ seen.fin)
Checked == IF pass.pc = "check" THEN pass.b ELSE seen

\* addPlacementBindingCleanupFinalizer, which changes nothing while the cached
\* copy is outdated (the key is retried until it is not).
AddFinalizer ==
    LET b == [seen EXCEPT !.fin = TRUE]
    IN  /\ Begin /\ Active(seen) /\ ~seen.fin
        /\ WriteBinding(seen, b)
        /\ pass' = [pc |-> "check", b |-> b]
        /\ Continue
        /\ UNCHANGED <<wVars, visible, trouble>>

\* The Works are in sync: what they say is reported in the binding's status.
RefreshStatus ==
    /\ CanCheck /\ InSync(Checked, seenWorks)
    /\ Outmoded(Checked, seenWorks) = {}
    /\ \/ /\ MayStop(seenWorks)
          /\ End
          /\ UNCHANGED bVars
       \/ /\ MayRefresh(seenWorks)
          /\ UpdateStatus(Checked, Refreshed(Checked, seenWorks), End)
    /\ UNCHANGED <<wVars, visible, trouble>>

\* refreshSyncStrategyOnlyForWorks: each Work is patched under an optimistic
\* lock; their reports will queue the binding again.
PatchStrategy ==
    /\ CanCheck /\ InSync(Checked, seenWorks)
    /\ Outmoded(Checked, seenWorks) # {}
    /\ pass' = [pc |-> "patch", b |-> Checked, read |-> seenWorks,
                todo |-> Outmoded(Checked, seenWorks)]
    /\ Continue
    /\ UNCHANGED <<bVars, wVars, visible, trouble>>

PatchNext ==
    /\ pass.pc = "patch"
    /\ \E i \in pass.todo :
          IF pass.read[i] = works[i]
          THEN /\ works' = [works EXCEPT ![i].strategy = pass.b.strategy,
                                         ![i].gen = @ + 1]
               /\ pass' = IF pass.todo = {i} THEN NoPass
                          ELSE [pass EXCEPT !.todo = @ \ {i}]
               /\ UNCHANGED <<queued, later>>
          ELSE /\ UNCHANGED works
               /\ Retry
    /\ UNCHANGED <<bVars, seenWorks, visible, made, trouble>>

\* retrievePrimaryAndSecondaryPlacementResourceSnapshots finds nothing (or an
\* incomplete set): the binding is marked, and the error brings it back.
SnapshotsInvalid ==
    /\ CanCheck /\ ~InSync(Checked, seenWorks)
    /\ Checked.target \notin visible
    /\ UpdateStatus(Checked, MarkedInvalid(Checked), Retry)
    /\ UNCHANGED <<wVars, visible, trouble>>

\* refreshWorks: the Works that no snapshot asks for are to be deleted, then the
\* primary Work is written, then the others.
StartRefresh ==
    LET dangling == Present(seenWorks) \ Parts(Checked.target)
    IN  /\ CanCheck /\ ~InSync(Checked, seenWorks)
        /\ Checked.target \in visible
        /\ pass' = [pc |-> IF dangling = {} THEN "write" ELSE "prune",
                    b |-> Checked, changed |-> FALSE, owner |-> 0,
                    todo |-> IF dangling = {} THEN {0} ELSE dangling]
        /\ Continue
        /\ UNCHANGED <<bVars, wVars, visible, trouble>>

\* A deleted Work stays until the member agent lets it go.
Deleted(i) == [works EXCEPT ![i] = IF Exists(@) THEN [@ EXCEPT !.deleting = TRUE] ELSE @]

DeleteDangling ==
    /\ pass.pc = "prune"
    /\ \E i \in pass.todo :
          LET rest == pass.todo \ {i}
          IN  /\ works' = Deleted(i)
              /\ pass' = [pass EXCEPT !.pc = IF rest = {} THEN "write" ELSE @,
                                      !.todo = IF rest = {} THEN {0} ELSE rest]
    /\ UNCHANGED <<bVars, seenWorks, made, visible, queued, later, trouble>>

\* buildWorkObjectFor, over the Work w that exists.
Wanted(i, w) ==
    [w EXCEPT !.linked = pass.b.target, !.body = ContentOf[pass.b.target],
              !.count = IF i = 0 THEN PartsOf[ContentOf[pass.b.target]] ELSE 0,
              !.strategy = pass.b.strategy,
              !.owner = IF i = 0 THEN 0 ELSE pass.owner]

NewWork(i) ==
    Wanted(i, [linked |-> 0, body |-> 0, count |-> 0, strategy |-> 0, gen |-> 1,
               report |-> "None", reportGen |-> 0,
               uid |-> IF i = 0 THEN made + 1 ELSE 0, owner |-> 0,
               deleting |-> FALSE])

SpecChanged(i, w) == w.body # Wanted(i, w).body \/ w.strategy # Wanted(i, w).strategy

\* The primary Work goes first, since the others name it as their owner.
Written(i, w, changed) ==
    LET rest == IF i = 0 THEN Parts(pass.b.target) \ {0} ELSE pass.todo \ {i}
    IN  /\ pass' = [pass EXCEPT !.todo = rest,
                                !.pc = IF rest = {} THEN "report" ELSE "write",
                                !.owner = IF i = 0 THEN w.uid ELSE @,
                                !.changed = @ \/ changed]
        /\ UNCHANGED <<queued, later>>

\* createOrUpdateWorkObjects, which reads the cache: a Work that is not there is
\* created, one that is as wanted is left alone, another is updated.  Creating
\* what exists and updating an outdated copy are refused.
WriteWork(i) ==
    LET c == seenWorks[i]
        new == IF ~Exists(c) THEN NewWork(i)
               ELSE [Wanted(i, c) EXCEPT !.gen = IF SpecChanged(i, c) THEN @ + 1 ELSE @]
    IN  /\ pass.pc = "write" /\ i \in pass.todo
        /\ \/ /\ Exists(c) /\ new = c
              /\ Written(i, c, FALSE)
              /\ UNCHANGED <<works, made>>
           \/ /\ new # c
              /\ IF Exists(c) THEN works[i] = c ELSE ~Exists(works[i])
              /\ works' = [works EXCEPT ![i] = new]
              /\ made' = IF i = 0 /\ ~Exists(c) THEN made + 1 ELSE made
              /\ Written(i, new, new.gen # c.gen)
           \/ /\ new # c
              /\ IF Exists(c) THEN works[i] # c ELSE Exists(works[i])
              /\ Retry
              /\ UNCHANGED <<works, made>>
        /\ UNCHANGED <<bVars, seenWorks, visible, trouble>>

\* The progress is recorded.  If no Work's spec changed, no report will come:
\* the binding is looked at again after a second.
FinishRefresh ==
    /\ WriteBinding(pass.b, Progressed(pass.b))
    /\ pass' = NoPass
    /\ later' = (later \/ ~pass.changed)
    /\ UNCHANGED queued

ReportProgress ==
    /\ pass.pc = "report"
    /\ \/ FinishRefresh
       \/ pass.b # binding /\ Retry /\ UNCHANGED bVars
    /\ UNCHANGED <<wVars, visible, trouble>>

\* cleanupWorks: the primary Work is deleted, the record of what was processed
\* is reset on a suspended binding, and the finalizer is removed.
CleanUp ==
    /\ Begin /\ Exists(seen) /\ seen.fin
    /\ seen.deleting \/ seen.suspended
    /\ works' = Deleted(0)
    /\ pass' = [pc |-> IF seen.deleting THEN "release" ELSE "reset", b |-> seen]
    /\ Continue
    /\ UNCHANGED <<bVars, seenWorks, made, visible, trouble>>

ResetProcessed ==
    LET new == [pass.b EXCEPT !.last = 0]
    IN  /\ pass.pc = "reset"
        /\ \/ /\ WriteBinding(pass.b, new)
              /\ pass' = [pc |-> "release", b |-> new]
              /\ UNCHANGED <<queued, later>>
           \/ pass.b # binding /\ Retry /\ UNCHANGED bVars
        /\ UNCHANGED <<wVars, visible, trouble>>

ReleaseBinding ==
    /\ pass.pc = "release"
    /\ \/ WriteBinding(pass.b, [pass.b EXCEPT !.fin = FALSE]) /\ End
       \/ pass.b # binding /\ Retry /\ UNCHANGED bVars
    /\ UNCHANGED <<wVars, visible, trouble>>

-----------------------------------------------------------------------------
(* The informers, the member agent, Kubernetes, the other controllers and the
   users. *)

\* Mutant: the creation of a binding is filtered out.
BindingWakesUpdated(old, new) == Exists(old) /\ old.gen # new.gen

\* GenerationChangedPredicate, creation and deletion.
BindingWakes(old, new) == old.gen # new.gen

DeliverBinding ==
    /\ seen # binding
    /\ seen' = binding
    /\ queued' = (queued \/ BindingWakes(seen, binding))
    /\ UNCHANGED <<binding, wVars, visible, later, pass, trouble>>

\* workObjHandlerFuncs: a Work is created or deleted, or its status changes.
WakesGenerator(old, new) ==
    \/ Exists(old) # Exists(new)
    \/ <<old.uid, old.report, old.reportGen>> # <<new.uid, new.report, new.reportGen>>

DeliverWork(i) ==
    /\ seenWorks[i] # works[i]
    /\ seenWorks' = [seenWorks EXCEPT ![i] = works[i]]
    /\ queued' = (queued \/ WakesGenerator(seenWorks[i], works[i]))
    /\ UNCHANGED <<bVars, works, made, visible, later, pass, trouble>>

SecondElapses ==
    /\ later
    /\ later' = FALSE /\ queued' = TRUE
    /\ UNCHANGED <<bVars, wVars, visible, pass, trouble>>

Report(i, r) ==
    /\ Exists(works[i]) /\ ~works[i].deleting
    /\ works[i].reportGen = works[i].gen => works[i].report # r
    /\ works' = [works EXCEPT ![i].report = r, ![i].reportGen = works[i].gen]
    /\ UNCHANGED <<bVars, seenWorks, made, visible, queued, later, pass>>

ReportAvailable(i) == Report(i, "Available") /\ UNCHANGED trouble

\* The member agent has removed what the Work placed.  A watch does not skip the
\* creation of an object: the Work has been in the cache by then.
WorkGone(i) ==
    /\ Exists(works[i]) /\ works[i].deleting /\ Exists(seenWorks[i])
    /\ works' = [works EXCEPT ![i] = NoWork]
    /\ UNCHANGED <<bVars, seenWorks, made, visible, queued, later, pass, trouble>>

OwnerGone(i) ==
    /\ i # 0 /\ Exists(works[i]) /\ ~works[i].deleting
    /\ Exists(works[0]) => works[0].uid # works[i].owner
    /\ works' = Deleted(i)
    /\ UNCHANGED <<bVars, seenWorks, made, visible, queued, later, pass, trouble>>

\* The informer has seen the snapshots.
Appear ==
    /\ visible = {}
    /\ visible' = Revisions
    /\ UNCHANGED <<bVars, wVars, queued, later, pass, trouble>>

\* What users, other controllers and faults do is bounded.
Edit(k) ==
    /\ k \in Surprises /\ trouble.edits < MaxEdits
    /\ trouble' = [trouble EXCEPT !.edits = @ + 1]

Fault(k) ==
    /\ k \in Surprises /\ trouble.faults < MaxFaults
    /\ trouble' = [trouble EXCEPT !.faults = @ + 1]

\* A manifest fails to apply, or what it placed is not available, at first: for
\* one generation of a Work the reports only get better.
ReportTrouble(i, r) ==
    /\ Fault("report") /\ Exists(works[i]) /\ works[i].reportGen # works[i].gen
    /\ Report(i, r)

EditBinding(new) ==
    /\ Exists(binding) /\ ~binding.deleting
    /\ binding' = [new EXCEPT !.gen = @ + 1, !.sync = "None", !.avail = "None"]
    /\ UNCHANGED <<seen, wVars, visible, queued, later, pass>>

Roll(r) ==
    /\ Edit("roll") /\ Exists(binding)
    /\ IF Rollbacks THEN r # binding.target ELSE r > binding.target
    /\ EditBinding([binding EXCEPT !.target = r])

ChangeStrategy(s) ==
    /\ Edit("strategy") /\ Exists(binding)
    /\ IF Rollbacks THEN s # binding.strategy ELSE s > binding.strategy
    /\ EditBinding([binding EXCEPT !.strategy = s])

Suspend ==
    /\ Edit("suspend") /\ Exists(binding) /\ ~binding.suspended
    /\ EditBinding([binding EXCEPT !.suspended = TRUE])

Resume ==
    /\ Exists(binding) /\ binding.suspended
    /\ EditBinding([binding EXCEPT !.suspended = FALSE])
    /\ UNCHANGED trouble

DeleteBinding ==
    /\ Edit("delete") /\ Exists(binding) /\ ~binding.deleting
    /\ binding' = IF binding.fin
                  THEN [binding EXCEPT !.deleting = TRUE, !.gen = @ + 1,
                                       !.sync = "None", !.avail = "None"]
                  ELSE NoBinding
    /\ UNCHANGED <<seen, wVars, visible, queued, later, pass>>

\* Somebody else deletes a Work.
RemoveWork(i) ==
    /\ Fault("remove") /\ Exists(works[i])
    /\ works' = Deleted(i)
    /\ UNCHANGED <<bVars, seenWorks, made, visible, queued, later, pass>>

\* A snapshot is garbage collected.
Prune(r) ==
    /\ Fault("prune") /\ r \in visible /\ Cardinality(visible) > 1
    /\ visible' = visible \ {r}
    /\ UNCHANGED <<bVars, wVars, queued, later, pass>>

\* A call to the API server fails.
CallFails ==
    /\ Fault("failure") /\ pass.pc # "idle"
    /\ Retry
    /\ UNCHANGED <<bVars, wVars, visible>>

Restart ==
    /\ Fault("restart")
    /\ pass' = NoPass /\ queued' = TRUE /\ later' = FALSE
    /\ seen' = binding /\ seenWorks' = works
    /\ UNCHANGED <<binding, works, made, visible>>

Reconcile ==
    \/ ReconcileNothing
    \/ AddFinalizer
    \/ RefreshStatus
    \/ PatchStrategy
    \/ PatchNext
    \/ SnapshotsInvalid
    \/ StartRefresh
    \/ DeleteDangling
    \/ \E i \in Subs : WriteWork(i)
    \/ ReportProgress
    \/ CleanUp
    \/ ResetProcessed
    \/ ReleaseBinding

Informers == DeliverBinding \/ (\E i \in Subs : DeliverWork(i)) \/ Appear
MemberAgent == \E i \in Subs : ReportAvailable(i) \/ WorkGone(i)
KubernetesGC == \E i \in Subs : OwnerGone(i)

Users ==
    \/ \E r \in Revisions : Roll(r)
    \/ \E s \in Strategies : ChangeStrategy(s)
    \/ Suspend
    \/ Resume
    \/ DeleteBinding

Faults ==
    \/ \E i \in Subs, r \in {"Failed", "Unavailable"} : ReportTrouble(i, r)
    \/ \E i \in Subs : RemoveWork(i)
    \/ \E r \in Revisions : Prune(r)
    \/ CallFails
    \/ Restart

Next ==
    \/ Reconcile
    \/ Informers
    \/ SecondElapses
    \/ MemberAgent
    \/ KubernetesGC
    \/ Users
    \/ Faults

Spec == Init /\ [][Next]_vars

\* The work queue and each informer event get on; the member agent ends up with every
\* Work available and lets deleted ones go.
FairSpec ==
    /\ Spec
    /\ WF_vars(Reconcile) /\ WF_vars(DeliverBinding \/ Appear)
    /\ \A i \in Subs : WF_vars(DeliverWork(i))
    /\ WF_vars(SecondElapses) /\ WF_vars(MemberAgent) /\ WF_vars(KubernetesGC)

-----------------------------------------------------------------------------
(* Properties *)

Works == [Subs -> Work \cup {NoWork}]

\* The reconciliation by where it stands: between two calls it holds the binding it
\* read, and the Works to be patched, deleted or written.
Passes ==
    {NoPass}
    \cup [pc : {"check", "reset", "release"}, b : Binding]
    \cup [pc : {"patch"}, b : Binding, read : Works, todo : SUBSET Subs]
    \cup [pc : {"prune", "write", "report"}, b : Binding, changed : BOOLEAN, owner : Nat,
          todo : SUBSET Subs]

\* The binding, the Works, their cached copies and the reconciliation are well formed.
TypeOK ==
    /\ binding \in Binding \cup {NoBinding} /\ seen \in Binding \cup {NoBinding}
    /\ works \in Works /\ seenWorks \in Works /\ made \in Nat
    /\ visible \subseteq Revisions
    /\ pass \in Passes
    /\ pass.pc = "patch" => pass.todo \subseteq Present(pass.read)

Living == {i \in Subs : Exists(works[i]) /\ ~works[i].deleting}

\* While there is a primary Work that nobody has asked to delete, the binding
\* exists and holds the cleanup finalizer (addPlacementBindingCleanupFinalizer,
\* cleanupWorks): whatever is suspended, resumed and deleted while copies lag, no
\* Work is left that no clean-up would find.
GuardedByFinalizer == 0 \in Living => Exists(binding) /\ binding.fin

\* The copies of the binding are in order: the cache is not ahead of the API server,
\* and two copies of one generation agree on what only users change.
Follows(b, c) ==
    /\ b.gen <= c.gen
    /\ b.gen = c.gen => b.suspended = c.suspended /\ b.deleting = c.deleting
CopiesInOrder == Exists(seen) /\ Exists(binding) => Follows(seen, binding)

\* A reconciliation that writes Works has the finalizer on the binding, and one may
\* only begin from a cached copy if it has.
WritesGuarded ==
    /\ pass.pc \in {"check", "patch", "prune", "write", "report"} => Exists(binding) /\ binding.fin
    /\ Active(seen) /\ seen.fin => Exists(binding) /\ binding.fin

\* A clean-up has asked for the deletion of the primary Work, and the cache is not
\* behind the copy it works on.
CleanUpGuarded ==
    pass.pc \in {"reset", "release"} =>
        /\ pass.b.gen # 0 /\ pass.b.fin
        /\ pass.b.deleting \/ pass.b.suspended
        /\ 0 \notin Living
        /\ Exists(binding) => Exists(seen) /\ Follows(pass.b, seen)

\* What makes GuardedByFinalizer inductive.
GuardInvariant ==
    /\ TypeOK
    /\ GuardedByFinalizer
    /\ CopiesInOrder
    /\ WritesGuarded
    /\ CleanUpGuarded

Served ==
    /\ Present(works) = Parts(binding.target)
    /\ \A i \in Parts(binding.target) :
          /\ works[i].linked = binding.target
          /\ works[i].body = ContentOf[binding.target]
          /\ works[i].strategy = binding.strategy
          /\ i # 0 => works[i].owner = works[0].uid
    /\ binding.last = binding.target
    /\ binding.sync = "True" /\ binding.avail = "True"

Settled ==
    IF ~Exists(binding) \/ binding.suspended THEN Present(works) = {}
    ELSE \/ Served
         \/ binding.target \notin visible /\ binding.sync = "Invalid"

\* Once the binding is left alone, the Works become exactly those of its revision
\* and the status says so; a binding whose snapshots are gone ends up marked, and
\* a suspended or deleted one without Works.
Settles == <>[]Settled

=============================================================================
