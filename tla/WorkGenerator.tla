---------------------------- MODULE WorkGenerator ----------------------------
(***************************************************************************)
(* The work generator for ONE binding: it turns the resource snapshot the  *)
(* binding names into Works in the namespace of the member cluster, one    *)
(* per sub-snapshot and one per envelope, keeps them in step with the      *)
(* binding, and summarises what the member reports on them.                *)
(*                                                                         *)
(* The Works are listed from an informer cache that lags behind the hub,   *)
(* every write is a separate call that other steps interleave with, calls  *)
(* fail, and a reconciliation only happens when some event has queued the  *)
(* binding.  A reconciliation that meets an invalid override returns       *)
(* without waiting for the writes it has already issued; those live on as  *)
(* strays.                                                                 *)
(*                                                                         *)
(* A condition of an older generation of the binding is treated by every   *)
(* reader like a missing one, so an edit of the binding drops it.          *)
(***************************************************************************)
EXTENDS Naturals, FiniteSets, Sequences

CONSTANTS
    Layout,         \* snapshot -> the sub-snapshots it is split into
    EnvelopeIn,     \* snapshot -> the sub-snapshot with the envelope, or NoEnvelope
    NoEnvelope,
    Content,        \* Work name -> snapshot -> version of the manifests
    Overridden,     \* names of the Works whose manifests the overrides change
    Overrides,      \* the lists of override snapshots a binding may have
    Bad,            \* overrides that fail, with the sub-snapshot they fail on
    Strategies,     \* the apply strategies a binding may have
    Targets,        \* the snapshot, overrides and strategy a binding may be given
    Reports,        \* the results a member may report
    MaxEdits,       \* bound: changes of the binding
    MaxMeddles,     \* bound: Works, snapshots, overrides and clusters removed by others
    MaxErrors,      \* bound: failed calls and restarts
    MaxEvents       \* bound: all of these together

Snapshots == DOMAIN Layout
Subs == UNION {Layout[v] : v \in Snapshots}
Main(i) == <<i, "work">>
Envelope(i) == <<i, "envelope">>
Names == {Main(i) : i \in Subs} \cup {Envelope(i) : i \in Subs}
Envelopes == {Envelope(i) : i \in Subs}

ASSUME GeneratorAssumption ==
    /\ \A v \in Snapshots : 0 \in Layout[v] /\ EnvelopeIn[v] \in Layout[v] \cup {NoEnvelope}
    /\ NoEnvelope \notin Subs
    /\ Targets \subseteq Snapshots \X Overrides \X Strategies
    /\ Strategies \subseteq {"ClientSideApply", "ReportDiff"}

\* What the member reports on a Work.  Failed, Applied and Available stand for
\* its Applied and Available conditions, the other two for DiffReported.
Results == {"None", "Failed", "Applied", "Available", "DiffFailed", "Diffed"}

\* The manifests a Work gets from snapshot v under the overrides o.
Manifests(n, v, o) == <<Content[n][v], IF n \in Overridden THEN o ELSE 0>>

\* The status carries the generation of the spec it was reported for.
NoStatus == [res |-> "None", gen |-> 0]
NoWork == [phase |-> "None", gen |-> 0, snap |-> 0, over |-> 0, strat |-> "None", status |-> NoStatus]

WorkRecord ==
    [phase  : {"None", "Live", "Deleting"},
     snap   : Snapshots \cup {0},           \* parent resource snapshot index and name
     over   : Overrides \cup {0},           \* hashes of the override snapshots
     strat  : Strategies \cup {"None"},
     gen    : Nat,
     status : [res : Results, gen : Nat]]

\* A write of new manifests or another strategy is a new generation of the spec.
SetSpec(n, w, v, o, s) ==
    LET same == w.gen > 0 /\ s = w.strat /\ Manifests(n, v, o) = Manifests(n, w.snap, w.over)
    IN  [w EXCEPT !.phase = "Live", !.snap = v, !.over = o, !.strat = s,
                  !.gen = IF same THEN @ ELSE @ + 1]

\* What the member has reported on the Work as it is now.
Result(w) == IF w.status.gen = w.gen THEN w.status.res ELSE "None"

NoConds == [over |-> "None", sync |-> "None", report |-> "None"]
Conditions ==
    [over   : {"None", "True", "False"},    \* Overridden
     sync   : {"None", "True", "False"},    \* WorkSynchronized
     report : {"None", "InProcess", "NotApplied", "Applied", "Available",
               "NotDiffed", "Diffed"}]

VARIABLES
    binding,    \* the binding on the hub
    hub,        \* snapshots, overrides and whether the member cluster is there
    works,      \* the Works on the hub
    seen,       \* the Works in the cache
    events,     \* the versions of each Work the cache has still to receive
    queued,     \* is the binding in the work queue
    job,        \* the reconciliation that is under way
    ops,        \* the writes issued and not yet carried out
    past,       \* what the binding has asked for before
    tampered,   \* has a stray been left, a Work been deleted by someone else, or
                \* has the binding gone back to what it asked for before
    budget
vars == <<binding, hub, works, seen, events, queued, job, ops, past, tampered, budget>>

OpRecord ==
    [kind  : {"strategy", "upsert", "delete"},
     name  : Names,
     new   : BOOLEAN,       \* a Create
     fresh : BOOLEAN,       \* the copy it is based on is still the latest version
     snap  : Snapshots \cup {0}, over : Overrides, strat : Strategies,
     stray : BOOLEAN]

Idle == [pc |-> "idle", state |-> "Bound", snap |-> 0, over |-> 0, strat |-> "ClientSideApply",
         current |-> FALSE, works |-> [n \in Names |-> NoWork],
         fresh |-> [n \in Names |-> FALSE], err |-> "None", overFailed |-> FALSE,
         updated |-> FALSE]

TypeOK ==
    /\ binding \in [phase : {"Live", "Deleting", "Gone"}, fin : BOOLEAN,
                    state : {"Scheduled", "Bound", "Unscheduled"},
                    snap : Snapshots \cup {0}, over : Overrides, strat : Strategies,
                    started : BOOLEAN, conds : Conditions]
    /\ hub \in [snaps : SUBSET Snapshots, overs : SUBSET Overrides, cluster : BOOLEAN]
    /\ works \in [Names -> WorkRecord]
    /\ \A n \in Names : works[n].phase # "None" =>
          works[n].snap \in Snapshots /\ works[n].strat \in Strategies /\ works[n].status.gen <= works[n].gen
    /\ seen \in [Names -> WorkRecord]
    /\ \A n \in Names : \A k \in DOMAIN events[n] : events[n][k] \in WorkRecord
    /\ queued \in BOOLEAN
    /\ job.pc \in {"idle", "strategy", "write", "status", "delete"}
    /\ job.err \in {"None", "Retry", "User"}
    /\ job.works \in [Names -> WorkRecord]
    /\ ops \subseteq OpRecord
    /\ past \subseteq Targets \cup {<<0, 0, "ClientSideApply">>}
    /\ tampered \in BOOLEAN
    /\ budget \in [edits : 0..MaxEdits, meddles : 0..MaxMeddles, errors : 0..MaxErrors]

Spend(what) ==
    /\ budget[what] > 0
    /\ MaxEdits + MaxMeddles + MaxErrors
         - (budget.edits + budget.meddles + budget.errors) < MaxEvents
    /\ budget' = [budget EXCEPT ![what] = @ - 1]

Init ==
    /\ binding = [phase |-> "Live", fin |-> FALSE, state |-> "Scheduled", snap |-> 0, over |-> 0,
                  strat |-> "ClientSideApply", started |-> FALSE, conds |-> NoConds]
    /\ hub = [snaps |-> Snapshots, overs |-> Overrides, cluster |-> TRUE]
    /\ works = [n \in Names |-> NoWork]
    /\ seen = works
    /\ events = [n \in Names |-> <<>>]
    /\ queued = TRUE
    /\ job = Idle
    /\ ops = {}
    /\ past = {}
    /\ tampered = FALSE
    /\ budget = [edits |-> MaxEdits, meddles |-> MaxMeddles, errors |-> MaxErrors]

\* The cache has the latest version of the Work.
Synced(n) == events[n] = <<>>

JobOps == {op \in ops : ~op.stray}

\* A write to a Work: every copy taken before it is out of date, and the next
\* Update that is based on one is refused.
Put(n, w) ==
    /\ works' = [works EXCEPT ![n] = w]
    /\ events' = [events EXCEPT ![n] = Append(@, w)]
Outdated(S, n) == {[op EXCEPT !.fresh = @ /\ op.name # n] : op \in S}
OutdatedJob(n) == [job EXCEPT !.fresh[n] = FALSE]

----------------------------------------------------------------------------
(* A reconciliation of a binding that is not being deleted.                *)

\* We only care about the bound bindings.  We treat unscheduled bindings as bound
\* until they are deleted.
Reconcilable == binding.phase = "Live" /\ binding.state # "Scheduled" /\ hub.cluster

\* The early returns of Reconcile: nothing to do, and nothing queues it again.
Skipped(b) == b.phase = "Gone" \/ (b.phase = "Live" /\ ~Reconcilable)

Skip ==
    /\ queued /\ job.pc = "idle"
    /\ Skipped(binding)
    /\ queued' = FALSE
    /\ UNCHANGED <<binding, hub, works, seen, events, job, ops, past, tampered, budget>>

RolloutPending == binding.state = "Bound" /\ ~binding.started

\* ensureFinalizer, then a requeue until the rollout controller has reported.
WaitForRollout ==
    /\ queued /\ job.pc = "idle"
    /\ Reconcilable /\ RolloutPending
    /\ ~binding.fin
    /\ binding' = [binding EXCEPT !.fin = TRUE]
    /\ UNCHANGED <<hub, works, seen, events, queued, job, ops, past, tampered, budget>>

\* listAllWorksAssociated: the Works in the cache that are not being deleted.
Listed == {n \in Names : seen[n].phase = "Live"}

Op(j, kind, n, new, stray) ==
    [kind |-> kind, name |-> n, new |-> new, fresh |-> j.fresh[n], snap |-> j.snap,
     over |-> j.over, strat |-> j.strat, stray |-> stray]

\* syncAllWork brings the apply strategy of every Work up to date first.
Start ==
    /\ queued /\ job.pc = "idle"
    /\ Reconcilable /\ ~RolloutPending
    /\ queued' = FALSE
    /\ binding' = [binding EXCEPT !.fin = TRUE]
    /\ job' = [Idle EXCEPT
                  !.pc = "strategy", !.state = binding.state, !.snap = binding.snap,
                  !.over = binding.over, !.strat = binding.strat, !.current = TRUE,
                  !.works = [n \in Names |-> IF n \in Listed THEN seen[n] ELSE NoWork],
                  !.fresh = [n \in Names |-> Synced(n)]]
    /\ ops' = ops \cup {Op(job', "strategy", n, FALSE, FALSE) :
                           n \in {m \in Listed : seen[m].strat # binding.strat}}
    /\ UNCHANGED <<hub, works, seen, events, past, tampered, budget>>

\* The list of the Works fails.
ListFails ==
    /\ queued /\ job.pc = "idle"
    /\ Reconcilable /\ ~RolloutPending
    /\ Spend("errors")
    /\ queued' = FALSE
    /\ binding' = [binding EXCEPT !.fin = TRUE]
    /\ job' = [Idle EXCEPT !.pc = "status", !.current = TRUE, !.err = "Retry", !.overFailed = TRUE]
    /\ UNCHANGED <<hub, works, seen, events, ops, past, tampered>>

\* syncApplyStrategy.
SyncApplyStrategy(op) ==
    /\ op.kind = "strategy"
    /\ IF op.fresh
       THEN LET w == SetSpec(op.name, works[op.name], works[op.name].snap, works[op.name].over, op.strat) IN
            /\ Put(op.name, w)
            /\ job' = [job EXCEPT !.works[op.name] = w, !.updated = TRUE]
            /\ ops' = Outdated(ops \ {op}, op.name)
       ELSE /\ job' = [job EXCEPT !.err = "Retry", !.overFailed = TRUE]
            /\ ops' = ops \ {op}
            /\ UNCHANGED <<works, events>>
    /\ UNCHANGED <<binding, hub, seen, queued, past, tampered, budget>>

StrategiesSynced == job.pc = "strategy" /\ JobOps = {} /\ job.err = "None"

\* areAllWorkSynced: it does not compare the overrides.
AllWorkSynced(b) ==
    /\ \E n \in Names : b.works[n].phase = "Live"
    /\ \A n \in Names : b.works[n].phase = "Live" => b.works[n].snap = b.snap

\* The master snapshot is gone.  The Works may still be what the binding asks for;
\* otherwise the error is a user error, which is not retried.
SnapshotMissing ==
    /\ StrategiesSynced
    /\ job.snap \notin hub.snaps
    /\ job' = IF AllWorkSynced(job) THEN [job EXCEPT !.pc = "status"]
              ELSE [job EXCEPT !.pc = "status", !.err = "User", !.overFailed = TRUE]
    /\ UNCHANGED <<binding, hub, works, seen, events, queued, ops, past, tampered, budget>>

\* fetchClusterResourceOverrideSnapshots and fetchResourceOverrideSnapshots.
OverrideMissing ==
    /\ StrategiesSynced
    /\ job.snap \in hub.snaps /\ job.over \notin hub.overs
    /\ job' = [job EXCEPT !.pc = "status", !.err = "User", !.overFailed = TRUE]
    /\ UNCHANGED <<binding, hub, works, seen, events, queued, ops, past, tampered, budget>>

\* The Works found for the envelope by its labels; unlike the list above it includes
\* those that are being deleted.  The name of a new one is derived from the
\* sub-snapshot the envelope is in.
EnvelopeWorks == {n \in Envelopes : seen[n].phase # "None"}
DuplicateEnvelope(v) == EnvelopeIn[v] # NoEnvelope /\ Cardinality(EnvelopeWorks) > 1
WorksOf(v, i) ==
    {Main(i)} \cup
    (IF EnvelopeIn[v] # i THEN {}
     ELSE IF EnvelopeWorks # {} THEN EnvelopeWorks ELSE {Envelope(i)})
ActiveWork(v) == UNION {WorksOf(v, i) : i \in Layout[v]}

\* Mutant: the override snapshots are not compared.
UpToDateSnapshot(n) == job.works[n].phase = "Live" /\ job.works[n].snap = job.snap

\* upsertWork leaves a Work alone that was generated from the same snapshots.
UpToDate(n) ==
    /\ job.works[n].phase = "Live"
    /\ job.works[n].snap = job.snap
    /\ job.works[n].over = job.over

UpsertOps(S, stray) ==
    {Op(job, "upsert", n, job.works[n].phase = "None", stray) : n \in {m \in S : ~UpToDate(m)}}

OverridesFail(i) == <<job.over, i>> \in Bad
Envelops(i) == EnvelopeIn[job.snap] = i
Fails(i) == OverridesFail(i) \/ (Envelops(i) /\ DuplicateEnvelope(job.snap))

\* A selected resource cannot be processed.  The sub-snapshots come in no
\* particular order; the writes for those before the failing one have been issued
\* and are not waited for.
ProcessingFails ==
    /\ StrategiesSynced
    /\ job.snap \in hub.snaps /\ job.over \in hub.overs
    /\ \E i \in Layout[job.snap] : \E L \in SUBSET (Layout[job.snap] \ {i}) :
          /\ Fails(i)
          /\ \A k \in L : ~Fails(k)
          /\ job' = [job EXCEPT !.pc = "status", !.overFailed = OverridesFail(i),
                                !.err = IF OverridesFail(i) THEN "User" ELSE "Retry"]
          /\ ops' = ops \cup UpsertOps(UNION {WorksOf(job.snap, k) : k \in L}, TRUE)
          /\ tampered' = (tampered \/ ops' # ops)
    /\ UNCHANGED <<binding, hub, works, seen, events, queued, past, budget>>

\* The Works that are not associated with any of the sub-snapshots.
Obsolete(S) == {n \in Names \ S : job.works[n].phase = "Live"}

\* processOneSelectedResource for every resource, then all the creates, updates and
\* deletes in parallel.
IssueWrites ==
    /\ StrategiesSynced
    /\ job.snap \in hub.snaps /\ job.over \in hub.overs
    /\ \A i \in Layout[job.snap] : ~Fails(i)
    /\ job' = [job EXCEPT !.pc = "write"]
    /\ LET active == ActiveWork(job.snap) IN
       ops' = ops \cup UpsertOps(active, FALSE)
                  \cup {Op(job, "delete", n, FALSE, FALSE) : n \in Obsolete(active)}
    /\ UNCHANGED <<binding, hub, works, seen, events, queued, past, tampered, budget>>

\* upsertWork.  Only the writes that are waited for are noted in the job.
UpsertWork(op) ==
    /\ op.kind = "upsert"
    /\ LET n == op.name
           accepted == IF op.new THEN works[n].phase = "None" ELSE op.fresh
           w == SetSpec(n, IF op.new THEN NoWork ELSE works[n], op.snap, op.over, op.strat)
       IN IF accepted
          THEN /\ Put(n, w)
               /\ ops' = Outdated(ops \ {op}, n)
               /\ job' = [OutdatedJob(n) EXCEPT !.updated = @ \/ ~op.stray]
          ELSE /\ ops' = ops \ {op}
               /\ job' = IF op.stray THEN job ELSE [job EXCEPT !.err = "Retry"]
               /\ UNCHANGED <<works, events>>
    /\ UNCHANGED <<binding, hub, seen, queued, past, tampered, budget>>

\* The member agent keeps a finalizer on the Work.
DeleteWork(op) ==
    /\ op.kind = "delete"
    /\ ops' = Outdated(ops \ {op}, op.name)
    /\ job' = [OutdatedJob(op.name) EXCEPT !.updated = TRUE]
    /\ IF works[op.name].phase = "Live" THEN Put(op.name, [works[op.name] EXCEPT !.phase = "Deleting"])
                                        ELSE UNCHANGED <<works, events>>
    /\ UNCHANGED <<binding, hub, seen, queued, past, tampered, budget>>

CallFails(op) ==
    /\ Spend("errors")
    /\ ops' = ops \ {op}
    /\ job' = IF op.stray THEN job
              ELSE [job EXCEPT !.err = "Retry", !.overFailed = @ \/ op.kind = "strategy"]
    /\ UNCHANGED <<binding, hub, works, seen, events, queued, past, tampered>>

\* The first error cancels the upserts that are still under way; in handleDelete
\* it ends the loop over the Works.
CancelOp(op) ==
    /\ ~op.stray /\ job.err = "Retry"
    /\ op.kind = "upsert" \/ job.pc = "delete"
    /\ ops' = ops \ {op}
    /\ UNCHANGED <<binding, hub, works, seen, events, queued, job, past, tampered, budget>>

\* Mutant: a Work that has not reported yet does not hold up the condition.
SummarizedIgnoringSilent(b) ==
    LET R == {Result(b.works[n]) : n \in {m \in Names : b.works[m].phase = "Live"}}
    IN  IF b.strat = "ReportDiff" THEN (IF "DiffFailed" \in R THEN "NotDiffed" ELSE "Diffed")
        ELSE IF "Failed" \in R THEN "NotApplied"
        ELSE IF "Applied" \in R THEN "Applied" ELSE "Available"

\* setBindingStatus: setAllWorkDiffReportedCondition for the ReportDiff strategy,
\* setAllWorkAppliedCondition and setAllWorkAvailableCondition for the others.
Summarized(b) ==
    LET R == {Result(b.works[n]) : n \in {m \in Names : b.works[m].phase = "Live"}}
    IN  IF b.strat = "ReportDiff" THEN (IF R \subseteq {"Diffed"} THEN "Diffed" ELSE "NotDiffed")
        ELSE IF ~(R \subseteq {"Applied", "Available"}) THEN "NotApplied"
        ELSE IF "Applied" \in R THEN "Applied" ELSE "Available"

\* The conditions Reconcile computes.
Computed(b) ==
    [over   |-> IF b.overFailed THEN "False" ELSE "True",
     sync   |-> IF b.err = "None" THEN "True" ELSE IF b.overFailed THEN "None" ELSE "False",
     report |-> IF b.err # "None" THEN "None"
                ELSE IF b.updated THEN "InProcess" ELSE Summarized(b)]

\* The conditions carry the generation that was reconciled.
Observed(b) == IF b.current THEN Computed(b) ELSE NoConds

\* Mutant: a failed write is only logged.
RetriedNever(b) == FALSE

\* A user error is not retried.
Retried(b) == b.err = "Retry"

\* updateBindingStatusWithRetry writes the status on the latest version of the
\* binding; it fails when the binding is gone.
UpdateStatus ==
    /\ \/ job.pc = "status"
       \/ JobOps = {} /\ (job.pc = "write" \/ (job.pc = "strategy" /\ job.err # "None"))
    /\ binding' = IF binding.phase = "Gone" THEN binding
                  ELSE [binding EXCEPT !.conds = Observed(job)]
    /\ queued' = (queued \/ Retried(job) \/ binding.phase = "Gone")
    /\ job' = Idle
    /\ UNCHANGED <<hub, works, seen, events, ops, past, tampered, budget>>

----------------------------------------------------------------------------
(* A reconciliation of a binding that is being deleted.                    *)

StartDelete ==
    /\ queued /\ job.pc = "idle"
    /\ binding.phase = "Deleting" /\ ~Skipped(binding)
    /\ queued' = FALSE
    /\ job' = [Idle EXCEPT !.pc = "delete", !.works = [n \in Names |-> IF n \in Listed THEN seen[n] ELSE NoWork]]
    /\ ops' = ops \cup {Op(job', "delete", n, FALSE, FALSE) : n \in Listed}
    /\ UNCHANGED <<binding, hub, works, seen, events, past, tampered, budget>>

\* The finalizer goes once no Work is listed; Works that are being deleted are not.
Releasable(b) == b.works = [n \in Names |-> NoWork]

FinishDelete ==
    /\ job.pc = "delete" /\ JobOps = {}
    /\ IF job.err = "None" /\ Releasable(job)
       THEN /\ binding' = [binding EXCEPT !.phase = "Gone", !.fin = FALSE]
            /\ UNCHANGED queued
       ELSE queued' = TRUE /\ UNCHANGED binding
    /\ job' = Idle
    /\ UNCHANGED <<hub, works, seen, events, ops, past, tampered, budget>>

----------------------------------------------------------------------------
(* The rollout controller and the scheduler, as far as the binding goes.   *)

Target(b) == <<b.snap, b.over, b.strat>>

\* A change of the spec is a new generation; only that queues the binding.
Edit(b) ==
    /\ binding' = [b EXCEPT !.started = FALSE, !.conds = NoConds]
    /\ queued' = TRUE
    /\ job' = [job EXCEPT !.current = FALSE]
    /\ past' = past \cup {Target(binding)}
    /\ tampered' = (tampered \/ (Target(b) # Target(binding) /\ Target(b) \in past))
    /\ UNCHANGED <<hub, works, seen, events, ops>>

Bind ==
    /\ binding.phase = "Live" /\ binding.state = "Scheduled"
    /\ 1 \in hub.snaps
    /\ Edit([binding EXCEPT !.state = "Bound", !.snap = 1])
    /\ UNCHANGED budget

UpdateBinding ==
    /\ binding.phase = "Live" /\ binding.state = "Bound"
    /\ Spend("edits")
    /\ \E t \in Targets \ {Target(binding)} :
          /\ t[1] \in hub.snaps
          /\ Edit([binding EXCEPT !.snap = t[1], !.over = t[2], !.strat = t[3]])

Unschedule ==
    /\ binding.phase = "Live" /\ binding.state = "Bound"
    /\ Spend("edits")
    /\ Edit([binding EXCEPT !.state = "Unscheduled"])

DeleteBinding ==
    /\ binding.phase = "Live"
    /\ Spend("edits")
    /\ Edit([binding EXCEPT !.phase = IF binding.fin THEN "Deleting" ELSE "Gone"])

\* The RolloutStarted condition is status: it queues nothing.
MarkRolloutStarted ==
    /\ binding.phase = "Live" /\ binding.state = "Bound" /\ ~binding.started
    /\ binding' = [binding EXCEPT !.started = TRUE]
    /\ UNCHANGED <<hub, works, seen, events, queued, job, ops, past, tampered, budget>>

----------------------------------------------------------------------------
(* The member agent, the informers and everybody else.                     *)

\* workHandlerFuncs: a Work that is gone, one whose status has changed, and one
\* generated from other snapshots queue the binding; a new one does not.
Handled(old, new) ==
    \/ old.phase # "None" /\ new.phase = "None"
    \/ /\ old.phase # "None" /\ new.phase # "None"
       /\ old.status # new.status \/ old.snap # new.snap \/ old.over # new.over

Deliver(n) ==
    /\ ~Synced(n)
    /\ seen' = [seen EXCEPT ![n] = Head(events[n])]
    /\ events' = [events EXCEPT ![n] = Tail(@)]
    /\ queued' = (queued \/ Handled(seen[n], Head(events[n])))
    /\ UNCHANGED <<binding, hub, works, job, ops, past, tampered, budget>>

\* The results a member may report on a Work after the one it has reported.
Reportable(w) ==
    IF w.strat = "ReportDiff" THEN (IF Result(w) = "None" THEN {"DiffFailed", "Diffed"}
                                    ELSE IF Result(w) = "DiffFailed" THEN {"Diffed"} ELSE {})
    ELSE CASE Result(w) = "None"   -> {"Failed", "Applied", "Available"}
           [] Result(w) = "Failed" -> {"Applied", "Available"}
           [] Result(w) = "Applied" -> {"Available"}
           [] OTHER -> {}

Report(n) ==
    /\ works[n].phase = "Live"
    /\ \E r \in Reportable(works[n]) \cap Reports :
          Put(n, [works[n] EXCEPT !.status = [res |-> r, gen |-> works[n].gen]])
    /\ ops' = Outdated(ops, n)
    /\ job' = OutdatedJob(n)
    /\ UNCHANGED <<binding, hub, seen, queued, past, tampered, budget>>

\* The member agent has cleaned up and removes its finalizer.
RemoveWork(n) ==
    /\ works[n].phase = "Deleting"
    /\ Put(n, NoWork)
    /\ ops' = Outdated(ops, n)
    /\ job' = OutdatedJob(n)
    /\ UNCHANGED <<binding, hub, seen, queued, past, tampered, budget>>

DeletedBehindOurBack(n) ==
    /\ Spend("meddles")
    /\ works[n].phase = "Live"
    /\ Put(n, [works[n] EXCEPT !.phase = "Deleting"])
    /\ ops' = Outdated(ops, n)
    /\ job' = OutdatedJob(n)
    /\ tampered' = TRUE
    /\ UNCHANGED <<binding, hub, seen, queued, past>>

\* The placement controller prunes a snapshot beyond its history limit.
Prune(v) ==
    /\ Spend("meddles")
    /\ v \in hub.snaps
    /\ hub' = [hub EXCEPT !.snaps = @ \ {v}]
    /\ UNCHANGED <<binding, works, seen, events, queued, job, ops, past, tampered>>

PruneOverride(o) ==
    /\ Spend("meddles")
    /\ o \in hub.overs /\ o # 0
    /\ hub' = [hub EXCEPT !.overs = @ \ {o}]
    /\ UNCHANGED <<binding, works, seen, events, queued, job, ops, past, tampered>>

LoseCluster ==
    /\ Spend("meddles")
    /\ hub.cluster
    /\ hub' = [hub EXCEPT !.cluster = FALSE]
    /\ UNCHANGED <<binding, works, seen, events, queued, job, ops, past, tampered>>

\* The hub agent restarts: every binding is queued, the cache is filled anew.
Restart ==
    /\ Spend("errors")
    /\ job' = Idle /\ ops' = {} /\ queued' = TRUE
    /\ seen' = works
    /\ events' = [n \in Names |-> <<>>]
    /\ UNCHANGED <<binding, hub, works, past, tampered>>

Call(op) == SyncApplyStrategy(op) \/ UpsertWork(op) \/ DeleteWork(op)

Generator ==
    \/ Skip \/ WaitForRollout \/ Start \/ SnapshotMissing \/ OverrideMissing
    \/ ProcessingFails \/ IssueWrites \/ UpdateStatus
    \/ StartDelete \/ FinishDelete
    \/ \E op \in ops : Call(op)

Environment ==
    \/ Bind \/ UpdateBinding \/ Unschedule \/ DeleteBinding \/ MarkRolloutStarted
    \/ ListFails \/ Restart \/ LoseCluster
    \/ \E op \in ops : CallFails(op) \/ CancelOp(op)
    \/ \E n \in Names : Deliver(n) \/ Report(n) \/ RemoveWork(n) \/ DeletedBehindOurBack(n)
    \/ \E v \in Snapshots : Prune(v)
    \/ \E o \in Overrides : PruneOverride(o)

Next == Generator \/ Environment
Spec == Init /\ [][Next]_vars

\* The queue hands a queued binding to a worker, which finishes; the informer
\* catches up; the rollout controller reports on the new generation and the
\* member agent on a Work.
FairSpec ==
    /\ Spec
    /\ WF_vars(Generator)
    /\ WF_vars(Bind) /\ WF_vars(MarkRolloutStarted)
    /\ \A n \in Names : WF_vars(Deliver(n)) /\ WF_vars(Report(n)) /\ WF_vars(RemoveWork(n))

----------------------------------------------------------------------------
\* The Work is what the binding asks for.
AsBound(n) ==
    /\ works[n].phase = "Live"
    /\ works[n].snap = binding.snap
    /\ works[n].over = binding.over
    /\ works[n].strat = binding.strat

\* One Work per sub-snapshot, and one for the envelope under some name.
AllAsBound ==
    /\ \A i \in Layout[binding.snap] : AsBound(Main(i))
    /\ EnvelopeIn[binding.snap] # NoEnvelope => \E n \in Envelopes : AsBound(n)

\* WorkSynchronized is True only when every Work the snapshot of the binding calls
\* for is on the hub with the manifests, overrides and strategy of the binding, in
\* whatever order the parallel calls succeed and fail, and however far behind the
\* list is that syncAllWork compares with.  (A Work that someone else deleted, a
\* write left over from a failed reconciliation, and a binding that goes back to
\* what it was before the list has caught up, are found out later.)
SyncedIsCurrent ==
    (/\ binding.phase = "Live"
     /\ binding.conds.sync = "True"
     /\ binding.snap \in hub.snaps
     /\ ~tampered) => AllAsBound

\* When the binding reports that its Works are applied, available or compared, then
\* the member has reported so on every one of them, and for the spec it has now:
\* setBindingStatus lets no result of an earlier generation through.
ReportIsEarned ==
    (/\ binding.phase = "Live"
     /\ binding.conds.report \in {"Applied", "Available", "Diffed"}
     /\ binding.snap \in hub.snaps
     /\ ~tampered) =>
        \A i \in Layout[binding.snap] :
            Result(works[Main(i)]) \in (IF binding.strat = "ReportDiff" THEN {"Diffed"}
                                        ELSE {"Applied", "Available"})

Deliverable ==
    /\ binding.phase = "Live" /\ binding.state # "Scheduled" /\ hub.cluster
    /\ binding.snap \in hub.snaps /\ binding.over \in hub.overs
    /\ \A i \in Layout[binding.snap] : <<binding.over, i>> \notin Bad

\* In the end a deleted binding is gone, and the Works are exactly those of the snapshot, everything they carry is
\* what the binding asks for, and the binding reports what they report, after failed
\* calls, restarts, invalid overrides that have been corrected and Works deleted by
\* someone else.
Converges ==
    <>[](/\ binding.phase # "Deleting"
         /\ Deliverable => /\ AllAsBound
                           /\ \A n \in Names : works[n].phase # "None" =>
                                 AsBound(n) /\ n \in ActiveWork(binding.snap)
                           /\ binding.conds.sync = "True"
                           /\ binding.conds.report \in {"Available", "Diffed"})
=============================================================================
