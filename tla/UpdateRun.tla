----------------------------- MODULE UpdateRun -----------------------------
(***************************************************************************)
(* Staged update runs: the alternative to the rollout controller for a     *)
(* placement whose strategy is External.  A run moves the bindings the     *)
(* scheduler has selected to one resource snapshot, stage by stage, at     *)
(* most maxConcurrency clusters at a time, and then deletes the bindings   *)
(* the scheduler has deselected.  Before and after a stage it may have to  *)
(* wait for an approval or for a while.  The user can stop, resume and     *)
(* delete the run.                                                         *)
(*                                                                         *)
(* The controller has one worker.  job is the reconciliation in progress:  *)
(* it reads the run and the (cached) bindings once, changes its own copy   *)
(* of the run's status, writes bindings and approval requests on the way,  *)
(* and stores the status last, if no one has written the run since.        *)
(***************************************************************************)
EXTENDS Naturals, Sequences, FiniteSets, FiniteSetsExt

CONSTANTS
    Run,            \* the update runs of the placement
    Cluster,        \* the clusters
    None,
    Order,          \* the clusters as a stage sorts them
    Stages,         \* the strategy: [before, wait, after, max] of each stage
    DeleteGate,     \* the delete stage waits for an approval
    Target,         \* the resource snapshot of each run
    Labels,         \* the clusters of each stage, at first
    Starts          \* the starts: the clusters, the runs, and what may happen

N == Len(Stages)

DeleteStage == N + 1

StageIndex == 1..N

\* Bounds: policies published, edits of runs, requests and labels; restarts of the controller;
\* evictions and failures on the clusters; the binding informer may lag behind.
Budget == [policies : Nat, edits : Nat, errors : Nat, mishaps : Nat, lags : BOOLEAN]

\* The clusters picked, bound before and deselected, and the runs created.
Start == [picked : SUBSET Cluster, bound : SUBSET Cluster, removed : SUBSET Cluster,
          runs : SUBSET Run, budget : Budget]

ASSUME UpdateRunAssumption ==
    /\ IsFiniteSet(Cluster)
    /\ None \notin Cluster \cup Run
    /\ Order \in Seq(Cluster) /\ {Order[i] : i \in DOMAIN Order} = Cluster
    /\ Stages \in Seq([before : BOOLEAN, wait : BOOLEAN, after : BOOLEAN,
                       max : [percent : BOOLEAN, value : Nat]])
    /\ DeleteGate \in BOOLEAN
    /\ Target \in [Run -> Nat \ {0}]
    /\ Labels \in [StageIndex -> SUBSET Cluster]
    /\ Starts \subseteq Start

VARIABLES
    bind,       \* the binding of each cluster
    seen,       \* the bindings as the informer last delivered them
    synced,     \* the bindings whose latest version was delivered
    placed,     \* the placement: its policy, and the clusters of each stage
    run,        \* the stored update runs
    request,    \* the approval requests
    job,        \* the reconciliation in progress
    flight,     \* the bindings each run has moved and that are not up yet
    granted,    \* the approvals the user has given and not taken back
    budget

vars == <<bind, seen, synced, placed, run, request, job, flight, granted, budget>>

----------------------------------------------------------------------------
(* The objects.                                                            *)

\* started, report: RolloutStarted, and Available or a failure, as far as they
\* are about the current generation.
BindingObj ==
    [phase   : {"absent", "live", "deleting"},
     state   : {"Scheduled", "Bound", "Unscheduled"},
     policy  : Nat,
     snap    : Nat,
     started : BOOLEAN,
     report  : {"none", "up", "failed"}]

NoBinding ==
    [phase |-> "absent", state |-> "Scheduled", policy |-> 0, snap |-> 0,
     started |-> FALSE, report |-> "none"]

NewGeneration(b) == [b EXCEPT !.started = FALSE, !.report = "none"]

\* labels: the clusters each stage's label selector matches; scheduled: the
\* scheduler has finished with the policy.
PlacementObj ==
    [policy : Nat, scheduled : BOOLEAN,
     labels : [StageIndex -> SUBSET Cluster]]

Task == (1..DeleteStage) \X {"before", "after"}

\* stage: the Progressing and Succeeded conditions of a stage; aged: the wait
\* time has passed since Progressing last changed its status; rested: since the
\* last cluster of the stage was found updated (not a field of the object).
RunObj ==
    [phase    : {"active", "deleting", "gone"},
     state    : {"Initialize", "Run", "Stop"},
     init     : {"none", "ok", "failed"},
     done     : {"none", "succeeded", "failed"},
     why      : {"none", "changed", "preempted", "unexpected"},
     progress : {"none", "progressing", "waiting", "stopping", "stopped", "ended"},
     policy   : Nat,
     members  : [1..DeleteStage -> SUBSET Cluster],
     cluster  : [Cluster -> {"idle", "started", "succeeded", "failed"}],
     stage    : [1..DeleteStage -> {"idle", "started", "waiting", "stopping",
                                    "stopped", "succeeded", "failed"}],
     begun    : BOOLEAN,            \* the delete stage has a start time
     task     : [Task -> {"none", "created", "approved"}],
     elapsed  : [StageIndex -> BOOLEAN],
     aged     : [StageIndex -> BOOLEAN],
     rested   : [StageIndex -> BOOLEAN]]

NewRun(state) ==
    [phase |-> "active", state |-> state, init |-> "none", done |-> "none",
     why |-> "none", progress |-> "none", policy |-> 0,
     members |-> [s \in 1..DeleteStage |-> {}],
     cluster |-> [c \in Cluster |-> "idle"],
     stage |-> [s \in 1..DeleteStage |-> "idle"],
     begun |-> FALSE,
     task |-> [t \in Task |-> "none"],
     elapsed |-> [s \in StageIndex |-> FALSE],
     aged |-> [s \in StageIndex |-> FALSE],
     rested |-> [s \in StageIndex |-> FALSE]]

NoRun == [NewRun("Run") EXCEPT !.phase = "gone"]

Request == {"absent", "pending", "approved", "accepted"}

\* mem, fresh: the run in memory, and whether it is still the stored version;
\* view, held: the same for the bindings.
Job ==
    [run      : Run \cup {None},
     pc       : {"idle", "init", "before", "clusters", "start", "after",
                 "delete", "record"},
     mem      : RunObj,
     fresh    : BOOLEAN,
     view     : [Cluster -> BindingObj],
     held     : SUBSET Cluster,
     stage    : 1..DeleteStage,
     todo     : SUBSET Cluster,     \* clusters of the stage still to look at
     updating : Nat,                \* clusterUpdatingCount
     finished : Nat,                \* finishedClusterCount
     why      : {"none", "preempted", "unexpected"},
     err      : BOOLEAN]            \* an error worth a retry

Idle ==
    [run |-> None, pc |-> "idle", mem |-> NewRun("Run"), fresh |-> FALSE,
     view |-> [c \in Cluster |-> NoBinding], held |-> {}, stage |-> 1,
     todo |-> {}, updating |-> 0, finished |-> 0, why |-> "none", err |-> FALSE]

\* Every object and the reconciliation keep their shape: a run, a stage or a
\* cluster only ever has conditions the code can give it.
TypeOK ==
    /\ bind \in [Cluster -> BindingObj]
    /\ seen \in [Cluster -> BindingObj]
    /\ synced \subseteq Cluster
    /\ placed \in PlacementObj
    /\ run \in [Run -> RunObj]
    /\ request \in [Run -> [Task -> Request]]
    /\ job \in Job
    /\ flight \in [Run -> SUBSET Cluster]
    /\ granted \in [Run -> SUBSET Task]
    /\ budget \in Budget

First(S) == Order[Min({i \in DOMAIN Order : Order[i] \in S})]

----------------------------------------------------------------------------
(* collectScheduledClusters, over the bindings b and a policy.             *)

Selected(b, policy) ==
    {c \in Cluster : /\ b[c].phase # "absent"
                     /\ b[c].policy = policy
                     /\ b[c].state # "Unscheduled"}

Removed(b) == {c \in Cluster : b[c].phase # "absent" /\ b[c].state = "Unscheduled"}

\* A binding of an older policy that is still in use: the scheduler has not
\* got to it, or the cache lags.
Transient(b, policy) ==
    \E c \in Cluster : /\ b[c].phase # "absent"
                       /\ b[c].policy # policy
                       /\ b[c].state # "Unscheduled"

NothingToDo(b, policy) == Selected(b, policy) \cup Removed(b) = {}

\* computeRunStageStatus: each selected cluster belongs to exactly one stage.
StageClusters(b, s) == placed.labels[s] \cap Selected(b, placed.policy)

Partitioned(b) ==
    /\ \A s, t \in StageIndex : s # t => StageClusters(b, s) \cap StageClusters(b, t) = {}
    /\ UNION {StageClusters(b, s) : s \in StageIndex} = Selected(b, placed.policy)

\* calculateMaxConcurrencyValue: rounded down, but at least one.
MaxConcurrency(s, m) ==
    LET max == Stages[s].max
        scaled == IF max.percent THEN (max.value * Cardinality(m.members[s])) \div 100
                  ELSE max.value
    IN  IF scaled = 0 THEN 1 ELSE scaled

----------------------------------------------------------------------------
(* Changes of the run in memory.                                           *)

\* A condition remembers when its status (True, False or Unknown) changed last.
Status(reason) ==
    CASE reason = "started" -> "True"
      [] reason = "stopping" -> "Unknown"
      [] reason = "idle" -> "none"
      [] OTHER -> "False"

\* Mutant: the time of a change is kept.
MarkStageTimeless(m, s, reason) == [m EXCEPT !.stage[s] = reason]

MarkStage(m, s, reason) ==
    [m EXCEPT !.stage[s] = reason,
              !.aged = IF s # DeleteStage /\ Status(m.stage[s]) # Status(reason)
                       THEN [@ EXCEPT ![s] = FALSE] ELSE @]

MarkRun(m, reason) == [m EXCEPT !.progress = reason]

MarkCluster(m, S, reason) ==
    [m EXCEPT !.cluster = [c \in Cluster |-> IF c \in S THEN reason ELSE @[c]]]

\* recordUpdateRunFailed
Failed(m, why) == [m EXCEPT !.done = "failed", !.why = why, !.progress = "ended"]

\* markUpdateRunProgressingIfNotWaitingOrStuck
Progressing(m) == IF m.progress = "waiting" THEN m ELSE MarkRun(m, "progressing")

\* checkClusterUpdateResult
Updated(b) == b.report = "up"

Erring(b) == b.report = "failed"

Unfinished(m, s) == {c \in m.members[s] : m.cluster[c] = "started"}

----------------------------------------------------------------------------
(* Validation: which stage comes next, or why the run cannot go on.        *)

Finished(m) == {s \in StageIndex : m.stage[s] = "succeeded"}

\* The stage after the last finished one.
NextStage(m) == IF Finished(m) = StageIndex
                THEN DeleteStage
                ELSE Min(StageIndex \ Finished(m))

\* The cluster selection has not changed.
SameStages(m, b) ==
    /\ Partitioned(b)
    /\ \A s \in StageIndex : m.members[s] = StageClusters(b, s)

\* The findings validateClusterUpdatingStatus and validateDeleteStageStatus
\* call unexpected.
Inconsistent(m, b) ==
    \/ \E s \in Finished(m) : \/ \E t \in 1..(s - 1) : t \notin Finished(m)
                              \/ \E c \in m.members[s] : m.cluster[c] # "succeeded"
    \/ \E s \in StageIndex \ Finished(m) :
          \/ m.stage[s] = "failed"
          \/ m.stage[s] # "idle" /\ s # NextStage(m)
          \/ Cardinality(Unfinished(m, s)) > MaxConcurrency(s, m)
    \/ ~(Removed(b) \subseteq m.members[DeleteStage])
    \/ /\ NextStage(m) # DeleteStage
       /\ m.stage[DeleteStage] \in {"started", "succeeded", "failed"}

\* syncDeleteStageClusterStatuses: what it calls unexpected ...
DeletionInconsistent(m, b) ==
    \E c \in Removed(b) :
        \/ c \notin m.members[DeleteStage]
        \/ m.cluster[c] = "succeeded"
        \/ m.cluster[c] = "started" /\ b[c].phase = "live"

\* Mutant: the bindings that are gone are not noticed.
SyncDeletionBlind(m, b) == m

\* ... and the clusters without a binding, whose deletion is complete.
SyncDeletion(m, b) == MarkCluster(m, m.members[DeleteStage] \ Removed(b), "succeeded")

----------------------------------------------------------------------------
(* stop: no new cluster is started, the ones under way are waited for.     *)

StopStage(j) ==
    LET s == j.stage
        m == MarkStage(MarkRun(j.mem, "stopping"), s, "stopping")
        up == {c \in Unfinished(m, s) : Updated(j.view[c])}
        stopped == MarkCluster(m, up, "succeeded")
    IN  IF Unfinished(stopped, s) = {}
        THEN MarkRun(MarkStage(stopped, s, "stopped"), "stopped")
        ELSE stopped

StopDeletion(j) ==
    LET m == MarkStage(MarkRun(j.mem, "stopping"), DeleteStage, "stopping")
        synced_ == SyncDeletion(m, j.view)
    IN  IF DeletionInconsistent(m, j.view)
        THEN Failed(MarkStage(m, DeleteStage, "failed"), "unexpected")
        ELSE IF Unfinished(synced_, DeleteStage) = {}
        THEN MarkRun(MarkStage(synced_, DeleteStage, "stopped"), "stopped")
        ELSE synced_

\* What a validated reconciliation does next.
Dispatch(j) ==
    LET s == j.stage
        m == Progressing(j.mem)
    IN  IF j.mem.state = "Initialize" THEN Idle
        ELSE IF j.mem.state = "Stop"
        THEN [j EXCEPT !.pc = "record",
                       !.mem = IF s = DeleteStage THEN StopDeletion(j) ELSE StopStage(j)]
        ELSE IF s # DeleteStage /\ j.mem.members[s] = {}
        THEN [j EXCEPT !.pc = "record", !.mem = MarkStage(m, s, "succeeded")]
        ELSE [j EXCEPT !.pc = "before", !.mem = m, !.todo = m.members[s]]

----------------------------------------------------------------------------
(* Reconcile.                                                              *)

world == <<bind, seen, synced, placed>>

ghosts == <<flight, granted, budget>>

\* The run and the cached bindings are read.
Read(r) ==
    [Idle EXCEPT !.run = r, !.mem = run[r], !.fresh = TRUE,
                 !.view = seen, !.held = synced]

InitializeFails ==
    \/ ~placed.scheduled
    \/ NothingToDo(seen, placed.policy)
    \/ ~Partitioned(seen)

\* initialize: the policy, the stages and their clusters are recorded.
Initialize(r) ==
    /\ job = Idle
    /\ run[r].phase = "active" /\ run[r].init = "none"
    /\ placed.scheduled => ~Transient(seen, placed.policy)
    /\ job' = IF InitializeFails
              THEN [Read(r) EXCEPT !.pc = "record", !.mem.init = "failed"]
              ELSE [Read(r) EXCEPT
                      !.pc = "init",
                      !.mem.init = "ok",
                      !.mem.policy = placed.policy,
                      !.mem.members = [s \in 1..DeleteStage |->
                                          IF s = DeleteStage THEN Removed(seen)
                                          ELSE StageClusters(seen, s)]]
    /\ UNCHANGED <<world, run, request, ghosts>>

\* recordInitializationSucceeded, then on with the first stage.
RecordInitialized ==
    /\ job.pc = "init"
    /\ IF job.fresh
       THEN /\ run' = [run EXCEPT ![job.run] = job.mem]
            /\ job' = Dispatch(job)
       ELSE /\ job' = Idle
            /\ UNCHANGED run
    /\ UNCHANGED <<world, request, ghosts>>

Changed(m) ==
    \/ ~placed.scheduled
    \/ m.policy # placed.policy
    \/ NothingToDo(seen, placed.policy)
    \/ ~SameStages(m, seen)

\* validate
Validate(r) ==
    LET m == run[r]
        read == Read(r)
    IN  /\ job = Idle
        /\ m.phase = "active" /\ m.init = "ok" /\ m.done = "none"
        /\ placed.scheduled /\ m.policy = placed.policy => ~Transient(seen, placed.policy)
        /\ job' = IF Changed(m) THEN [read EXCEPT !.pc = "record", !.mem = Failed(m, "changed")]
                  ELSE IF Inconsistent(m, seen)
                  THEN [read EXCEPT !.pc = "record", !.mem = Failed(m, "unexpected")]
                  ELSE Dispatch([read EXCEPT !.stage = NextStage(m)])
        /\ UNCHANGED <<world, run, request, ghosts>>

----------------------------------------------------------------------------
(* Approvals.                                                              *)

\* Mutant: an existing request is enough.
GrantedOnceCreated(t) == request[job.run][t] # "absent"

\* handleStageApprovalTask: the request is created, or, once the user has
\* approved it, accepted.
Granted(t) ==
    \/ job.mem.task[t] = "approved"
    \/ request[job.run][t] \in {"approved", "accepted"}

AskApproval(t) ==
    request' = [request EXCEPT ![job.run][t] =
                  IF job.mem.task[t] = "approved" THEN @
                  ELSE CASE @ = "absent" -> "pending"
                         [] @ = "approved" -> "accepted"
                         [] OTHER -> @]

Asked(m, t) == [m EXCEPT !.task[t] = IF Granted(t) THEN "approved" ELSE "created"]

\* The delete stage asks only before it starts, and if it has work to do.
Gated(s) ==
    IF s = DeleteStage
    THEN DeleteGate /\ Removed(job.view) # {} /\ ~job.mem.begun
    ELSE Stages[s].before

\* The delete stage once it may start: it looks at its clusters.
BeginDeletion(m) ==
    LET begun == [MarkStage(m, DeleteStage, "started") EXCEPT !.begun = TRUE]
    IN  IF DeletionInconsistent(m, job.view)
        THEN [job EXCEPT !.pc = "record",
                         !.mem = Failed(MarkStage(begun, DeleteStage, "failed"), "unexpected")]
        ELSE [job EXCEPT !.pc = "delete",
                         !.mem = SyncDeletion(begun, job.view),
                         !.todo = {c \in Removed(job.view) : m.cluster[c] = "idle"}]

Begin(m) ==
    IF job.stage = DeleteStage THEN BeginDeletion(m)
    ELSE [job EXCEPT !.pc = "clusters", !.mem = m]

BeforeStage ==
    LET s == job.stage
        t == <<s, "before">>
        asked == Asked(job.mem, t)
    IN  /\ job.pc = "before"
        /\ IF ~Gated(s) THEN job' = Begin(job.mem) /\ UNCHANGED request
           ELSE /\ AskApproval(t)
                /\ job' = IF ~Granted(t)
                          THEN [job EXCEPT
                                  !.pc = "record",
                                  !.mem = MarkRun(MarkStage(asked, s, "waiting"), "waiting")]
                          ELSE IF s = DeleteStage
                          THEN Begin(MarkRun(asked, "progressing"))
                          ELSE Begin(asked)
        /\ UNCHANGED <<world, run, ghosts>>

----------------------------------------------------------------------------
(* executeUpdatingStage: the clusters in their order.                      *)

LoopEnds ==
    job.todo = {} \/ job.updating >= MaxConcurrency(job.stage, job.mem)

Turn(c) ==
    /\ job.pc = "clusters"
    /\ ~LoopEnds
    /\ c = First(job.todo)

InSync(b) == b.snap = Target[job.run]

\* A binding is written; the informer delivers it sooner or later.
Write(c, b) ==
    /\ bind' = [bind EXCEPT ![c] = b]
    /\ IF budget.lags
       THEN synced' = synced \ {c} /\ UNCHANGED seen
       ELSE seen' = [seen EXCEPT ![c] = b] /\ UNCHANGED synced

Takes(r, c) == flight' = [q \in Run |-> IF q = r THEN flight[q] \cup {c} ELSE flight[q] \ {c}]

SkipSucceeded(c) ==
    /\ Turn(c)
    /\ job.mem.cluster[c] = "succeeded"
    /\ job' = [job EXCEPT !.todo = @ \ {c}, !.finished = @ + 1]
    /\ UNCHANGED <<world, run, request, ghosts>>

\* The binding is not what the run wants: it is bound and moved to the target.
UpdateBinding(c) ==
    LET new == NewGeneration([job.view[c] EXCEPT !.state = "Bound", !.snap = Target[job.run]])
    IN  /\ Turn(c)
        /\ job.mem.cluster[c] = "idle"
        /\ ~InSync(job.view[c]) \/ job.view[c].state # "Bound"
        /\ IF c \in job.held
           THEN /\ Write(c, new)
                /\ Takes(job.run, c)
                /\ job' = [job EXCEPT !.pc = "start", !.updating = @ + 1, !.view[c] = new]
           ELSE /\ job' = [job EXCEPT !.todo = @ \ {c}, !.updating = @ + 1, !.err = TRUE]
                /\ UNCHANGED <<bind, seen, synced, flight>>
        /\ UNCHANGED <<placed, run, request, granted, budget>>

\* The binding is what the run wants, but no rollout has been announced.
AnnounceLate(c) ==
    /\ Turn(c)
    /\ job.mem.cluster[c] = "idle"
    /\ InSync(job.view[c]) /\ job.view[c].state = "Bound" /\ ~job.view[c].started
    /\ job' = [job EXCEPT !.pc = "start", !.updating = @ + 1]
    /\ UNCHANGED <<world, run, request, ghosts>>

Started(m, c) == MarkStage(MarkCluster(m, {c}, "started"), job.stage, "started")

\* updateBindingRolloutStarted
StartRollout ==
    LET c == First(job.todo)
    IN  /\ job.pc = "start"
        /\ IF c \in job.held
           THEN /\ Write(c, [bind[c] EXCEPT !.started = TRUE])
                /\ Takes(job.run, c)
                /\ job' = [job EXCEPT !.pc = "clusters", !.todo = @ \ {c},
                                      !.mem = Started(@, c)]
           ELSE /\ job' = [job EXCEPT !.pc = "clusters", !.todo = @ \ {c}, !.err = TRUE]
                /\ UNCHANGED <<bind, seen, synced, flight>>
        /\ UNCHANGED <<placed, run, request, granted, budget>>

\* The rollout was announced by an earlier reconciliation, whose status was
\* lost, or by another run to the same snapshot.
AlreadyStarted(c) ==
    LET b == job.view[c]
        m == Started(job.mem, c)
    IN  /\ Turn(c)
        /\ job.mem.cluster[c] = "idle"
        /\ InSync(b) /\ b.state = "Bound" /\ b.started
        /\ job' = [job EXCEPT
              !.todo = @ \ {c},
              !.updating = @ + 1,
              !.err = @ \/ Erring(b),
              !.mem = CASE Erring(b) -> @
                        [] Updated(b) -> MarkCluster(m, {c}, "succeeded")
                        [] OTHER -> m]
        /\ UNCHANGED <<world, run, request, ghosts>>

\* Mutant: the clusters that are still updating are not counted.
CheckStartedUncounted(c) ==
    /\ Turn(c)
    /\ job.mem.cluster[c] = "started"
    /\ job' = IF Updated(job.view[c])
              THEN [job EXCEPT !.todo = @ \ {c}, !.finished = @ + 1,
                               !.mem = MarkCluster(@, {c}, "succeeded")]
              ELSE [job EXCEPT !.todo = @ \ {c}]
    /\ UNCHANGED <<world, run, request, ghosts>>

\* Mutant: the snapshot of the binding is not looked at.
CheckStartedTrusting(c) ==
    LET b == job.view[c]
    IN  /\ Turn(c)
        /\ job.mem.cluster[c] = "started"
        /\ job' = IF Updated(b)
                  THEN [job EXCEPT !.todo = @ \ {c}, !.finished = @ + 1,
                                   !.mem = MarkCluster(@, {c}, "succeeded")]
                  ELSE [job EXCEPT !.todo = @ \ {c}, !.updating = @ + 1]
        /\ UNCHANGED <<world, run, request, ghosts>>

\* The cluster is being updated: another run may have taken its binding.
CheckStarted(c) ==
    LET b == job.view[c]
        ours == InSync(b) /\ b.state = "Bound" /\ b.started
    IN  /\ Turn(c)
        /\ job.mem.cluster[c] = "started"
        /\ job' = IF ~ours
                  THEN [job EXCEPT !.todo = @ \ {c}, !.updating = @ + 1,
                                   !.mem = MarkCluster(@, {c}, "failed"),
                                   !.why = "preempted"]
                  ELSE IF Updated(b)
                  THEN [job EXCEPT !.todo = @ \ {c}, !.finished = @ + 1,
                                   !.mem = MarkCluster(@, {c}, "succeeded")]
                  ELSE [job EXCEPT !.todo = @ \ {c}, !.updating = @ + 1,
                                   !.err = @ \/ Erring(b)]
        /\ UNCHANGED <<world, run, request, ghosts>>

\* All clusters that may be looked at have been.
EndLoop ==
    LET s == job.stage
        m == MarkRun(job.mem, "progressing")
    IN  /\ job.pc = "clusters"
        /\ LoopEnds
        /\ job' = IF job.why # "none"
                  THEN [job EXCEPT !.pc = "record",
                                   !.mem = Failed(MarkStage(m, s, "failed"), job.why)]
                  ELSE IF job.err \/ job.finished # Cardinality(m.members[s])
                  THEN [job EXCEPT !.pc = "record", !.mem = m]
                  ELSE [job EXCEPT !.pc = "after",
                                   !.mem = MarkRun(MarkStage(m, s, "waiting"), "waiting")]
        /\ UNCHANGED <<world, run, request, ghosts>>

\* checkAfterStageTasksStatus
AfterStage ==
    LET s == job.stage
        t == <<s, "after">>
        waited == job.mem.elapsed[s] \/ job.mem.aged[s]
        m == IF Stages[s].wait THEN [job.mem EXCEPT !.elapsed[s] = waited] ELSE job.mem
        asked == IF Stages[s].after THEN Asked(m, t) ELSE m
        passed == /\ Stages[s].wait => waited
                  /\ Stages[s].after => Granted(t)
    IN  /\ job.pc = "after"
        /\ IF Stages[s].after THEN AskApproval(t) ELSE UNCHANGED request
        /\ job' = [job EXCEPT
              !.pc = "record",
              !.mem = IF passed
                      THEN MarkRun(MarkStage(asked, s, "succeeded"), "progressing")
                      ELSE asked]
        /\ UNCHANGED <<world, run, ghosts>>

----------------------------------------------------------------------------
(* executeDeleteStage, and the end of a reconciliation.                    *)

\* A delete call without a precondition; it fails if the binding is gone.
DeleteBinding ==
    LET c == First(job.todo)
        deleting == NewGeneration([bind[c] EXCEPT !.phase = "deleting"])
    IN  /\ job.pc = "delete"
        /\ job.todo # {}
        /\ IF bind[c].phase = "absent"
           THEN /\ job' = [job EXCEPT !.pc = "record"]
                /\ UNCHANGED <<bind, seen, synced, flight>>
           ELSE /\ Write(c, IF bind[c].phase = "live" THEN deleting ELSE bind[c])
                /\ job' = [job EXCEPT !.todo = @ \ {c}, !.mem = MarkCluster(@, {c}, "started")]
                /\ Takes(job.run, c)
        /\ UNCHANGED <<placed, run, request, granted, budget>>

\* The stage is over when there was no binding left to begin with.
EndDeletion ==
    LET m == MarkStage(job.mem, DeleteStage, "succeeded")
    IN  /\ job.pc = "delete"
        /\ job.todo = {}
        /\ job' = [job EXCEPT
              !.pc = "record",
              !.mem = IF Removed(job.view) = {}
                      THEN [m EXCEPT !.done = "succeeded", !.progress = "ended"]
                      ELSE @]
        /\ UNCHANGED <<world, run, request, ghosts>>

\* The status is stored, unless the run was edited in the meantime.
Record ==
    /\ job.pc = "record"
    /\ run' = IF job.fresh THEN [run EXCEPT ![job.run] = job.mem] ELSE run
    /\ job' = Idle
    /\ UNCHANGED <<world, request, ghosts>>

\* handleDelete
HandleDelete(r) ==
    /\ job = Idle
    /\ run[r].phase = "deleting"
    /\ request' = [request EXCEPT ![r] = [t \in Task |-> "absent"]]
    /\ run' = [run EXCEPT ![r].phase = "gone"]
    /\ UNCHANGED <<world, job, ghosts>>

Take(r) == Initialize(r) \/ Validate(r) \/ HandleDelete(r)

GoOn ==
    \/ RecordInitialized
    \/ BeforeStage
    \/ \E c \in Cluster : \/ SkipSucceeded(c)
                          \/ UpdateBinding(c)
                          \/ AnnounceLate(c)
                          \/ AlreadyStarted(c)
                          \/ CheckStarted(c)
    \/ StartRollout
    \/ EndLoop
    \/ AfterStage
    \/ DeleteBinding
    \/ EndDeletion
    \/ Record

----------------------------------------------------------------------------
(* The world around the controller.                                        *)

Spend(what) ==
    /\ budget[what] > 0
    /\ budget' = [budget EXCEPT ![what] = @ - 1]

Restart ==
    /\ job # Idle
    /\ Spend("errors")
    /\ job' = Idle
    /\ UNCHANGED <<world, run, request, flight, granted>>

\* Another controller writes a binding.
OtherWrites(c, b) ==
    /\ Write(c, b)
    /\ job' = [job EXCEPT !.held = @ \ {c}]
    /\ UNCHANGED <<placed, run, request, granted>>

Lands(c) == flight' = [r \in Run |-> flight[r] \ {c}]

\* The work generator reports that the resources are available, or a failure.
BecomesUp(c) ==
    /\ bind[c].phase = "live" /\ bind[c].state = "Bound" /\ bind[c].started
    /\ bind[c].report # "up"
    /\ OtherWrites(c, [bind[c] EXCEPT !.report = "up"])
    /\ Lands(c)
    /\ UNCHANGED budget

BecomesFailed(c) ==
    /\ bind[c].phase = "live" /\ bind[c].state = "Bound" /\ bind[c].started
    /\ bind[c].report # "failed"
    /\ Spend("mishaps")
    /\ OtherWrites(c, [bind[c] EXCEPT !.report = "failed"])
    /\ UNCHANGED flight

Evict(c) ==
    /\ bind[c].phase = "live" /\ bind[c].state = "Bound"
    /\ Spend("mishaps")
    /\ OtherWrites(c, NewGeneration([bind[c] EXCEPT !.phase = "deleting"]))
    /\ Lands(c)

\* The works of a deleted binding are removed, and it is gone.
Vanishes(c) ==
    /\ bind[c].phase = "deleting"
    /\ OtherWrites(c, NoBinding)
    /\ Lands(c)
    /\ UNCHANGED budget

Deliver(c) ==
    /\ c \notin synced
    /\ seen' = [seen EXCEPT ![c] = bind[c]]
    /\ synced' = synced \cup {c}
    /\ UNCHANGED <<bind, placed, run, request, job, ghosts>>

\* A new policy is published ...
PublishPolicy ==
    /\ Spend("policies")
    /\ placed' = [placed EXCEPT !.policy = @ + 1, !.scheduled = FALSE]
    /\ UNCHANGED <<bind, seen, synced, run, request, job, flight, granted>>

\* ... and the scheduler goes through the bindings one by one.
Reschedule(c) ==
    /\ ~placed.scheduled
    /\ bind[c].phase = "live" /\ bind[c].policy # placed.policy
    /\ bind[c].state # "Unscheduled"
    /\ \/ OtherWrites(c, NewGeneration([bind[c] EXCEPT !.policy = placed.policy]))
       \/ OtherWrites(c, NewGeneration([bind[c] EXCEPT !.state = "Unscheduled"]))
    /\ Lands(c)
    /\ UNCHANGED budget

FinishScheduling ==
    /\ ~placed.scheduled
    /\ \A c \in Cluster : \/ bind[c].phase = "absent"
                          \/ bind[c].state = "Unscheduled"
                          \/ bind[c].policy = placed.policy
    /\ placed' = [placed EXCEPT !.scheduled = TRUE]
    /\ UNCHANGED <<bind, seen, synced, run, request, job, ghosts>>

\* The user edits a run: a reconciliation of it can no longer store its status.
EditRun(r, obj) ==
    /\ run[r].phase = "active"
    /\ run' = [run EXCEPT ![r] = obj]
    /\ job' = [job EXCEPT !.fresh = @ /\ job.run # r]
    /\ UNCHANGED <<world, request, flight, granted>>

Execute(r) ==
    /\ run[r].state = "Initialize"
    /\ EditRun(r, [run[r] EXCEPT !.state = "Run"])
    /\ UNCHANGED budget

Stop(r) ==
    /\ run[r].state = "Run"
    /\ Spend("edits")
    /\ EditRun(r, [run[r] EXCEPT !.state = "Stop"])

Resume(r) ==
    /\ run[r].state = "Stop"
    /\ EditRun(r, [run[r] EXCEPT !.state = "Run"])
    /\ UNCHANGED budget

DeleteRun(r) ==
    /\ Spend("edits")
    /\ EditRun(r, [run[r] EXCEPT !.phase = "deleting"])

Approve(r, t) ==
    /\ request[r][t] = "pending"
    /\ request' = [request EXCEPT ![r][t] = "approved"]
    /\ granted' = [granted EXCEPT ![r] = @ \cup {t}]
    /\ UNCHANGED <<world, run, job, flight, budget>>

\* An approval can be taken back until it is accepted.
Revoke(r, t) ==
    /\ request[r][t] = "approved"
    /\ Spend("edits")
    /\ request' = [request EXCEPT ![r][t] = "pending"]
    /\ granted' = [granted EXCEPT ![r] = @ \ {t}]
    /\ UNCHANGED <<world, run, job, flight>>

DropRequest(r, t) ==
    /\ request[r][t] # "absent"
    /\ Spend("edits")
    /\ request' = [request EXCEPT ![r][t] = "absent"]
    /\ granted' = IF request[r][t] = "accepted" THEN granted
                  ELSE [granted EXCEPT ![r] = @ \ {t}]
    /\ UNCHANGED <<world, run, job, flight>>

\* A cluster's labels change: it joins or leaves a stage.
Relabel(s, c) ==
    /\ Spend("edits")
    /\ placed' = [placed EXCEPT !.labels[s] = IF c \in @ THEN @ \ {c} ELSE @ \cup {c}]
    /\ UNCHANGED <<bind, seen, synced, run, request, job, flight, granted>>

\* The wait time of the stages passes.
Aging(m) ==
    [m EXCEPT
        !.aged = [s \in StageIndex |->
                     @[s] \/ (Stages[s].wait /\ m.stage[s] \in {"waiting", "stopped"})],
        !.rested = [s \in StageIndex |->
                     \/ @[s]
                     \/ /\ Stages[s].wait
                        /\ \A c \in m.members[s] : m.cluster[c] = "succeeded"
                        /\ m.members[s] # {}]]

TimePasses ==
    /\ run' = [r \in Run |-> Aging(run[r])]
    /\ job' = [job EXCEPT !.mem = Aging(@)]
    /\ run' # run \/ job' # job
    /\ UNCHANGED <<world, request, ghosts>>

User ==
    \/ \E r \in Run : Execute(r) \/ Stop(r) \/ Resume(r) \/ DeleteRun(r)
    \/ \E r \in Run, t \in Task : Approve(r, t) \/ Revoke(r, t) \/ DropRequest(r, t)
    \/ \E s \in StageIndex, c \in Cluster : Relabel(s, c)
    \/ PublishPolicy

Scheduling == FinishScheduling \/ \E c \in Cluster : Reschedule(c)

\* A binding of an earlier run, whose resources are available.
BoundBefore ==
    [phase |-> "live", state |-> "Bound", policy |-> 1, snap |-> 1,
     started |-> TRUE, report |-> "up"]

Init ==
    /\ \E start \in Starts :
          /\ bind = [c \in Cluster |->
                IF c \in start.picked THEN [NoBinding EXCEPT !.phase = "live", !.policy = 1]
                ELSE IF c \in start.bound THEN BoundBefore
                ELSE IF c \in start.removed THEN [BoundBefore EXCEPT !.state = "Unscheduled"]
                ELSE NoBinding]
          /\ \E state \in [start.runs -> {"Initialize", "Run"}] :
                run = [r \in Run |-> IF r \in start.runs THEN NewRun(state[r]) ELSE NoRun]
          /\ budget = start.budget
    /\ seen = bind
    /\ synced = Cluster
    /\ placed = [policy |-> 1, scheduled |-> TRUE, labels |-> Labels]
    /\ request = [r \in Run |-> [t \in Task |-> "absent"]]
    /\ job = Idle
    /\ flight = [r \in Run |-> {}]
    /\ granted = [r \in Run |-> {}]

Next ==
    \/ \E r \in Run : Take(r)
    \/ GoOn
    \/ Restart
    \/ \E c \in Cluster : Deliver(c)
    \/ \E c \in Cluster : BecomesUp(c) \/ BecomesFailed(c) \/ Evict(c) \/ Vanishes(c)
    \/ Scheduling
    \/ User
    \/ TimePasses

Spec == Init /\ [][Next]_vars

\* A reconciliation goes on, and the queue takes every run again and again;
\* clusters that are told to update become available, and what is deleted goes.
FairSpec ==
    /\ Spec
    /\ WF_vars(GoOn)
    /\ \A r \in Run : SF_vars(Take(r))
    /\ \A c \in Cluster : WF_vars(Deliver(c)) /\ WF_vars(BecomesUp(c)) /\ WF_vars(Vanishes(c))
    /\ WF_vars(FinishScheduling)
    /\ \A c \in Cluster : WF_vars(Reschedule(c))
    /\ WF_vars(TimePasses)

----------------------------------------------------------------------------
StageHolding(r, c) == CHOOSE s \in StageIndex : c \in run[r].members[s]
GatedBefore(s) == IF s = DeleteStage THEN DeleteGate ELSE Stages[s].before

\* Whatever is interrupted, stopped, resumed or lost, a run never has more
\* bindings of a stage under way than its maxConcurrency.
ConcurrencyRespected ==
    \A r \in Run, s \in StageIndex :
        Cardinality(flight[r] \cap run[r].members[s]) <= MaxConcurrency(s, run[r])

\* The stages before that of c have succeeded, approved where they take an approval,
\* and the stage of c is approved if it takes one.
MayMove(r, c) ==
    LET s == IF c \in run[r].members[DeleteStage] THEN DeleteStage ELSE StageHolding(r, c)
    IN  /\ \A t \in 1..(s - 1) :
              /\ run[r].stage[t] = "succeeded"
              /\ Stages[t].after /\ run[r].members[t] # {} => <<t, "after">> \in granted[r]
        /\ GatedBefore(s) => <<s, "before">> \in granted[r]

\* A run moves a binding only when the stages before that of its cluster have
\* succeeded and the user has approved the stage, if it takes an approval; it
\* deletes a binding only when all its stages have succeeded and the deletion
\* is approved (executeUpdatingStage, executeDeleteStage).
StagesGated ==
    [][\A r \in Run : \A c \in flight'[r] \ flight[r] : MayMove(r, c)]_vars

\* A stage with a wait succeeds only after the wait time has passed since its
\* last cluster was found updated, whatever stops and resumes came in between.
WaitHonoured ==
    \A r \in Run, s \in StageIndex :
        run[r].stage[s] = "succeeded" /\ run[r].members[s] # {} /\ Stages[s].wait
        => run[r].rested[s]

\* Every run comes to rest: it ends, or it waits for the user.
RunSettles ==
    \A r \in Run : <>[](\/ run[r].phase = "gone"
                        \/ run[r].done # "none" \/ run[r].init = "failed"
                        \/ run[r].state = "Initialize" /\ run[r].init # "none"
                        \/ run[r].state = "Stop" /\ run[r].progress = "stopped"
                        \/ /\ run[r].progress = "waiting"
                           /\ \E t \in Task : request[r][t] = "pending")

\* As long as no one stops it, a run counts a cluster as updated only if the
\* binding it has read points to its own resource snapshot, whatever another
\* run does to the binding in the meantime (executeUpdatingStage).
SucceedsOnTarget ==
    [][\A r \in Run, c \in Cluster :
          /\ run'[r].cluster[c] = "succeeded" /\ run[r].cluster[c] # "succeeded"
          /\ c \notin run[r].members[DeleteStage]
          => job.view[c].snap = Target[r]]_vars

----------------------------------------------------------------------------
(* What makes WaitHonoured and StagesGated inductive.                      *)

\* The stages of a run share no cluster.  A stage waits, or is stopped, only when
\* none of its clusters is being updated, and the time it has waited counts from
\* there: when all its clusters are updated, from the last one on.
StagesInOrder(m) ==
    /\ m.init # "ok" => /\ \A s \in 1..DeleteStage : m.members[s] = {} /\ m.stage[s] = "idle"
                        /\ \A c \in Cluster : m.cluster[c] = "idle"
                        /\ \A t \in Task : m.task[t] = "none"
                        /\ \A s \in StageIndex : ~m.elapsed[s]
                        /\ ~m.begun /\ m.done = "none"
    /\ \A s, t \in 1..DeleteStage : s # t => m.members[s] \cap m.members[t] = {}
    /\ \A s \in StageIndex :
          /\ m.stage[s] \in {"waiting", "stopped", "succeeded"} => Unfinished(m, s) = {}
          /\ m.aged[s] => m.stage[s] \in {"waiting", "stopped", "succeeded", "failed"}
          /\ /\ m.aged[s] /\ m.members[s] # {}
             /\ \A c \in m.members[s] : m.cluster[c] = "succeeded"
             => m.rested[s]
          /\ m.elapsed[s] /\ m.members[s] # {} => m.rested[s]
          /\ m.stage[s] = "succeeded" /\ m.members[s] # {} /\ Stages[s].wait => m.rested[s]

\* An approval the run has noted is among those given, and its request is accepted or
\* gone; what waits for an approval has it when it begins, or when it is over.
ApprovalsNoted(m, given, asked) ==
    /\ \A t \in Task : m.task[t] = "approved" =>
          t \in given /\ asked[t] \in {"absent", "accepted"}
    /\ \A s \in StageIndex :
          /\ Stages[s].before /\ (\E c \in m.members[s] : m.cluster[c] # "idle")
             => m.task[<<s, "before">>] = "approved"
          /\ Stages[s].after /\ m.stage[s] = "succeeded" /\ m.members[s] # {}
             => m.task[<<s, "after">>] = "approved"

DeletionApproved(m) ==
    DeleteGate /\ m.begun /\ m.done = "none" => m.task[<<DeleteStage, "before">>] = "approved"

Sound(m, given, asked) ==
    StagesInOrder(m) /\ ApprovalsNoted(m, given, asked) /\ DeletionApproved(m)

\* The reconciliation j is about the stored run, at the first stage that has not
\* succeeded; everything the stored run knows to be approved it knows too.
About(j, stored) ==
    /\ j.mem.init = "ok" /\ j.mem.done = "none"
    /\ j.mem.members = stored.members
    /\ \A t \in Task : stored.task[t] = "approved" => j.mem.task[t] = "approved"
    /\ \A t \in 1..(j.stage - 1) : stored.stage[t] = "succeeded"
    /\ j.stage \in StageIndex => j.mem.stage[j.stage] \notin {"succeeded", "failed"}
    /\ j.todo \subseteq j.mem.members[j.stage]

\* It enters the stage with its approval and leaves it with all clusters updated.
Entered(j) ==
    /\ j.stage \in StageIndex
    /\ Stages[j.stage].before => j.mem.task[<<j.stage, "before">>] = "approved"

Counted(j) ==
    j.finished <= Cardinality({c \in j.mem.members[j.stage] \ j.todo :
                                 j.mem.cluster[c] = "succeeded"})

Deletes(j) ==
    /\ j.stage = DeleteStage
    /\ j.todo \subseteq Removed(j.view)
    /\ DeleteGate /\ Removed(j.view) # {}
       => j.mem.task[<<DeleteStage, "before">>] = "approved"

JobInOrder(j, stored, given, asked) ==
    /\ j.pc = "init" =>
          /\ j.mem.init = "ok" /\ j.mem.done = "none" /\ j.stage = 1
          /\ \A t \in StageIndex : j.mem.stage[t] = "idle"
          /\ \A t \in Task : j.mem.task[t] = "none"
          /\ j.todo = {}
    /\ j.pc \in {"init", "before"} => j.finished = 0
    /\ j.pc \in {"before", "clusters", "start", "after", "delete"} => About(j, stored)
    /\ j.pc \in {"clusters", "start", "after"} => Entered(j)
    /\ j.pc \in {"clusters", "start"} => Counted(j)
    /\ j.pc = "start" => j.todo # {}
    /\ j.pc = "after" => /\ j.mem.stage[j.stage] = "waiting"
                         /\ \A c \in j.mem.members[j.stage] : j.mem.cluster[c] = "succeeded"
    /\ IF j.pc = "delete"
       THEN StagesInOrder(j.mem) /\ ApprovalsNoted(j.mem, given, asked) /\ Deletes(j)
       ELSE Sound(j.mem, given, asked)

StageInvariant ==
    /\ TypeOK
    /\ \A r \in Run : /\ Sound(run[r], granted[r], request[r])
                      /\ \A t \in Task : request[r][t] \in {"approved", "accepted"}
                                         => t \in granted[r]
    /\ job.pc # "idle" => /\ job.run \in Run
                          /\ JobInOrder(job, run[job.run], granted[job.run], request[job.run])
============================================================================
