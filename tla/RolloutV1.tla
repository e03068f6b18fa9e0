------------------------------ MODULE RolloutV1 ------------------------------
(* Rollouts of the v1 API: the auto-rollout controller and the staged update  *)
(* run controller, which share the bindings of a placement policy through the *)
(* binding manager role kept in the status of the policy.                     *)
(*                                                                            *)
(* pkg/v1/controllers/autorollout, pkg/v1/controllers/stagedupdaterun,        *)
(* pkg/v1/utils/bindingmanager/manager.go, and of the placement policy        *)
(* controller (pkg/v1/controllers/placementpolicy) the part that takes the    *)
(* role, creates and deletes bindings and reports that a rollout is needed.   *)
(*                                                                            *)
(* Policy, bindings and runs are read from informer caches that lag behind    *)
(* (seenPolicy, seenBindings, seenRuns); a write succeeds only when the copy  *)
(* it was computed from is the stored one. A resource snapshot is named by    *)
(* the content it holds.                                                      *)
EXTENDS Integers, FiniteSets, FiniteSetsExt

CONSTANTS
    ClusterCount,   \* the clusters are 1..ClusterCount, in the order of their names
    StageOf,        \* the stage whose selector matches a cluster first
    StageCount,
    Runs,           \* staged update runs of the policy
    FailureLimits,  \* the values of failurePolicy.maxAllowedClusterFailures
    Concurrency,    \* maxConcurrency of every stage
    AsksBefore,     \* stages with an approval task before
    AsksAfter,      \* stages with an approval task after
    Waits,          \* stages with a timed wait after
    Starts,         \* how it may begin, see Start
    MaxContent      \* bound: contents of the selected resources

Clusters == 1..ClusterCount
Stages == 1..StageCount

\* Whether auto-rollout is on, the clusters with a binding at first, and the
\* surprises to come: how many (a bound) and of which kinds.
Kinds == {"edit", "timeout", "request", "targets", "policy", "failure", "restart", "rival", "refusal"}
Budget == [left : Nat, kinds : SUBSET Kinds]
Start == [auto : BOOLEAN, bound : SUBSET Clusters, budget : Budget]

ASSUME RolloutV1Assumption ==
    /\ StageOf \in [Clusters -> Stages]
    /\ FailureLimits \subseteq Nat /\ Concurrency \in Nat \ {0}
    /\ AsksBefore \cup AsksAfter \cup Waits \subseteq Stages
    /\ Starts \subseteq Start
    /\ MaxContent \in Nat \ {0}

VARIABLES
    policy,         \* the stored placement policy
    seenPolicy,
    bindings,       \* the stored bindings, by cluster
    seenBindings,
    runs,           \* the stored staged update runs
    seenRuns,
    requests,       \* the approval requests
    content,        \* what the selected resources are now
    latest,         \* the content of the latest resource snapshot
    targets,        \* the clusters the policy picks
    elapsed,        \* the minimum wait since the last auto-rollout is over
    ripe,           \* the timed waits that are over
    queue,          \* the requests in the queues of the two controllers
    auto,           \* the auto-rollout pass in progress
    job,            \* the pass in progress for each run
    pol,            \* the pass of the placement policy controller over the bindings
    history,        \* contents that were available on clusters, approvals given
    budget          \* the surprises still to come

vars == <<policy, seenPolicy, bindings, seenBindings, runs, seenRuns, requests, content, latest,
          targets, elapsed, ripe, queue, auto, job, pol, history, budget>>
caches == <<seenPolicy, seenBindings, seenRuns>>
world == <<content, targets, ripe, pol, history>>

-----------------------------------------------------------------------------
(* Objects. *)

Snapshots == 0..MaxContent
Self == "self"

\* The policy: who is its binding manager and for which objects, whether it is
\* annotated for auto-rollout and with a last attempt, and whether its conditions
\* say that a rollout is needed.
Policy ==
    [st : {"Live", "Deleting", "Gone"}, manager : {"None", "policy", "auto", "staged"},
     refs : SUBSET (Runs \cup {Self}), auto : BOOLEAN, attempt : BOOLEAN, need : BOOLEAN]

\* A binding: ok says that Synchronized and Available are true for its generation.
Binding == [st : {"No", "Live", "Deleting"}, snap : Snapshots, gen : Nat, ok : BOOLEAN]
NoBinding == [st |-> "No", snap |-> 0, gen |-> 0, ok |-> FALSE]

\* The state of a cluster in a run; "Stale" is an update that started before the
\* run was resumed, "Conflict" one that failed because of another writer.
ClusterStates ==
    {"Out", "New", "Started", "Stale", "Succeeded", "Failed", "Conflict", "Canceled"}
FailedStates == {"Failed", "Conflict", "Canceled"}

StagedUpdateRun ==
    [st : {"Absent", "Live", "Deleting", "Gone"}, hold : BOOLEAN, limit : Nat, fin : BOOLEAN,
     init : {"None", "True", "False"}, done : {"None", "Succeeded", "Partial", "Failed"},
     susp : {"None", "True", "False"}, want : Snapshots,
     cl : [Clusters -> ClusterStates],
     stage : [Stages -> {"None", "Succeeded", "Partial", "Failed"}],
     ask : [Stages \X {"before", "after"} -> {"None", "Created", "Approved"}],
     wait : [Stages -> {"None", "Started", "Elapsed"}]]

NoRun ==
    [st |-> "Absent", hold |-> FALSE, limit |-> 0, fin |-> FALSE, init |-> "None", done |-> "None",
     susp |-> "None", want |-> 0, cl |-> [c \in Clusters |-> "Out"],
     stage |-> [s \in Stages |-> "None"],
     ask |-> [k \in Stages \X {"before", "after"} |-> "None"],
     wait |-> [s \in Stages |-> "None"]]

NoAuto == [pc |-> "Idle", list |-> [c \in Clusters |-> NoBinding], todo |-> {}, want |-> 0,
           failed |-> FALSE]
NoJob == [pc |-> "Idle", base |-> NoRun, run |-> NoRun, at |-> 0, taken |-> {}, busy |-> {},
          erred |-> 0, fails |-> 0, cut |-> FALSE, gens |-> [c \in Clusters |-> 0],
          again |-> FALSE]

\* Edits of users, failed calls, timeouts and restarts.
Allowed(kind) == kind \in budget.kinds /\ budget.left > 0
Surprise(kind) == Allowed(kind) /\ budget' = [budget EXCEPT !.left = @ - 1]

-----------------------------------------------------------------------------
(* The binding manager role. *)

Fresh == seenPolicy = policy

\* ClaimRoleAs writes the role, adds the object to it, or verifies with a dry run
\* that it still holds it: all three need the stored version of the policy. When
\* the copy says that another controller has the role it gives up at once.
HeldByOther(who) == seenPolicy.manager \notin {"None", who}
\* Mutant: the role is claimed without the stored version.
ClaimSucceedsStale(who) == seenPolicy.manager \in {"None", who}

ClaimSucceeds(who) == Fresh /\ ~HeldByOther(who)
ClaimRoleAs(who, ref) == [policy EXCEPT !.manager = who, !.refs = @ \cup {ref}]

\* RelinquishRoleFor takes the object out; the role is free when none is left. It
\* needs the stored version too, be it to verify that there is nothing to do.
RelinquishRoleFor(who, ref) ==
    IF policy.manager # who THEN policy
    ELSE [policy EXCEPT !.refs = @ \ {ref},
                        !.manager = IF policy.refs \subseteq {ref} THEN "None" ELSE @]

-----------------------------------------------------------------------------
(* The auto-rollout controller. *)

IsRolloutNeeded(p) == p.need

\* Whether the minimum wait since the last attempt is still running.
Remaining(p) == p.attempt /\ ~elapsed

ShouldSkipAuto(p) ==
    p.st = "Deleting" \/ ~p.auto \/ ~IsRolloutNeeded(p) \/ Remaining(p)

\* Reconcile up to the claim: without work to do the role is given back, else it
\* is claimed; a role held by another controller is asked for again later.
StartAuto ==
    /\ Self \in queue /\ auto.pc = "Idle"
    /\ \/ /\ seenPolicy.st = "Gone"
          /\ queue' = queue \ {Self}
          /\ UNCHANGED <<policy, auto>>
       \/ /\ seenPolicy.st # "Gone" /\ ShouldSkipAuto(seenPolicy)
          /\ \/ /\ seenPolicy.manager # "auto"
                /\ queue' = queue \ {Self}
                /\ UNCHANGED policy
             \/ /\ seenPolicy.manager = "auto" /\ Fresh
                /\ policy' = RelinquishRoleFor("auto", Self)
                /\ queue' = queue \ {Self}
          /\ UNCHANGED auto
       \/ /\ seenPolicy.st # "Gone" /\ ~ShouldSkipAuto(seenPolicy)
          /\ ClaimSucceeds("auto")
          /\ policy' = ClaimRoleAs("auto", Self)
          /\ auto' = [auto EXCEPT !.pc = "Rollout"]
          /\ queue' = queue \ {Self}
    /\ UNCHANGED <<bindings, runs, requests, latest, elapsed, job, budget, caches, world>>

\* rollout: the bindings in the cache, and a snapshot of what is selected now.
RolloutAuto ==
    /\ auto.pc = "Rollout"
    /\ latest' = content
    /\ auto' = [auto EXCEPT
          !.pc = "Refresh", !.list = seenBindings, !.want = content,
          !.todo = {c \in Clusters : seenBindings[c].st = "Live" /\ seenBindings[c].snap # content}]
    /\ UNCHANGED <<policy, bindings, runs, requests, elapsed, queue, job, budget, caches, world>>

\* The selected resources cannot be snapshotted: the attempt is noted all the same
\* and the role given back.
RolloutAutoRefused ==
    /\ auto.pc = "Rollout" /\ policy.st # "Gone"
    /\ Surprise("refusal")
    /\ policy' = [RelinquishRoleFor("auto", Self) EXCEPT !.attempt = TRUE]
    /\ elapsed' = FALSE
    /\ auto' = NoAuto
    /\ UNCHANGED <<bindings, runs, requests, latest, queue, job, caches, world>>

\* Mutant: the generation that conditions were observed at is not compared.
MovedStillAvailable(b, s) == [b EXCEPT !.snap = s, !.gen = @ + 1]

Moved(b, s) == [b EXCEPT !.snap = s, !.gen = @ + 1, !.ok = FALSE]

\* refreshBindings, one binding: the first failure cancels the others.
RefreshBinding(c) ==
    /\ auto.pc = "Refresh" /\ c \in auto.todo
    /\ \/ /\ bindings[c] = auto.list[c]
          /\ bindings' = [bindings EXCEPT ![c] = Moved(@, auto.want)]
          /\ auto' = [auto EXCEPT !.todo = @ \ {c}]
       \/ /\ bindings[c] # auto.list[c]
          /\ auto' = [auto EXCEPT !.todo = {}, !.failed = TRUE]
          /\ UNCHANGED bindings
    /\ UNCHANGED <<policy, runs, requests, latest, elapsed, queue, job, budget, caches, world>>

\* The attempt is noted on the policy and the request queued again: the next pass
\* gives the role back. An error only queues it again.
FinishAuto ==
    /\ auto.pc = "Refresh" /\ auto.todo = {}
    /\ policy' = IF auto.failed \/ policy.st = "Gone" THEN policy
                 ELSE [policy EXCEPT !.attempt = TRUE]
    /\ elapsed' = IF auto.failed \/ policy.st = "Gone" THEN elapsed ELSE FALSE
    /\ auto' = NoAuto
    /\ queue' = queue \cup {Self}
    /\ UNCHANGED <<bindings, runs, requests, latest, job, budget, caches, world>>

\* The event handler: while this controller holds the role every event counts.
AutoEvent(old, new) ==
    \/ new.manager = "auto"
    \/ /\ old.auto \/ new.auto
       /\ \/ old.st # new.st
          \/ old.auto # new.auto
          \/ IsRolloutNeeded(new) /\ ~old.need

-----------------------------------------------------------------------------
(* The staged update run controller: before the stages. *)

InStage(x, s) == {c \in Clusters : StageOf[c] = s /\ x.cl[c] # "Out"}
FailedIn(x, s) == {c \in InStage(x, s) : x.cl[c] \in FailedStates}

\* The request is taken from the queue when the pass starts; one that arrives
\* during the pass stays.
Dequeued(r) == IF job[r].pc = "Idle" THEN queue \ {r} ELSE queue

\* The pass ends; the request is queued again, or waits for an event.
Leave(r, again) ==
    /\ job' = [job EXCEPT ![r] = NoJob]
    /\ queue' = IF again THEN queue \cup {r} ELSE Dequeued(r)

\* The pass goes on with x, whose stored version is what it was computed from.
Continue(r, pc, x) ==
    /\ job' = [job EXCEPT ![r] = [NoJob EXCEPT !.pc = pc, !.base = x, !.run = x]]
    /\ queue' = Dequeued(r)

\* Conditions that end the processing of a run for good.
Terminal(x) == x.init = "False" \/ x.done # "None"

\* markStagedUpdateRunAsResumedIfApplicable: what started earlier started before.
Resumed(x) ==
    IF x.susp # "True" THEN x
    ELSE [x EXCEPT !.susp = "False",
                   !.cl = [c \in Clusters |-> IF @[c] = "Started" THEN "Stale" ELSE @[c]]]

\* markStagedUpdateRunAsInTerminalState: there is no policy.
Ended(x) == IF x.init = "None" THEN [x EXCEPT !.init = "False"] ELSE [x EXCEPT !.done = "Failed"]

\* The role is claimed for the run x, which is over when there is no policy.
ClaimFor(r, x) ==
    \/ /\ seenPolicy.st = "Gone" /\ runs[r] = x
       /\ runs' = [runs EXCEPT ![r] = Ended(x)]
       /\ Leave(r, TRUE)
       /\ UNCHANGED policy
    \/ /\ seenPolicy.st # "Gone" /\ ClaimSucceeds("staged")
       /\ policy' = ClaimRoleAs("staged", r)
       /\ Continue(r, IF x.init = "None" THEN "Init" ELSE "Stage", x)
       /\ UNCHANGED runs

\* cleanup, first half: the role is given back while there is a policy.
GiveBack(r, x) ==
    /\ \/ seenPolicy.st = "Gone" /\ UNCHANGED policy
       \/ seenPolicy.st # "Gone" /\ Fresh /\ policy' = RelinquishRoleFor("staged", r)
    /\ IF x.fin THEN Continue(r, "Release", x) ELSE Leave(r, FALSE)
    /\ UNCHANGED runs

\* A run that is deleted or over is cleaned up.
CleanUp(r, x) ==
    /\ \/ x.st = "Deleting"
       \/ x.st = "Live" /\ Terminal(x)
    /\ GiveBack(r, x)

\* shouldSkipProcessing writes the condition Suspended.
NoteSuspension(r, x) ==
    /\ x.st = "Live" /\ ~Terminal(x)
    /\ LET held == x.init = "True" /\ x.hold
           y == IF held THEN [x EXCEPT !.susp = "True"] ELSE Resumed(x)
       IN /\ y # x /\ runs[r] = x
          /\ runs' = [runs EXCEPT ![r] = y]
          /\ Continue(r, IF held THEN "Cleanup" ELSE "Claim", y)
    /\ UNCHANGED policy

\* ensureCleanupFinalizer, before the role is asked for.
AddFinalizer(r, x) ==
    /\ ~x.fin /\ runs[r] = x
    /\ runs' = [runs EXCEPT ![r].fin = TRUE]
    /\ Continue(r, "Claim", [x EXCEPT !.fin = TRUE])
    /\ UNCHANGED policy

\* Reconcile up to its first write. A write that fails on a stale copy, and a role
\* that somebody else holds, leave the request in the queue.
StartRun(r) ==
    /\ r \in queue /\ job[r].pc = "Idle"
    /\ LET x == seenRuns[r]
           held == x.init = "True" /\ x.hold
       IN \/ /\ x.st \in {"Absent", "Gone"}
             /\ Leave(r, FALSE)
             /\ UNCHANGED <<policy, runs>>
          \/ CleanUp(r, x)
          \/ NoteSuspension(r, x)
          \/ /\ x.st = "Live" /\ ~Terminal(x) /\ held /\ x.susp = "True"
             /\ GiveBack(r, x)
          \/ /\ x.st = "Live" /\ ~Terminal(x) /\ ~held /\ x.susp # "True"
             /\ \/ AddFinalizer(r, x)
                \/ x.fin /\ ClaimFor(r, x)
    /\ UNCHANGED <<bindings, requests, latest, elapsed, auto, budget, caches, world>>

\* The pass after a write of its own; what fails now ends it with an error.
ClaimRun(r) ==
    /\ job[r].pc = "Claim"
    /\ LET x == job[r].run
       IN \/ AddFinalizer(r, x)
          \/ x.fin /\ ClaimFor(r, x)
          \/ /\ \/ ~x.fin /\ runs[r] # x
                \/ x.fin /\ seenPolicy.st = "Gone" /\ runs[r] # x
                \/ x.fin /\ seenPolicy.st # "Gone" /\ ~ClaimSucceeds("staged")
             /\ Leave(r, TRUE)
             /\ UNCHANGED <<policy, runs>>
    /\ UNCHANGED <<bindings, requests, latest, elapsed, auto, budget, caches, world>>

\* initialize: the bindings in the cache are divided into stages and a snapshot of
\* what is selected now is taken. A run without bindings has failed to initialize.
Planned(x) ==
    [x EXCEPT !.init = "True", !.want = content,
              !.cl = [c \in Clusters |-> IF seenBindings[c].st = "Live" THEN "New" ELSE "Out"]]

Initialize(r) ==
    /\ job[r].pc = "Init"
    /\ LET empty == \A c \in Clusters : seenBindings[c].st # "Live"
           x == IF empty THEN [job[r].run EXCEPT !.init = "False"] ELSE Planned(job[r].run)
       IN /\ latest' = IF empty THEN latest ELSE content
          /\ \/ /\ runs[r] = job[r].base
                /\ runs' = [runs EXCEPT ![r] = x]
                /\ IF empty THEN Leave(r, TRUE)
                   ELSE Continue(r, IF x.hold THEN "Suspend" ELSE "Stage", x)
             \/ /\ runs[r] # job[r].base
                /\ Leave(r, TRUE)
                /\ UNCHANGED runs
    /\ UNCHANGED <<policy, bindings, requests, elapsed, auto, budget, caches, world>>

\* shouldSkipProcessing once more: the run was created suspended.
SuspendInitialized(r) ==
    /\ job[r].pc = "Suspend"
    /\ LET x == [job[r].run EXCEPT !.susp = "True"]
       IN \/ /\ runs[r] = job[r].base
             /\ runs' = [runs EXCEPT ![r] = x]
             /\ Continue(r, "Cleanup", x)
          \/ /\ runs[r] # job[r].base
             /\ Leave(r, TRUE)
             /\ UNCHANGED runs
    /\ UNCHANGED <<policy, bindings, requests, latest, elapsed, auto, budget, caches, world>>

-----------------------------------------------------------------------------
(* The staged update run controller: one stage. *)

\* executeApprovalStageTask: the request is created once, and again when it is
\* gone. A request that exists already may have been approved already, so the
\* error sends the run through another pass.
ApprovalTask(r, k, x) ==
    LET q == requests[<<r, k>>]
        noted == [x EXCEPT !.ask[k] = "Created"]
    IN CASE x.ask[k] = "Approved" -> [run |-> x, res |-> "Clear", create |-> FALSE]
         [] x.ask[k] = "None" /\ q # "None" -> [run |-> noted, res |-> "Error", create |-> FALSE]
         [] q = "None" -> [run |-> noted, res |-> "Wait", create |-> TRUE]
         [] x.ask[k] = "Created" /\ q = "Pending" -> [run |-> x, res |-> "Wait", create |-> FALSE]
         [] OTHER -> [run |-> [x EXCEPT !.ask[k] = "Approved"], res |-> "Clear", create |-> FALSE]

NoTask(x) == [run |-> x, res |-> "Clear", create |-> FALSE]

\* executeTimedWaitStageTask.
TimedWaitTask(r, s, x) ==
    IF x.wait[s] = "Elapsed" \/ s \notin Waits THEN NoTask(x)
    ELSE IF <<r, s>> \in ripe /\ x.wait[s] = "Started"
         THEN [NoTask(x) EXCEPT !.run = [x EXCEPT !.wait[s] = "Elapsed"]]
         ELSE [NoTask(x) EXCEPT !.run = [x EXCEPT !.wait[s] = "Started"], !.res = "Wait"]

Requested(r, k, t) ==
    requests' = IF t.create THEN [requests EXCEPT ![<<r, k>>] = "Pending"] ELSE requests

\* The pass goes to the status update with x, and is repeated or waits for an event.
Conclude(r, x, again) ==
    job' = [job EXCEPT ![r].pc = "Save", ![r].run = x, ![r].again = again]

\* processOneStage up to the workers, and the end of process: stages that are over
\* are passed by, their failures counted; the tasks before the stage come first.
NextStage(r) == Min({s \in (job[r].at + 1)..StageCount : job[r].run.stage[s] = "None"}
                    \cup {StageCount + 1})
FailuresUpTo(r, s) ==
    job[r].fails + Cardinality({c \in Clusters : /\ StageOf[c] \in (job[r].at + 1)..s
                                                 /\ job[r].run.cl[c] \in FailedStates})

EnterStage(r) ==
    /\ job[r].pc = "Stage"
    /\ LET x == job[r].run
           s == NextStage(r)
           fails == FailuresUpTo(r, s)
           k == <<s, "before">>
           t == IF s \in AsksBefore THEN ApprovalTask(r, k, x) ELSE NoTask(x)
       IN /\ Requested(r, k, t)
          /\ IF s > StageCount
             THEN Conclude(r, [x EXCEPT !.done = IF fails > 0 THEN "Partial" ELSE "Succeeded"], TRUE)
             ELSE IF t.res # "Clear" THEN Conclude(r, t.run, t.res = "Error")
             ELSE job' = [job EXCEPT
                    ![r].pc = "Work", ![r].run = t.run, ![r].at = s, ![r].fails = fails,
                    ![r].taken = {c \in InStage(x, s) :
                                     x.cl[c] \in FailedStates \cup {"Succeeded"}},
                    ![r].busy = {}, ![r].erred = 0, ![r].cut = FALSE]
    /\ UNCHANGED <<policy, bindings, runs, latest, elapsed, queue, auto, budget, caches, world>>

\* The workers take the clusters in order; one that meets an error stops.
Untaken(r) == InStage(job[r].run, job[r].at) \ job[r].taken
WorkersFree(r) == ~job[r].cut /\ Cardinality(job[r].busy) + job[r].erred < Concurrency

Marked(r, c, how) ==
    [job[r] EXCEPT !.run.cl[c] = how, !.taken = @ \cup {c}, !.busy = @ \ {c}]

\* A failure counts; beyond the limit the context of the workers is cancelled.
CountedFailure(j) == [j EXCEPT !.fails = @ + 1, !.cut = @ \/ j.fails + 1 > j.run.limit]
Erred(r, c) == [job[r] EXCEPT !.taken = @ \cup {c}, !.busy = @ \ {c}, !.erred = @ + 1]

\* refreshOneCluster up to the wait, for a cluster whose cached binding has another
\* snapshot: an update that started already is verified against the API server, for
\* the cache may lag; another one moves the binding.
Differing(r, c, b) ==
    IF job[r].run.cl[c] \in {"Started", "Stale"}
    THEN /\ UNCHANGED bindings
         /\ job' = [job EXCEPT ![r] =
                IF bindings[c].st = "No" THEN Erred(r, c)
                ELSE IF bindings[c].snap # job[r].run.want
                     THEN CountedFailure(Marked(r, c, "Conflict"))
                     ELSE [Marked(r, c, "Started") EXCEPT !.busy = @ \cup {c},
                                                         !.gens[c] = bindings[c].gen]]
    ELSE IF bindings[c] = b
         THEN /\ bindings' = [bindings EXCEPT ![c] = Moved(b, job[r].run.want)]
              /\ job' = [job EXCEPT ![r] = [Marked(r, c, "Started") EXCEPT
                            !.busy = @ \cup {c}, !.gens[c] = b.gen + 1]]
         ELSE /\ job' = [job EXCEPT ![r] = Erred(r, c)]
              /\ UNCHANGED bindings

TakeCluster(r) ==
    /\ job[r].pc = "Work" /\ WorkersFree(r) /\ Untaken(r) # {}
    /\ LET c == Min(Untaken(r))
           b == seenBindings[c]
       IN IF b.st # "Live"
          THEN /\ job' = [job EXCEPT ![r] = CountedFailure(Marked(r, c, "Failed"))]
               /\ UNCHANGED bindings
          ELSE IF b.snap # job[r].run.want THEN Differing(r, c, b)
          ELSE /\ job' = [job EXCEPT ![r] = [Marked(r, c, "Started") EXCEPT
                             !.busy = @ \cup {c}, !.gens[c] = b.gen]]
               /\ UNCHANGED bindings
    /\ UNCHANGED <<policy, runs, requests, latest, elapsed, queue, auto, budget, caches, world>>

\* waitForOneClusterToBeUpdatedAndAvailable, one look at the cache. A generation
\* before the update says nothing.
Looked(r, c) ==
    LET b == seenBindings[c]
    IN CASE b.st = "No" -> Erred(r, c)
         [] b.st # "No" /\ b.gen < job[r].gens[c] -> job[r]
         [] b.gen >= job[r].gens[c] /\ b.snap # job[r].run.want ->
              CountedFailure(Marked(r, c, "Conflict"))
         [] b.gen >= job[r].gens[c] /\ b.snap = job[r].run.want /\ b.ok ->
              Marked(r, c, "Succeeded")
         [] OTHER -> job[r]

Poll(r, c) ==
    /\ job[r].pc = "Work" /\ c \in job[r].busy
    /\ Looked(r, c) # job[r]
    /\ job' = [job EXCEPT ![r] = Looked(r, c)]
    /\ UNCHANGED <<policy, bindings, runs, requests, latest, elapsed, queue, auto, budget, caches,
                   world>>

\* The time a cluster may take is over.
TimeOut(r, c) ==
    /\ job[r].pc = "Work" /\ c \in job[r].busy
    /\ Surprise("timeout")
    /\ job' = [job EXCEPT ![r] = CountedFailure(Marked(r, c, "Failed"))]
    /\ UNCHANGED <<policy, bindings, runs, requests, latest, elapsed, queue, auto, caches, world>>

\* The context of the workers is done: the refresh period is over with nothing new
\* to see, or a failure too many cancelled it.
Deadline(r) ==
    /\ job[r].pc = "Work" /\ job[r].busy # {}
    /\ job[r].cut \/ \A c \in job[r].busy : Looked(r, c) = job[r]
    /\ job' = [job EXCEPT ![r].busy = {}, ![r].cut = TRUE]
    /\ UNCHANGED <<policy, bindings, runs, requests, latest, elapsed, queue, auto, budget, caches,
                   world>>

\* The end of processOneStage: too many failures fail the stage and the run, and
\* cancel what is under way; with every cluster done the tasks after the stage are
\* run, and the stage is over when all of them are cleared.
StageFailed(x, s) ==
    [x EXCEPT !.done = "Failed", !.stage[s] = "Failed",
              !.cl = [c \in Clusters |-> IF c \in InStage(x, s) /\ @[c] \in {"Started", "Stale"}
                                         THEN "Canceled" ELSE @[c]]]

AfterTasks(r, s, x) ==
    LET t == IF s \in AsksAfter THEN ApprovalTask(r, <<s, "after">>, x) ELSE NoTask(x)
        w == TimedWaitTask(r, s, t.run)
    IN IF t.res = "Error" THEN t
       ELSE [w EXCEPT !.create = t.create, !.res = IF t.res = "Wait" THEN "Wait" ELSE @]

Tally(r) ==
    /\ job[r].pc = "Work" /\ job[r].busy = {}
    /\ ~WorkersFree(r) \/ Untaken(r) = {}
    /\ LET x == job[r].run
           s == job[r].at
           t == AfterTasks(r, s, x)
           complete == \A c \in InStage(x, s) : x.cl[c] \in FailedStates \cup {"Succeeded"}
           outcome == IF FailedIn(x, s) = {} THEN "Succeeded" ELSE "Partial"
       IN \/ /\ job[r].fails > x.limit
             /\ Conclude(r, StageFailed(x, s), TRUE)
             /\ UNCHANGED requests
          \/ /\ job[r].fails <= x.limit /\ ~complete
             /\ Conclude(r, x, TRUE)
             /\ UNCHANGED requests
          \/ /\ job[r].fails <= x.limit /\ complete
             /\ Requested(r, <<s, "after">>, t)
             /\ IF t.res # "Clear" THEN Conclude(r, t.run, t.res = "Error")
                ELSE job' = [job EXCEPT ![r].pc = "Stage",
                                        ![r].run = [t.run EXCEPT !.stage[s] = outcome]]
    /\ UNCHANGED <<policy, bindings, runs, latest, elapsed, queue, auto, budget, caches, world>>

\* The status update at the end of Reconcile; a conflict is an error.
Save(r) ==
    /\ job[r].pc = "Save"
    /\ \/ /\ runs[r] = job[r].base
          /\ runs' = [runs EXCEPT ![r] = job[r].run]
          /\ Leave(r, job[r].again)
       \/ /\ runs[r] # job[r].base
          /\ Leave(r, TRUE)
          /\ UNCHANGED runs
    /\ UNCHANGED <<policy, bindings, requests, latest, elapsed, auto, budget, caches, world>>

\* cleanup after the run was noted as suspended, and its second half.
CleanSuspended(r) ==
    /\ job[r].pc = "Cleanup"
    /\ \/ GiveBack(r, job[r].run)
       \/ /\ seenPolicy.st # "Gone" /\ ~Fresh
          /\ Leave(r, TRUE)
          /\ UNCHANGED <<policy, runs>>
    /\ UNCHANGED <<bindings, requests, latest, elapsed, auto, budget, caches, world>>

RemoveFinalizer(r) ==
    /\ job[r].pc = "Release"
    /\ runs' = IF runs[r] # job[r].base THEN runs
               ELSE [runs EXCEPT ![r].fin = FALSE,
                                 ![r].st = IF @ = "Deleting" THEN "Gone" ELSE @]
    /\ Leave(r, runs[r] # job[r].base)
    /\ UNCHANGED <<policy, bindings, requests, latest, elapsed, auto, budget, caches, world>>

-----------------------------------------------------------------------------
(* The placement policy controller: its part in the rollout. *)

\* reconcileBindings: bindings are created for picked clusters that have none, and
\* deleted for those no longer picked.
Missing == {c \in targets : seenBindings[c].st = "No"}
Unwanted == {c \in Clusters \ targets : seenBindings[c].st = "Live"}

PolicyClaims ==
    /\ pol.pc = "Idle" /\ seenPolicy.st = "Live"
    /\ Missing \cup Unwanted # {}
    /\ ClaimSucceeds("policy")
    /\ policy' = ClaimRoleAs("policy", Self)
    /\ pol' = [pc |-> "Apply", add |-> Missing, del |-> Unwanted]
    /\ UNCHANGED <<bindings, runs, requests, content, latest, targets, elapsed, ripe, queue, auto,
                   job, history, budget, caches>>

\* A binding that exists already stays as it is; a new one gets the latest snapshot.
PolicyCreates(c) ==
    /\ pol.pc = "Apply" /\ c \in pol.add
    /\ bindings' = [bindings EXCEPT
          ![c] = IF @.st = "No" THEN [NoBinding EXCEPT !.st = "Live", !.snap = latest, !.gen = 1]
                 ELSE @]
    /\ pol' = [pol EXCEPT !.add = @ \ {c}]
    /\ UNCHANGED <<policy, runs, requests, content, latest, targets, elapsed, ripe, queue, auto,
                   job, history, budget, caches>>

PolicyDeletes(c) ==
    /\ pol.pc = "Apply" /\ pol.add = {} /\ c \in pol.del
    /\ bindings' = [bindings EXCEPT ![c].st = IF @ = "Live" THEN "Deleting" ELSE @]
    /\ pol' = [pol EXCEPT !.del = @ \ {c}]
    /\ UNCHANGED <<policy, runs, requests, content, latest, targets, elapsed, ripe, queue, auto,
                   job, history, budget, caches>>

\* The role is given back with the copy of the claim; a copy that is stale by now
\* leaves the role to the next pass.
PolicyReturns ==
    /\ pol.pc = "Apply" /\ pol.add \cup pol.del = {}
    /\ policy' = IF policy.st = "Live" THEN RelinquishRoleFor("policy", Self) ELSE policy
    /\ pol' = [pol EXCEPT !.pc = "Idle"]
    /\ UNCHANGED <<bindings, runs, requests, content, latest, targets, elapsed, ripe, queue, auto,
                   job, history, budget, caches>>

\* A pass without changes to make: a role left over is given back, and the status
\* says whether a rollout is needed.
Needed ==
    /\ targets # {}
    /\ \/ content # latest
       \/ \E c \in targets : seenBindings[c].st = "Live" /\ seenBindings[c].snap # latest

PolicyReports ==
    /\ pol.pc = "Idle" /\ seenPolicy.st = "Live" /\ Fresh
    /\ Missing \cup Unwanted = {} \/ HeldByOther("policy")
    /\ policy' = [RelinquishRoleFor("policy", Self) EXCEPT !.need = Needed]
    /\ policy' # policy
    /\ UNCHANGED <<bindings, runs, requests, latest, elapsed, queue, auto, job, budget, caches,
                   world>>

-----------------------------------------------------------------------------
(* The environment. *)

controllers == <<auto, job, pol>>

\* Users create runs, suspend, resume and delete them.
CreateRun(r, hold, limit) ==
    /\ runs[r].st = "Absent"
    /\ hold => Allowed("edit")
    /\ runs' = [runs EXCEPT ![r].st = "Live", ![r].hold = hold, ![r].limit = limit]
    /\ UNCHANGED <<policy, bindings, requests, content, latest, targets, elapsed, ripe, queue,
                   history, budget, controllers, caches>>

EditRun(r) ==
    /\ Surprise("edit")
    /\ runs[r].st = "Live"
    /\ \/ runs' = [runs EXCEPT ![r].hold = ~@]
       \/ runs' = [runs EXCEPT ![r].st = IF runs[r].fin THEN "Deleting" ELSE "Gone"]
    /\ UNCHANGED <<policy, bindings, requests, content, latest, targets, elapsed, ripe, queue,
                   history, controllers, caches>>

\* An approval queues the run, and so does the loss of the request.
Approve(r, k) ==
    /\ requests[<<r, k>>] = "Pending"
    /\ requests' = [requests EXCEPT ![<<r, k>>] = "Approved"]
    /\ history' = [history EXCEPT !.given = @ \cup {<<r, k>>}]
    /\ queue' = queue \cup {r}
    /\ UNCHANGED <<policy, bindings, runs, content, latest, targets, elapsed, ripe, budget,
                   controllers, caches>>

DeleteRequest(r, k) ==
    /\ Surprise("request")
    /\ requests[<<r, k>>] # "None"
    /\ requests' = [requests EXCEPT ![<<r, k>>] = "None"]
    /\ queue' = queue \cup {r}
    /\ UNCHANGED <<policy, bindings, runs, content, latest, targets, elapsed, ripe, history,
                   controllers, caches>>

\* The selected resources, or the clusters the policy picks, change.
ChangeContent ==
    /\ content < MaxContent
    /\ content' = content + 1
    /\ UNCHANGED <<policy, bindings, runs, requests, latest, targets, elapsed, ripe, queue, history,
                   budget, controllers, caches>>

ChangeTargets ==
    /\ Surprise("targets")
    /\ \E c \in Clusters : targets' = SymDiff(targets, {c})
    /\ UNCHANGED <<policy, bindings, runs, requests, content, latest, elapsed, ripe, queue, history,
                   controllers, caches>>

\* The policy is deleted: it goes when its claims are gone, its bindings after it.
DeletePolicy ==
    /\ Surprise("policy")
    /\ policy.st = "Live"
    /\ policy' = [policy EXCEPT !.st = "Deleting"]
    /\ UNCHANGED <<bindings, runs, requests, content, latest, targets, elapsed, ripe, queue, history,
                   controllers, caches>>

PolicyGone ==
    /\ policy.st = "Deleting" /\ seenPolicy.st = "Deleting"
    /\ policy' = [policy EXCEPT !.st = "Gone"]
    /\ UNCHANGED <<bindings, runs, requests, content, latest, targets, elapsed, ripe, queue, history,
                   budget, controllers, caches>>

\* The work generator: a binding is reported available, or its finalizer removed.
WorkDone(c) ==
    /\ bindings[c].st = "Live" /\ ~bindings[c].ok
    /\ bindings' = [bindings EXCEPT ![c].ok = TRUE]
    /\ history' = [history EXCEPT !.served[c] = @ \cup {bindings[c].snap}]
    /\ UNCHANGED <<policy, runs, requests, content, latest, targets, elapsed, ripe, queue, budget,
                   controllers, caches>>

BindingGone(c) ==
    /\ \/ bindings[c].st = "Deleting"
       \/ bindings[c].st = "Live" /\ policy.st = "Gone"
    /\ bindings' = [bindings EXCEPT ![c] = NoBinding]
    /\ UNCHANGED <<policy, runs, requests, content, latest, targets, elapsed, ripe, queue, history,
                   budget, controllers, caches>>

\* Another staged update run, which shares the role, moves a binding its own way.
Rival(c, snap) ==
    /\ Surprise("rival")
    /\ policy.manager = "staged"
    /\ bindings[c].st = "Live" /\ snap # bindings[c].snap
    /\ bindings' = [bindings EXCEPT ![c] = Moved(@, snap)]
    /\ UNCHANGED <<policy, runs, requests, content, latest, targets, elapsed, ripe, queue, history,
                   controllers, caches>>

\* Timers queue the request they belong to.
MinWaitElapses ==
    /\ ~elapsed /\ policy.attempt
    /\ elapsed' = TRUE
    /\ queue' = queue \cup {Self}
    /\ UNCHANGED <<policy, bindings, runs, requests, content, latest, targets, ripe, history, budget,
                   controllers, caches>>

WaitElapses(r, s) ==
    /\ runs[r].wait[s] = "Started" /\ <<r, s>> \notin ripe
    /\ ripe' = ripe \cup {<<r, s>>}
    /\ queue' = queue \cup {r}
    /\ UNCHANGED <<policy, bindings, runs, requests, content, latest, targets, elapsed, history,
                   budget, controllers, caches>>

\* The caches catch up; the event handlers filter.
DeliverPolicy ==
    /\ ~Fresh
    /\ seenPolicy' = policy
    /\ queue' = IF AutoEvent(seenPolicy, policy) THEN queue \cup {Self} ELSE queue
    /\ UNCHANGED <<policy, bindings, seenBindings, runs, seenRuns, requests, content, latest,
                   targets, elapsed, ripe, history, budget, controllers>>

DeliverBinding(c) ==
    /\ seenBindings[c] # bindings[c]
    /\ seenBindings' = [seenBindings EXCEPT ![c] = bindings[c]]
    /\ UNCHANGED <<policy, seenPolicy, bindings, runs, seenRuns, requests, content, latest, targets,
                   elapsed, ripe, queue, history, budget, controllers>>

\* Mutant: only suspension and resumption count.
RunEventHold(old, new) == old.hold # new.hold

\* GenerationChangedPredicate: a change of the status alone does not count.
RunEvent(old, new) == old.st # new.st \/ old.hold # new.hold

DeliverRun(r) ==
    /\ seenRuns[r] # runs[r]
    /\ seenRuns' = [seenRuns EXCEPT ![r] = runs[r]]
    /\ queue' = IF RunEvent(seenRuns[r], runs[r]) THEN queue \cup {r} ELSE queue
    /\ UNCHANGED <<policy, seenPolicy, bindings, seenBindings, runs, requests, content, latest,
                   targets, elapsed, ripe, history, budget, controllers>>

\* A failed call ends a pass with an error.
AbortRun(r) ==
    /\ Surprise("failure")
    /\ job[r].pc # "Idle"
    /\ Leave(r, TRUE)
    /\ UNCHANGED <<policy, bindings, runs, requests, latest, elapsed, auto, caches, world>>

\* The hub agent restarts: what is in memory is lost, everything is listed again.
Restart ==
    /\ Surprise("restart")
    /\ auto' = NoAuto
    /\ job' = [r \in Runs |-> NoJob]
    /\ pol' = [pol EXCEPT !.pc = "Idle", !.add = {}, !.del = {}]
    /\ seenPolicy' = policy /\ seenBindings' = bindings /\ seenRuns' = runs
    /\ queue' = {r \in Runs : runs[r].st \in {"Live", "Deleting"}} \cup
                 IF policy.st # "Gone" /\ (policy.auto \/ policy.manager = "auto") THEN {Self} ELSE {}
    /\ UNCHANGED <<policy, bindings, runs, requests, content, latest, targets, elapsed, ripe,
                   history>>

-----------------------------------------------------------------------------
(* Specification. *)

Init ==
    /\ \E start \in Starts :
          /\ policy = [st |-> "Live", manager |-> "None", refs |-> {}, auto |-> start.auto,
                       attempt |-> FALSE, need |-> FALSE]
          /\ targets = start.bound
          /\ budget = start.budget
    /\ bindings = [c \in Clusters |-> IF c \in targets
                                      THEN [st |-> "Live", snap |-> 0, gen |-> 1, ok |-> TRUE]
                                      ELSE NoBinding]
    /\ runs = [r \in Runs |-> NoRun]
    /\ seenPolicy = policy /\ seenBindings = bindings /\ seenRuns = runs
    /\ requests = [q \in Runs \X (Stages \X {"before", "after"}) |-> "None"]
    /\ content = 0 /\ latest = 0
    /\ elapsed = TRUE
    /\ ripe = {}
    /\ queue = {}
    /\ auto = NoAuto
    /\ job = [r \in Runs |-> NoJob]
    /\ pol = [pc |-> "Idle", add |-> {}, del |-> {}]
    /\ history = [served |-> [c \in Clusters |-> IF c \in targets THEN {0} ELSE {}], given |-> {}]

AutoRolls ==
    \/ StartAuto \/ RolloutAuto \/ FinishAuto
    \/ \E c \in Clusters : RefreshBinding(c)

RunStep(r) ==
    \/ StartRun(r) \/ ClaimRun(r) \/ Initialize(r) \/ SuspendInitialized(r)
    \/ EnterStage(r) \/ TakeCluster(r) \/ Tally(r) \/ Save(r)
    \/ CleanSuspended(r) \/ RemoveFinalizer(r)
    \/ \E c \in Clusters : Poll(r, c)

PolicyStep ==
    \/ PolicyClaims \/ PolicyReturns \/ PolicyReports
    \/ \E c \in Clusters : PolicyCreates(c) \/ PolicyDeletes(c)

DeliverObject ==
    \/ \E c \in Clusters : DeliverBinding(c)
    \/ \E r \in Runs : DeliverRun(r)

\* What happens in the end on its own: approvals, reports, removals and timers.
Helped ==
    \/ MinWaitElapses \/ PolicyGone
    \/ \E c \in Clusters : WorkDone(c) \/ BindingGone(c)
    \/ \E r \in Runs : \E s \in Stages :
          \/ WaitElapses(r, s)
          \/ \E w \in {"before", "after"} : Approve(r, <<s, w>>)

Next ==
    \/ AutoRolls \/ RolloutAutoRefused
    \/ PolicyStep \/ DeliverPolicy \/ DeliverObject \/ Helped
    \/ \E r \in Runs :
          \/ RunStep(r) \/ Deadline(r) \/ AbortRun(r) \/ EditRun(r)
          \/ \E hold \in BOOLEAN, limit \in FailureLimits : CreateRun(r, hold, limit)
          \/ \E c \in Clusters : TimeOut(r, c)
          \/ \E s \in Stages, w \in {"before", "after"} : DeleteRequest(r, <<s, w>>)
    \/ \E c \in Clusters : \E snap \in 0..content : Rival(c, snap)
    \/ ChangeContent \/ ChangeTargets \/ DeletePolicy \/ Restart

Spec == Init /\ [][Next]_vars

\* Controllers whose request is queued take it up, a pass goes on, caches catch up
\* and what is only a matter of time happens. The end of the refresh period counts
\* as a step of the pass.
FairSpec ==
    /\ Spec
    /\ WF_vars(AutoRolls)
    /\ \A r \in Runs : WF_vars(RunStep(r) \/ Deadline(r))
    /\ SF_vars(PolicyStep)
    /\ WF_vars(DeliverPolicy)
    /\ WF_vars(DeliverObject)
    /\ WF_vars(Helped)

-----------------------------------------------------------------------------
(* Properties. *)

TypeOK ==
    /\ policy \in Policy /\ seenPolicy \in Policy
    /\ \A c \in Clusters : bindings[c] \in Binding /\ seenBindings[c] \in Binding
    /\ \A r \in Runs : {runs[r], seenRuns[r], job[r].run, job[r].base} \subseteq StagedUpdateRun
    /\ \A r \in Runs : job[r].busy \subseteq job[r].taken /\ Cardinality(job[r].busy) <= Concurrency

Moves(c) == bindings[c].st = "Live" /\ bindings'[c].snap # bindings[c].snap /\ bindings'[c].st = "Live"
Taken(r, c) == c \in job'[r].taken /\ c \notin job[r].taken

\* The binding manager role (bindingmanager.ClaimRoleAs) keeps the controllers
\* apart: a binding moves to another snapshot only while the auto-rollout or a
\* staged update run that holds the role moves it, and the policy controller adds
\* and deletes bindings only while it holds it. Copies of the policy may be stale.
RoleGuardsBindings ==
    [][\A c \in Clusters :
        /\ Moves(c) /\ budget' = budget =>
                       \/ policy.manager = "auto" /\ auto.pc = "Refresh"
                       \/ \E r \in Runs : /\ Taken(r, c)
                                          /\ policy.manager = "staged" /\ r \in policy.refs
        /\ pol'.add # pol.add \/ pol'.del # pol.del => policy'.manager = "policy"]_vars

\* A cluster that a run reports as updated has had the snapshot of the run available.
SucceededIsServed ==
    \A r \in Runs : \A c \in Clusters :
        runs[r].cl[c] = "Succeeded" => runs[r].want \in history.served[c]

AtRest(x) ==
    \/ x.st \in {"Absent", "Gone"}
    \/ x.st = "Live" /\ ~x.fin /\ Terminal(x)
    \/ x.st = "Live" /\ ~x.fin /\ x.hold /\ x.susp = "True"

\* Everything comes to rest: runs complete, or are suspended or gone, and let go of
\* the finalizer; the role is given back; with auto-rollout and no other writer the
\* bindings end up on the current resources.
Settles ==
    <>[](/\ \A r \in Runs : AtRest(runs[r])
         /\ policy.st = "Gone" \/ policy.manager = "None"
         /\ policy.st = "Live" /\ policy.auto =>
               \A c \in Clusters : bindings[c].st = "Live" => bindings[c].snap = content)
=============================================================================
