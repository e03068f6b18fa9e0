------------------------------- MODULE Members -------------------------------
(***************************************************************************)
(* How ONE member cluster joins and leaves the fleet.                      *)
(*                                                                         *)
(* On the hub the member cluster controller turns a MemberCluster into a   *)
(* namespace, a role binding and an InternalMemberCluster; the member      *)
(* agent follows the latter, reports heartbeats, health and properties in  *)
(* its status, and the controller copies them to the MemberCluster.  On    *)
(* deletion the agent is asked to leave; when it has left, or after a      *)
(* wait, the controller strips the finalizers of the Works and removes the *)
(* namespace.  The cluster profile controller and the watcher that wakes   *)
(* the scheduler follow the MemberCluster.                                 *)
(*                                                                         *)
(* Hub controllers share one informer cache, the agent has its own.  A     *)
(* write fails when the object is no longer the version it was based on;   *)
(* the versions are compared by content.  Every agent, and every step of   *)
(* every controller, may fall behind, fail or restart.                     *)
(***************************************************************************)
EXTENDS Naturals, FiniteSets

CONSTANTS
    MaxCreates,     \* bound: MemberClusters created under the name
    MaxEdits,       \* bound: edits of the MemberCluster
    MaxFaults,      \* bound: failed calls, restarts, deaths, refused probes
    MaxExpiries,    \* bound: how often the heartbeat timeout passes
    MaxEvents       \* bound: edits, faults and expiries together

ASSUME MembersAssumption == {MaxCreates, MaxEdits, MaxFaults, MaxExpiries, MaxEvents} \subseteq Nat

JoinStates == {"None", "True", "False", "Unknown"}

\* AgentStatus and the conditions of an InternalMemberCluster.  A heartbeat is
\* fresh until the timeout passes; an unhealthy agent turns from Bad to BadLong
\* when it stays unhealthy for as long.
Status ==
    [joined  : JoinStates,              \* AgentJoined
     fresh   : BOOLEAN,
     healthy : {"None", "True", "Bad", "BadLong"}]
NoReport == [joined |-> "None", fresh |-> FALSE, healthy |-> "None"]

\* current: the conditions carry the generation of the spec.
MemberCluster ==
    [phase   : {"None", "Live", "Deleting"},
     uid     : 0 .. MaxCreates,
     fin     : SUBSET {"cluster", "profile"},
     spec    : 0 .. 1,              \* identity and heartbeat period
     tainted : BOOLEAN,
     labels  : BOOLEAN,             \* name and alias labels
     ready   : {"None", "True", "False"},
     joined  : JoinStates,
     current : BOOLEAN,
     status  : Status]
NoMC == [phase |-> "None", uid |-> 0, fin |-> {}, spec |-> 0, tainted |-> FALSE, labels |-> FALSE,
         ready |-> "None", joined |-> "None", current |-> FALSE, status |-> NoReport]

InternalMemberCluster ==
    [state : {"None", "Join", "Leave"}, spec : 0 .. 1, status : Status]
NoIMC == [state |-> "None", spec |-> 0, status |-> NoReport]

Phases == {"None", "Live", "Deleting"}

VARIABLES
    mc,         \* the MemberCluster
    ns,         \* its namespace
    rb,         \* the identity its role binding lets in, or "None"
    imc,        \* the InternalMemberCluster in the namespace
    work,       \* a Work in the namespace: phase and finalizer
    waited,     \* ForceDeleteWaitTime has passed since the deletion
    seen,       \* the hub's informer cache
    queued,     \* hub work queues: member cluster, profile, scheduler
    job,        \* the reconciliation of the MemberCluster that is under way
    profile,    \* the ClusterProfile
    picked,     \* has the scheduler placed something on the cluster
    agent,      \* the member agent's process
    readded,    \* a finalizer was put back on a Work that had been released
    budget
vars == <<mc, ns, rb, imc, work, waited, seen, queued, job, profile, picked, agent,
          readded, budget>>

Steps == {"idle", "status", "works", "remove"}
Idle == [step |-> "idle", mc |-> NoMC, imc |-> NoIMC]

TypeOK ==
    /\ mc \in MemberCluster /\ ns \in Phases
    /\ rb \in 0 .. 2                    \* 2: there is no role binding
    /\ imc \in InternalMemberCluster
    /\ work \in [phase : {"None", "Live", "Deleting"}, fin : BOOLEAN]
    /\ waited \in BOOLEAN
    /\ seen \in [mc : MemberCluster, imc : InternalMemberCluster]
    /\ queued \in [mc : BOOLEAN, timer : BOOLEAN, profile : BOOLEAN, sched : BOOLEAN]
    /\ job \in [step : Steps, mc : MemberCluster, imc : InternalMemberCluster]
    /\ profile \in [phase : {"None", "Live"}, health : {"None", "Unknown", "False", "True"}]
    /\ picked \in BOOLEAN
    /\ agent \in [alive : BOOLEAN, joined : BOOLEAN, imc : InternalMemberCluster, due : BOOLEAN]
    /\ readded \in BOOLEAN
    /\ budget \in [creates : 0 .. MaxCreates, edits : 0 .. MaxEdits, faults : 0 .. MaxFaults,
                   expiries : 0 .. MaxExpiries]

Init ==
    /\ mc = NoMC /\ ns = "None" /\ rb = 2 /\ imc = NoIMC
    /\ work = [phase |-> "None", fin |-> FALSE] /\ waited = FALSE
    /\ seen = [mc |-> NoMC, imc |-> NoIMC]
    /\ queued = [mc |-> FALSE, timer |-> FALSE, profile |-> FALSE, sched |-> FALSE]
    /\ job = Idle
    /\ profile = [phase |-> "None", health |-> "None"]
    /\ picked = FALSE
    /\ agent = [alive |-> TRUE, joined |-> FALSE, imc |-> NoIMC, due |-> FALSE]
    /\ readded = FALSE
    /\ budget = [creates |-> 0, edits |-> 0, faults |-> 0, expiries |-> 0]

-------------------------------------------------------------------------------
(***************************************************************************)
(* The objects                                                             *)
(***************************************************************************)
Spend(f) ==
    /\ f # "creates" => budget.edits + budget.faults + budget.expiries < MaxEvents
    /\ budget' = [budget EXCEPT ![f] = @ + 1]
Fault == budget.faults < MaxFaults /\ Spend("faults")

RemoveFinalizer(m, f) ==
    IF m.phase = "Deleting" /\ m.fin \subseteq {f} THEN NoMC ELSE [m EXCEPT !.fin = @ \ {f}]

\* The cluster has joined, or left, when its agent has; the networking agents,
\* which are off by default, are left out.
AggregateJoined(st) == IF st.joined = "None" THEN "Unknown" ELSE st.joined

\* Copies the report of the agents to the MemberCluster.
SyncStatus(m, i) ==
    IF i.state = "None" THEN m
    ELSE LET j == AggregateJoined(i.status)
         IN  [m EXCEPT !.status = i.status, !.joined = j, !.current = TRUE,
                       !.ready = IF j = "False" THEN "False" ELSE @]

\* Is the cluster one the scheduler may pick.
IsEligible(m) ==
    /\ m.phase = "Live"
    /\ m.status.joined = "True"
    /\ m.status.fresh
    /\ m.status.healthy \notin {"None", "BadLong"}

\* Mutant: an expired heartbeat does not make the old version ineligible.
WakesSchedulerByJoin(old, new) ==
    \/ new.phase = "None" /\ old.phase # "None"
    \/ /\ old.phase # "None" /\ new.phase = "Live"
       /\ \/ old.labels # new.labels
          \/ old.tainted /\ ~new.tainted
          \/ (old.status.joined = "None") # (new.status.joined = "None")
          \/ IsEligible(new) /\ ~IsEligible([old EXCEPT !.status.fresh = TRUE])

\* The watcher's filter.  Properties and resource usage are there once the member
\* agent has reported; how their values move is left out, it only adds wake-ups.
WakesScheduler(old, new) ==
    \/ new.phase = "None" /\ old.phase # "None"
    \/ /\ old.phase # "None" /\ new.phase = "Live"
       /\ \/ old.labels # new.labels
          \/ old.tainted /\ ~new.tainted
          \/ (old.status.joined = "None") # (new.status.joined = "None")
          \/ IsEligible(new) /\ ~IsEligible(old)

-------------------------------------------------------------------------------
(***************************************************************************)
(* The users, the clock and the caches                                     *)
(***************************************************************************)
CreateMC ==
    /\ mc.phase = "None" /\ budget.creates < MaxCreates /\ Spend("creates")
    /\ mc' = [NoMC EXCEPT !.phase = "Live", !.uid = budget.creates + 1]
    /\ waited' = FALSE
    /\ UNCHANGED <<ns, rb, imc, work, seen, queued, job, profile, picked, agent, readded>>

\* Another identity or heartbeat period, or a taint; each is a new generation.
EditMC ==
    /\ mc.phase = "Live" /\ budget.edits < MaxEdits /\ Spend("edits")
    /\ \/ mc' = [mc EXCEPT !.spec = 1 - @, !.current = FALSE]
       \/ mc' = [mc EXCEPT !.tainted = ~@, !.current = FALSE]
    /\ UNCHANGED <<ns, rb, imc, work, waited, seen, queued, job, profile, picked, agent, readded>>

DeleteMC ==
    /\ mc.phase = "Live"
    /\ mc' = IF mc.fin = {} THEN NoMC ELSE [mc EXCEPT !.phase = "Deleting", !.current = FALSE]
    /\ UNCHANGED <<ns, rb, imc, work, waited, seen, queued, job, profile, picked, agent,
                   readded, budget>>

Aged(st) == [st EXCEPT !.fresh = FALSE, !.healthy = IF @ = "Bad" THEN "BadLong" ELSE @]
AgedIMC(i) == [i EXCEPT !.status = Aged(@)]
AgedMC(m) == [m EXCEPT !.status = Aged(@)]

\* The heartbeat timeout passes: every heartbeat sent so far is old, in every copy.
Expire ==
    /\ budget.expiries < MaxExpiries /\ Spend("expiries")
    /\ mc' = AgedMC(mc) /\ imc' = AgedIMC(imc)
    /\ seen' = [seen EXCEPT !.mc = AgedMC(@), !.imc = AgedIMC(@)]
    /\ job' = [job EXCEPT !.mc = AgedMC(@), !.imc = AgedIMC(@)]
    /\ agent' = [agent EXCEPT !.imc = AgedIMC(@)]
    /\ UNCHANGED <<ns, rb, work, waited, queued, profile, picked, readded>>

\* GenerationChangedPredicate.
NewGeneration(old, new) ==
    <<old.uid, old.phase, old.spec, old.tainted>> # <<new.uid, new.phase, new.spec, new.tainted>>

\* The controller of MemberClusters reacts to a new generation, the one of
\* ClusterProfiles to every change, the watcher to what its filter lets pass.
DeliverMC ==
    /\ seen.mc # mc
    /\ seen' = [seen EXCEPT !.mc = mc]
    /\ queued' = [queued EXCEPT
            !.mc = @ \/ NewGeneration(seen.mc, mc),
            !.profile = TRUE,
            !.sched = @ \/ WakesScheduler(seen.mc, mc)]
    /\ UNCHANGED <<mc, ns, rb, imc, work, waited, job, profile, picked, agent, readded, budget>>

\* The InternalMemberCluster is owned by the MemberCluster.
DeliverIMC ==
    /\ seen.imc # imc /\ seen' = [seen EXCEPT !.imc = imc]
    /\ queued' = [queued EXCEPT !.mc = TRUE]
    /\ UNCHANGED <<mc, ns, rb, imc, work, waited, job, profile, picked, agent, readded, budget>>

\* ForceDeleteWaitTime passes and the delayed requeue comes.
WaitElapses ==
    /\ queued.timer
    /\ queued' = [queued EXCEPT !.timer = FALSE, !.mc = TRUE]
    /\ waited' = (mc.phase = "Deleting")
    /\ UNCHANGED <<mc, ns, rb, imc, work, seen, job, profile, picked, agent, readded, budget>>

-------------------------------------------------------------------------------
(***************************************************************************)
(* The member cluster controller                                           *)
(***************************************************************************)
Unchanged == UNCHANGED <<waited, seen, profile, picked, agent, readded>>
Finish(again) == job' = Idle /\ queued' = [queued EXCEPT !.mc = @ \/ again]
Continue(j) == job' = j /\ UNCHANGED queued
Dequeue == queued' = [queued EXCEPT !.mc = FALSE]

\* Mutant: an agent that has been asked to leave is not given its time.
DeleteStepHasty(m, i) ==
    IF i.state \in {"None", "Leave"} \/ SyncStatus(m, i).joined = "False" THEN "works" ELSE "leave"

\* What handleDelete does once the namespace is known to be there.
DeleteStep(m, i) ==
    IF i.state = "None" \/ SyncStatus(m, i).joined = "False" THEN "works"
    ELSE IF i.state = "Leave" /\ waited THEN "works"
    ELSE "leave"

\* syncInternalMemberCluster for m, from the copy i, in the namespace space: what
\* it writes, or nothing when the copy is as it should be, and whether it fails.
WantedIMC(m, i) ==
    [i EXCEPT !.state = IF m.phase = "Live" THEN "Join" ELSE "Leave", !.spec = m.spec]
SyncIMCFails(m, i, space) ==
    /\ WantedIMC(m, i) # i
    /\ IF i.state = "None" THEN imc.state # "None" \/ space # "Live" ELSE imc # i

\* Reconcile: the finalizer and the labels are put on a live MemberCluster; then
\* join creates the namespace when it is missing, the role and the role
\* binding, and the InternalMemberCluster.  Nothing can be created in a namespace
\* that is being deleted.  The first call that fails ends it, and it starts again.
Reconcile ==
    /\ queued.mc /\ job.step = "idle" /\ seen.mc.phase = "Live"
    /\ LET m == [seen.mc EXCEPT !.fin = @ \cup {"cluster"}, !.labels = TRUE]
           i == seen.imc
           mcFails == m # seen.mc /\ mc # seen.mc
           space == IF ns = "None" THEN "Live" ELSE ns
           rbFails == rb = 2 /\ space # "Live"
           done == ~mcFails /\ ~rbFails /\ ~SyncIMCFails(m, i, space)
       IN  /\ mc' = IF ~mcFails /\ m # seen.mc THEN m ELSE mc
           /\ ns' = IF ~mcFails THEN space ELSE ns
           /\ rb' = IF ~mcFails /\ ~rbFails THEN m.spec ELSE rb
           /\ imc' = IF done /\ WantedIMC(m, i) # i THEN WantedIMC(m, i) ELSE imc
           /\ IF done
              THEN /\ job' = [step |-> "status", mc |-> m,
                              imc |-> IF i.state = "None" THEN i ELSE WantedIMC(m, i)]
                   /\ Dequeue
              ELSE UNCHANGED <<job, queued>>
    /\ UNCHANGED <<work, budget>> /\ Unchanged

\* handleDelete: without a namespace the finalizer goes, a namespace that is being
\* deleted is waited for, and the agents are asked to leave before anything is
\* collected.
HandleDelete ==
    /\ queued.mc /\ job.step = "idle" /\ seen.mc.phase # "Live"
    /\ LET m == seen.mc
           i == seen.imc
           held == "cluster" \in m.fin
           step == DeleteStep(m, i)
       IN  \/ ~held /\ Dequeue /\ UNCHANGED <<mc, imc, job>>
           \/ /\ held /\ ns = "None" /\ mc = m
              /\ mc' = RemoveFinalizer(mc, "cluster") /\ Dequeue /\ UNCHANGED <<imc, job>>
           \/ /\ held /\ ns = "Live" /\ step = "works"
              /\ job' = [step |-> "works", mc |-> m, imc |-> i] /\ Dequeue /\ UNCHANGED <<mc, imc>>
           \/ /\ held /\ ns = "Live" /\ step = "leave" /\ ~SyncIMCFails(m, i, ns)
              /\ imc' = IF WantedIMC(m, i) # i THEN WantedIMC(m, i) ELSE imc
              /\ job' = [step |-> "status", mc |-> m, imc |-> WantedIMC(m, i)]
              /\ Dequeue /\ UNCHANGED mc
    /\ UNCHANGED <<ns, rb, work, budget>> /\ Unchanged

\* Mutant: nothing brings the controller back while it waits for the agent.
ComesBackNever(m) == FALSE

\* RequeueAfter ForceDeleteWaitTime.
ComesBack(m) == m.phase = "Deleting"

\* markMemberClusterReadyToJoin, syncInternalMemberClusterStatus and the update;
\* while it waits for the agents to leave the controller comes back later.
UpdateStatus ==
    /\ job.step = "status"
    /\ LET ready == IF job.mc.phase = "Live" THEN [job.mc EXCEPT !.ready = "True"] ELSE job.mc
           ok == mc = job.mc
       IN  /\ mc' = IF ok THEN SyncStatus(ready, job.imc) ELSE mc
           /\ job' = Idle
           /\ queued' = [queued EXCEPT !.mc = @ \/ (~ok /\ mc.phase # "None"),
                                       !.timer = @ \/ (ok /\ ComesBack(job.mc))]
    /\ UNCHANGED <<ns, rb, imc, work, budget>> /\ Unchanged

\* garbageCollectWork.
StripWorks ==
    /\ job.step = "works"
    /\ work' = IF work.phase = "Live" THEN [work EXCEPT !.fin = FALSE]
               ELSE [phase |-> "None", fin |-> FALSE]
    /\ Continue([job EXCEPT !.step = "remove"])
    /\ UNCHANGED <<mc, ns, rb, imc, budget>> /\ Unchanged

\* garbageCollect deletes the namespace; the status says so when the agents left.
RemoveNamespace ==
    /\ job.step = "remove"
    /\ ns' = IF ns = "Live" THEN "Deleting" ELSE ns
    /\ mc' = IF mc = job.mc /\ SyncStatus(job.mc, job.imc).joined = "False"
             THEN SyncStatus(job.mc, job.imc) ELSE mc
    /\ Finish(TRUE)
    /\ UNCHANGED <<rb, imc, work, budget>> /\ Unchanged

\* A call fails, or the hub agent restarts: caches are filled and every object is
\* reconciled again.
CallFails ==
    /\ job.step # "idle" /\ Fault /\ Finish(TRUE)
    /\ UNCHANGED <<mc, ns, rb, imc, work>> /\ Unchanged

HubRestarts ==
    /\ mc.phase # "None" /\ Fault
    /\ job' = Idle
    /\ seen' = [mc |-> mc, imc |-> imc]
    /\ queued' = [mc |-> TRUE, timer |-> FALSE, profile |-> TRUE, sched |-> TRUE]
    /\ UNCHANGED <<mc, ns, rb, imc, work, waited, profile, picked, agent, readded>>

MemberClusterController ==
    Reconcile \/ HandleDelete \/ UpdateStatus \/ StripWorks \/ RemoveNamespace

-------------------------------------------------------------------------------
(***************************************************************************)
(* The cluster profile controller, the scheduler and the namespace         *)
(***************************************************************************)

\* syncClusterProfileCondition.
Health(st) ==
    IF st.joined = "None" \/ st.healthy = "None" THEN "Unknown"
    ELSE IF ~st.fresh THEN "False"
    ELSE IF st.healthy = "True" THEN "True"
    ELSE "False"

NoProfile == [phase |-> "None", health |-> "None"]

CleanupClusterProfile(p) == NoProfile

\* Reconcile of the cluster profile controller.  A MemberCluster that goes loses
\* its profile and then the finalizer; a joined one gets the finalizer and then
\* its profile.  An update based on an old version fails and is tried again.
SyncProfile ==
    /\ queued.profile
    /\ LET m == seen.mc
           ready == m.phase = "Live" /\ m.joined = "True" /\ m.current
           write == IF ready THEN "profile" \notin m.fin ELSE m.phase = "Deleting"
           ok == write => mc = m
       IN  /\ mc' = IF ~write \/ ~ok THEN mc
                    ELSE IF ready THEN [mc EXCEPT !.fin = @ \cup {"profile"}]
                    ELSE RemoveFinalizer(mc, "profile")
           /\ profile' = IF m.phase # "Live" THEN CleanupClusterProfile(profile)
                         ELSE IF ready /\ ok
                         THEN [phase |-> "Live", health |-> Health(m.status)]
                         ELSE profile
           /\ queued' = [queued EXCEPT !.profile = ~ok]
    /\ UNCHANGED <<ns, rb, imc, work, waited, seen, job, picked, agent, readded, budget>>

\* A scheduling cycle: a taint keeps new placements away, not the present one.
Schedule ==
    /\ queued.sched /\ queued' = [queued EXCEPT !.sched = FALSE]
    /\ picked' = (IsEligible(seen.mc) /\ (picked \/ ~seen.mc.tainted))
    /\ UNCHANGED <<mc, ns, rb, imc, work, waited, seen, job, profile, agent, readded, budget>>

\* The work generator puts a Work in the namespace and takes it away again.
PlaceWork ==
    /\ \/ /\ picked /\ ns = "Live" /\ work.phase = "None"
          /\ work' = [phase |-> "Live", fin |-> FALSE]
       \/ /\ ~picked /\ work.phase = "Live"
          /\ work' = IF work.fin THEN [work EXCEPT !.phase = "Deleting"]
                     ELSE [phase |-> "None", fin |-> FALSE]
    /\ UNCHANGED <<mc, ns, rb, imc, waited, seen, queued, job, profile, picked, agent,
                   readded, budget>>

\* Kubernetes: a namespace that is being deleted is emptied and then goes.
EmptyNamespace ==
    /\ ns = "Deleting"
    /\ imc' = NoIMC /\ rb' = 2
    /\ work' = IF work.fin THEN [work EXCEPT !.phase = "Deleting"] ELSE [phase |-> "None", fin |-> FALSE]
    /\ ns' = IF work.fin THEN ns ELSE "None"
    /\ UNCHANGED <<mc, waited, seen, queued, job, profile, picked, agent, readded, budget>>

-------------------------------------------------------------------------------
(***************************************************************************)
(* The member agent                                                        *)
(***************************************************************************)
AtHub == UNCHANGED <<mc, ns, rb, waited, seen, queued, job, profile, picked>>

\* The agent reacts to a new generation, and to every heartbeat while it is joined.
DeliverAgent ==
    /\ agent.alive /\ agent.imc # imc
    /\ agent' = [agent EXCEPT !.imc = imc,
            !.due = @ \/ <<imc.state, imc.spec>> # <<agent.imc.state, agent.imc.spec>>]
    /\ UNCHANGED <<imc, work, readded, budget>> /\ AtHub

\* updateInternalMemberClusterWithRetry: an update based on an old version fails,
\* and the agent tries again.
\* The agent's cache is taken to have its own writes.
Reported(st) == IF imc = agent.imc THEN [imc EXCEPT !.status = st] ELSE agent.imc
Left(ok) == [agent.imc.status EXCEPT !.joined = IF ok THEN "False" ELSE "Unknown"]
Report(st) == imc' = IF imc = agent.imc THEN [imc EXCEPT !.status = st] ELSE imc

\* Reconcile, Join: the agents start, the heartbeat is taken, the API server is
\* probed, and it is all reported.  A heartbeat that
\* changes nothing in the report is left out.
AgentJoins ==
    /\ agent.alive /\ agent.imc.state = "Join"
    /\ \E probe \in {"True", "Bad"} :
          LET st == agent.imc.status
              new == [joined  |-> "True",
                      fresh   |-> TRUE,
                      healthy |-> IF probe = "Bad" /\ st.healthy = "BadLong" THEN "BadLong" ELSE probe]
          IN  /\ IF probe = "Bad" THEN Fault ELSE UNCHANGED budget
              /\ agent' = [agent EXCEPT !.joined = TRUE, !.due = imc # agent.imc, !.imc = Reported(new)]
              /\ agent' # agent
              /\ Report(new)
    /\ UNCHANGED <<work, readded>> /\ AtHub

\* Reconcile, Leave: no Work is handled from now on and the finalizers of all of
\* them are taken off, unless that fails.
AgentLeaves ==
    /\ agent.alive /\ agent.imc.state = "Leave" /\ agent.due
    /\ \E ok \in BOOLEAN :
          /\ IF ok THEN UNCHANGED budget ELSE Fault
          /\ agent' = [agent EXCEPT !.joined = FALSE, !.due = ~ok \/ imc # agent.imc,
                            !.imc = Reported(Left(ok))]
          /\ work' = IF ~ok THEN work
                     ELSE IF work.phase = "Live" THEN [work EXCEPT !.fin = FALSE]
                     ELSE [phase |-> "None", fin |-> FALSE]
          /\ Report(Left(ok))
    /\ UNCHANGED readded /\ AtHub

\* The work applier puts its finalizer on a Work, or lets a deleted one go.
AgentHandlesWork ==
    /\ agent.alive /\ agent.joined
    /\ \/ /\ work.phase = "Live" /\ ~work.fin /\ work' = [work EXCEPT !.fin = TRUE]
          /\ readded' = (readded \/ job.step = "remove" \/ ns = "Deleting")
       \/ /\ work.phase = "Deleting" /\ work' = [phase |-> "None", fin |-> FALSE]
          /\ UNCHANGED readded
    /\ UNCHANGED <<imc, agent, budget>> /\ AtHub

AgentDies ==
    /\ agent.alive /\ Fault
    /\ agent' = [agent EXCEPT !.alive = FALSE, !.joined = FALSE, !.due = FALSE]
    /\ UNCHANGED <<imc, work, readded>> /\ AtHub

AgentStarts ==
    /\ ~agent.alive
    /\ agent' = [agent EXCEPT !.alive = TRUE, !.imc = imc, !.due = TRUE]
    /\ UNCHANGED <<imc, work, readded, budget>> /\ AtHub

MemberAgent == AgentJoins \/ AgentLeaves \/ AgentHandlesWork

Next ==
    \/ CreateMC \/ EditMC \/ DeleteMC \/ Expire
    \/ DeliverMC \/ DeliverIMC \/ DeliverAgent \/ WaitElapses
    \/ MemberClusterController \/ CallFails \/ HubRestarts
    \/ SyncProfile \/ Schedule \/ PlaceWork \/ EmptyNamespace
    \/ MemberAgent \/ AgentDies \/ AgentStarts

Spec == Init /\ [][Next]_vars

\* Queues and caches make progress, time passes, and a live agent does its work.
\* Nothing makes a dead agent come back, a user act or a heartbeat expire.
FairSpec ==
    /\ Spec
    /\ WF_vars(MemberClusterController) /\ WF_vars(SyncProfile) /\ WF_vars(Schedule)
    /\ WF_vars(DeliverMC) /\ WF_vars(DeliverIMC)
    /\ WF_vars(DeliverAgent) /\ WF_vars(WaitElapses)
    /\ WF_vars(AgentJoins \/ AgentLeaves) /\ WF_vars(AgentHandlesWork)
    /\ WF_vars(EmptyNamespace)

-------------------------------------------------------------------------------
\* A Work of a cluster whose agent is still at work keeps its finalizer until
\* ForceDeleteWaitTime has passed: handleDelete collects the Works only of a
\* cluster that has left, or has been given its time.  (For a name that is used once:
\* MaxCreates = 1.)
ReleaseAfterLeave ==
    [][(work.phase = "Live" /\ work.fin /\ ~work'.fin) => (~agent'.joined \/ waited)]_vars

\* A cluster that could be picked, and that the scheduler has not picked, has the
\* scheduler woken up: the watcher's filter lets no change from ineligible to
\* eligible pass unnoticed, even when the clock made the cluster ineligible.
NoMissedCluster ==
    (IsEligible(seen.mc) /\ ~seen.mc.tainted /\ ~picked) => queued.sched

\* A MemberCluster that is deleted goes away in the end, even when its agent is
\* dead, unless the agent puts its finalizer back on a Work that garbageCollect
\* has released.  One that stays, with an agent that stays alive, is joined in
\* the end with the identity and heartbeat period it asks for, and used, and the
\* profile of one that is gone is removed.
MembershipSettles ==
    /\ <>[](mc.phase # "Deleting" \/ readded)
    /\ <>[](mc.phase = "Live" /\ agent.alive)
       => <>[](/\ mc.joined = "True" /\ mc.current /\ IsEligible(mc)
               /\ imc.spec = mc.spec /\ rb = mc.spec
               /\ (mc.tainted \/ picked))
    /\ <>[](mc.phase = "None") => <>[](profile = NoProfile)
===============================================================================
