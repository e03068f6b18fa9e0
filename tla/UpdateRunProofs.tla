--------------------------- MODULE UpdateRunProofs ---------------------------
(***************************************************************************)
(* Staged update runs, for any number of runs, clusters and stages: the    *)
(* steps of users and other controllers, then types, the wait after a      *)
(* stage, and the order of the stages.                                     *)
(***************************************************************************)
EXTENDS UpdateRunLemmas

\* Zenon proves what is not arithmetic; SMT is cited for the rest.
USE ZenonT(30)

----------------------------------------------------------------------------
(* The steps of the world around the controller.                           *)

\* What a reconciliation does next depends on these fields only.
SameJob(j, k) ==
    /\ k.run = j.run /\ k.pc = j.pc /\ k.mem = j.mem /\ k.stage = j.stage
    /\ k.todo = j.todo /\ k.finished = j.finished /\ k.view = j.view

\* A reconciliation that agrees on these fields is equally in order.
LEMMA SameJobKeeps ==
    ASSUME NEW j, NEW k, SameJob(j, k), NEW stored, NEW given, NEW asked,
           JobInOrder(j, stored, given, asked)
    PROVE  JobInOrder(k, stored, given, asked)
<1>1. /\ k.pc = j.pc /\ k.mem = j.mem /\ k.stage = j.stage
      /\ k.todo = j.todo /\ k.finished = j.finished /\ k.view = j.view
  BY DEF SameJob
<1>2. About(j, stored) => About(k, stored)
  BY <1>1 DEF About
<1>3. (Entered(j) => Entered(k)) /\ (Counted(j) => Counted(k)) /\ (Deletes(j) => Deletes(k))
  BY <1>1 DEF Entered, Counted, Deletes
<1>4. /\ k.pc = "init" =>
            /\ k.mem.init = "ok" /\ k.mem.done = "none" /\ k.stage = 1
            /\ \A t \in StageIndex : k.mem.stage[t] = "idle"
            /\ \A t \in Task : k.mem.task[t] = "none"
            /\ k.todo = {}
      /\ k.pc \in {"init", "before"} => k.finished = 0
      /\ k.pc = "start" => k.todo # {}
      /\ k.pc = "after" => /\ k.mem.stage[k.stage] = "waiting"
                           /\ \A c \in k.mem.members[k.stage] : k.mem.cluster[c] = "succeeded"
  BY SMTT(60), <1>1 DEF JobInOrder
<1>5. IF k.pc = "delete"
      THEN StagesInOrder(k.mem) /\ ApprovalsNoted(k.mem, given, asked) /\ Deletes(k)
      ELSE Sound(k.mem, given, asked)
  BY <1>1, <1>3 DEF JobInOrder
<1>6. /\ k.pc \in {"before", "clusters", "start", "after", "delete"} => About(k, stored)
      /\ k.pc \in {"clusters", "start", "after"} => Entered(k)
      /\ k.pc \in {"clusters", "start"} => Counted(k)
  BY <1>1, <1>2, <1>3 DEF JobInOrder
<1> QED BY <1>4, <1>5, <1>6 DEF JobInOrder

\* A step that leaves the runs and the approvals alone.
LEMMA WorldStepKeeps ==
    ASSUME StageInvariant, UNCHANGED <<run, request, granted>>, WorldTypes',
           NEW k \in Job, job' = k, SameJob(job, k)
    PROVE  StageInvariant'
<1>1. k.pc # "idle" => k.run \in Run /\ JobInOrder(job, run[k.run], granted[k.run], request[k.run])
  BY DEF StageInvariant, SameJob
<1>2. k.pc # "idle" => k.run \in Run /\ JobInOrder(k, run[k.run], granted[k.run], request[k.run])
  BY <1>1, SameJobKeeps
<1> QED BY <1>2, JobStepKeeps

\* The bounds stay natural numbers.
LEMMA SpendTypes ==
    ASSUME budget \in Budget, NEW what \in {"policies", "edits", "errors", "mishaps"}, Spend(what)
    PROVE  budget' \in Budget
<1> DEFINE n == budget[what] - 1
<1>1. n \in Nat /\ budget' = [budget EXCEPT ![what] = n]
  BY SMTT(60) DEF Budget, Spend
<1> HIDE DEF n
<1> QED BY <1>1 DEF Budget

\* Another controller's write makes the copy of one binding stale.
LEMMA OtherWritesStep ==
    ASSUME StageInvariant, NEW c \in Cluster, NEW b \in BindingObj, OtherWrites(c, b),
           flight' \in [Run -> SUBSET Cluster], budget' \in Budget
    PROVE  StageInvariant'
<1> DEFINE k == [job EXCEPT !.held = job.held \ {c}]
<1>0. WorldTypes /\ job \in Job
  BY WorldOfInvariant
<1>1. /\ Write(c, b) /\ job' = k /\ UNCHANGED <<run, request, granted>> /\ UNCHANGED placed
  BY DEF OtherWrites
<1>2. WorldTypes'
  BY <1>0, <1>1, WriteTypes DEF WorldTypes
<1>3. k \in Job
  BY <1>0 DEF Job
<1>4. SameJob(job, k)
  BY <1>0 DEF SameJob, Job
<1> HIDE DEF k
<1> QED BY <1>1, <1>2, <1>3, <1>4, WorldStepKeeps

\* The work generator, the eviction controller and the scheduler write bindings.
LEMMA OtherControllersStep ==
    ASSUME StageInvariant, NEW c \in Cluster,
           BecomesUp(c) \/ BecomesFailed(c) \/ Evict(c) \/ Vanishes(c) \/ Reschedule(c)
    PROVE  StageInvariant'
<1>0. /\ WorldTypes /\ bind[c] \in BindingObj /\ budget \in Budget
      /\ flight \in [Run -> SUBSET Cluster] /\ placed.policy \in Nat
  BY WorldOfInvariant DEF WorldTypes, PlacementObj
<1>1. ASSUME Lands(c) PROVE flight' \in [Run -> SUBSET Cluster]
  BY <1>0, <1>1 DEF Lands
<1>2. /\ [bind[c] EXCEPT !.report = "up"] \in BindingObj
      /\ [bind[c] EXCEPT !.report = "failed"] \in BindingObj
      /\ NewGeneration([bind[c] EXCEPT !.phase = "deleting"]) \in BindingObj
      /\ NewGeneration([bind[c] EXCEPT !.policy = placed.policy]) \in BindingObj
      /\ NewGeneration([bind[c] EXCEPT !.state = "Unscheduled"]) \in BindingObj
  <2>1. /\ [bind[c] EXCEPT !.report = "up"] \in BindingObj
        /\ [bind[c] EXCEPT !.report = "failed"] \in BindingObj
        /\ [bind[c] EXCEPT !.phase = "deleting"] \in BindingObj
        /\ [bind[c] EXCEPT !.policy = placed.policy] \in BindingObj
        /\ [bind[c] EXCEPT !.state = "Unscheduled"] \in BindingObj
    BY <1>0 DEF BindingObj
  <2> QED BY <2>1, NewGenerationType
<1>3. CASE BecomesUp(c)
  BY <1>0, <1>1, <1>2, <1>3, OtherWritesStep DEF BecomesUp
<1>4. CASE BecomesFailed(c)
  BY <1>0, <1>2, <1>4, OtherWritesStep, SpendTypes DEF BecomesFailed
<1>5. CASE Evict(c)
  BY <1>0, <1>1, <1>2, <1>5, OtherWritesStep, SpendTypes DEF Evict
<1>6. CASE Vanishes(c)
  BY <1>0, <1>1, <1>6, OtherWritesStep, NoBindingType DEF Vanishes
<1>7. CASE Reschedule(c)
  BY <1>0, <1>1, <1>2, <1>7, OtherWritesStep DEF Reschedule
<1> QED BY <1>3, <1>4, <1>5, <1>6, <1>7

\* The informer, the scheduler's policies, the labels.
LEMMA SurroundingsStep ==
    ASSUME StageInvariant,
           \/ \E c \in Cluster : Deliver(c)
           \/ PublishPolicy
           \/ FinishScheduling
           \/ \E s \in StageIndex, c \in Cluster : Relabel(s, c)
    PROVE  StageInvariant'
<1>0. /\ WorldTypes /\ job \in Job /\ placed \in PlacementObj /\ budget \in Budget
  BY WorldOfInvariant DEF WorldTypes
<1>1. /\ UNCHANGED <<run, request, granted, job>>
      /\ WorldTypes'
  <2>1. ASSUME NEW c \in Cluster, Deliver(c) PROVE UNCHANGED <<run, request, granted, job>> /\ WorldTypes'
    BY <1>0, <2>1 DEF Deliver, ghosts, WorldTypes
  <2>2. CASE PublishPolicy
    <3> DEFINE n == placed.policy + 1
               p == [placed EXCEPT !.policy = n, !.scheduled = FALSE]
    <3>1. n \in Nat /\ placed' = p
      BY SMTT(60), <1>0, <2>2 DEF PublishPolicy, PlacementObj
    <3> HIDE DEF n
    <3>2. p \in PlacementObj
      BY <1>0, <3>1 DEF PlacementObj
    <3>3. budget' \in Budget
      BY <1>0, <2>2, SpendTypes DEF PublishPolicy
    <3> QED BY <1>0, <2>2, <3>1, <3>2, <3>3 DEF PublishPolicy, WorldTypes
  <2>3. CASE FinishScheduling
    <3>1. placed' \in PlacementObj
      BY <1>0, <2>3 DEF FinishScheduling, PlacementObj
    <3> QED BY <1>0, <2>3, <3>1 DEF FinishScheduling, ghosts, WorldTypes
  <2>4. ASSUME NEW s \in StageIndex, NEW c \in Cluster, Relabel(s, c)
        PROVE  UNCHANGED <<run, request, granted, job>> /\ WorldTypes'
    <3> DEFINE old == placed.labels[s]
               new == IF c \in old THEN old \ {c} ELSE old \cup {c}
               l == [placed.labels EXCEPT ![s] = new]
    <3>1. placed.labels \in [StageIndex -> SUBSET Cluster]
      BY <1>0 DEF PlacementObj
    <3>2. new \in SUBSET Cluster
      BY <3>1
    <3>3. placed' = [placed EXCEPT !.labels = l]
      BY <2>4 DEF Relabel
    <3> HIDE DEF new
    <3>4. l \in [StageIndex -> SUBSET Cluster]
      BY <3>1, <3>2
    <3> HIDE DEF l
    <3>5. placed' \in PlacementObj
      BY <1>0, <3>3, <3>4 DEF PlacementObj
    <3>6. budget' \in Budget
      BY <1>0, <2>4, SpendTypes DEF Relabel
    <3> QED BY <1>0, <2>4, <3>5, <3>6 DEF Relabel, WorldTypes
  <2> QED BY <2>1, <2>2, <2>3, <2>4
<1>2. SameJob(job, job)
  BY DEF SameJob
<1> QED BY <1>0, <1>1, <1>2, WorldStepKeeps

\* The controller restarts and forgets the reconciliation.
LEMMA RestartStep ==
    ASSUME StageInvariant, Restart
    PROVE  StageInvariant'
<1>1. WorldTypes'
  BY WorldOfInvariant, SpendTypes DEF Restart, world, WorldTypes
<1>2. job' = Idle /\ UNCHANGED <<run, request, granted>>
  BY DEF Restart
<1> QED BY <1>1, <1>2, IdlePc, JobStepKeeps

\* The user's edits of a run touch its desired state only.
LEMMA EditRunStep ==
    ASSUME StageInvariant, NEW r \in Run, NEW obj \in RunObj, EditRun(r, obj),
           Alike(run[r], obj), obj.done = run[r].done, budget' \in Budget
    PROVE  StageInvariant'
<1> DEFINE f == job.fresh /\ job.run # r
           k == [job EXCEPT !.fresh = f]
<1>0. /\ WorldTypes /\ job \in Job /\ run \in [Run -> RunObj]
      /\ request \in [Run -> [Task -> Request]] /\ granted \in [Run -> SUBSET Task]
  BY WorldOfInvariant
<1>1. /\ run' = [run EXCEPT ![r] = obj] /\ job' = k
      /\ UNCHANGED <<world, request, flight, granted>>
  BY DEF EditRun
<1>2. WorldTypes'
  BY <1>0, <1>1 DEF world, WorldTypes
<1>3. f \in BOOLEAN
  BY <1>0 DEF Job
<1> HIDE DEF f
<1>4. k \in Job
  BY <1>0, <1>3 DEF Job
<1>5. SameJob(job, k)
  BY <1>0 DEF SameJob, Job
<1> HIDE DEF k
<1>6. TypeOK'
  BY <1>0, <1>1, <1>2, <1>4 DEF TypeOK, WorldTypes
<1>7. \A q \in Run : run'[q] = IF q = r THEN obj ELSE run[q]
  BY <1>0, <1>1
<1>8. ASSUME NEW q \in Run
      PROVE  /\ Sound(run'[q], granted'[q], request'[q])
             /\ \A t \in Task : request'[q][t] \in {"approved", "accepted"} => t \in granted'[q]
  <2>1. Sound(run[q], granted[q], request[q])
    BY DEF StageInvariant
  <2>2. CASE q = r
    <3> DEFINE given == granted[q]
               asked == request[q]
    <3>1. Sound(run[r], given, asked)
      BY <2>1, <2>2
    <3> HIDE DEF given, asked
    <3>2. Sound(obj, given, asked)
      BY <3>1, AlikeSound DEF Sound
    <3> QED BY <1>1, <1>7, <2>2, <3>2 DEF StageInvariant, given, asked
  <2>3. CASE q # r
    BY <1>1, <1>7, <2>1, <2>3 DEF StageInvariant
  <2> QED BY <2>2, <2>3
<1>9. ASSUME k.pc # "idle"
      PROVE  k.run \in Run /\ JobInOrder(k, run'[k.run], granted[k.run], request[k.run])
  <2> DEFINE q == k.run
             given == granted[q]
             asked == request[q]
  <2>1. q \in Run /\ JobInOrder(job, run[q], given, asked)
    BY <1>5, <1>9 DEF StageInvariant, SameJob
  <2>2. run'[q].members = run[q].members /\ run'[q].task = run[q].task /\ run'[q].stage = run[q].stage
    BY <1>7, <2>1 DEF Alike
  <2> HIDE DEF q, given, asked
  <2>3. JobInOrder(job, run'[q], given, asked)
    <3>1. About(job, run[q]) => About(job, run'[q])
      BY <2>2 DEF About
    <3> QED BY <2>1, <3>1 DEF JobInOrder
  <2>4. JobInOrder(k, run'[q], given, asked)
    BY <1>5, <2>3, SameJobKeeps
  <2> QED BY <2>1, <2>4 DEF q, given, asked
<1> QED BY <1>1, <1>6, <1>8, <1>9 DEF StageInvariant

\* The user executes, stops, resumes or deletes a run.
LEMMA UserEditsStep ==
    ASSUME StageInvariant, NEW r \in Run, Execute(r) \/ Stop(r) \/ Resume(r) \/ DeleteRun(r)
    PROVE  StageInvariant'
<1> DEFINE m == run[r]
<1>0. m \in RunObj /\ budget \in Budget
  BY WorldOfInvariant DEF WorldTypes
<1>1. ASSUME NEW state \in {"Run", "Stop"}, EditRun(r, [m EXCEPT !.state = state]), budget' \in Budget
      PROVE  StageInvariant'
  <2> DEFINE obj == [m EXCEPT !.state = state]
  <2>1. obj \in RunObj /\ Alike(m, obj) /\ obj.done = m.done
    BY <1>0 DEF RunObj, Alike
  <2>2. EditRun(r, obj)
    BY <1>1
  <2> HIDE DEF obj
  <2> QED BY <1>1, <2>1, <2>2, EditRunStep
<1>2. CASE DeleteRun(r)
  <2> DEFINE obj == [m EXCEPT !.phase = "deleting"]
  <2>1. obj \in RunObj /\ Alike(m, obj) /\ obj.done = m.done
    BY <1>0 DEF RunObj, Alike
  <2>2. EditRun(r, obj) /\ budget' \in Budget
    BY <1>0, <1>2, SpendTypes DEF DeleteRun
  <2> HIDE DEF obj
  <2> QED BY <2>1, <2>2, EditRunStep
<1>3. CASE Execute(r)
  BY <1>0, <1>1, <1>3 DEF Execute
<1>4. CASE Stop(r)
  BY <1>0, <1>1, <1>4, SpendTypes DEF Stop
<1>5. CASE Resume(r)
  BY <1>0, <1>1, <1>5 DEF Resume
<1> QED BY <1>2, <1>3, <1>4, <1>5

\* handleDelete: the requests of a run go with it.
LEMMA HandleDeleteStep ==
    ASSUME StageInvariant, NEW r \in Run, HandleDelete(r)
    PROVE  StageInvariant'
<1> DEFINE m == run[r]
           obj == [m EXCEPT !.phase = "gone"]
           none == [t \in Task |-> "absent"]
<1>0. /\ WorldTypes /\ job \in Job /\ run \in [Run -> RunObj]
      /\ request \in [Run -> [Task -> Request]] /\ granted \in [Run -> SUBSET Task]
  BY WorldOfInvariant
<1>1. /\ run' = [run EXCEPT ![r] = obj] /\ request' = [request EXCEPT ![r] = none]
      /\ job = Idle /\ UNCHANGED <<world, job, ghosts>>
  BY DEF HandleDelete
<1>11. m \in RunObj
  BY <1>0
<1>2. obj \in RunObj /\ Alike(m, obj) /\ obj.done = m.done
  BY <1>11 DEF RunObj, Alike
<1>3. none \in [Task -> Request] /\ \A t \in Task : none[t] = "absent"
  BY DEF Request
<1> HIDE DEF obj, none
<1>4. TypeOK'
  BY <1>0, <1>1, <1>2, <1>3 DEF TypeOK, WorldTypes, world, ghosts
<1>5. ASSUME NEW q \in Run
      PROVE  /\ Sound(run'[q], granted'[q], request'[q])
             /\ \A t \in Task : request'[q][t] \in {"approved", "accepted"} => t \in granted'[q]
  <2>1. Sound(run[q], granted[q], request[q])
    BY DEF StageInvariant
  <2>2. CASE q = r
    <3>1. run'[q] = obj /\ request'[q] = none /\ granted'[q] = granted[q]
      BY <1>0, <1>1, <2>2 DEF ghosts
    <3>2. StagesInOrder(m) /\ ApprovalsNoted(m, granted[q], request[q]) /\ DeletionApproved(m)
      BY <2>1, <2>2 DEF Sound
    <3>3. ApprovalsNoted(m, granted[q], none)
      BY <1>3, <3>2 DEF ApprovalsNoted
    <3> DEFINE given == granted[q]
    <3>4. ApprovalsNoted(m, given, none)
      BY <3>3
    <3> HIDE DEF given, m
    <3>5. Sound(obj, given, none)
      BY <1>2, <3>2, <3>4, AlikeSound DEF Sound
    <3> QED BY <1>3, <3>1, <3>5 DEF given
  <2>3. CASE q # r
    BY <1>0, <1>1, <2>1, <2>3 DEF StageInvariant, ghosts
  <2> QED BY <2>2, <2>3
<1>6. job'.pc = "idle"
  BY <1>1, IdlePc
<1> QED BY <1>4, <1>5, <1>6 DEF StageInvariant

\* The user approves a request, takes an approval back before it is accepted, or
\* deletes a request: what a run has noted stays granted.
LEMMA ApprovalStep ==
    ASSUME StageInvariant, NEW r \in Run, NEW t \in Task,
           NEW v \in Request, request' = [request EXCEPT ![r][t] = v],
           NEW G \in SUBSET Task, granted' = [granted EXCEPT ![r] = G],
           \A x \in Task : x # t => (x \in granted[r] => x \in G),
           v \in {"approved", "accepted"} => t \in G,
           \/ request[r][t] \notin {"absent", "accepted"}
           \/ v = "absent" /\ (t \in granted[r] => t \in G),
           UNCHANGED <<run, job>>, WorldTypes'
    PROVE  StageInvariant'
<1>0. /\ job \in Job /\ run \in [Run -> RunObj]
      /\ request \in [Run -> [Task -> Request]] /\ granted \in [Run -> SUBSET Task]
  BY WorldOfInvariant
<1>1. /\ request' \in [Run -> [Task -> Request]] /\ granted' \in [Run -> SUBSET Task]
      /\ \A q \in Run : q # r => request'[q] = request[q] /\ granted'[q] = granted[q]
      /\ \A x \in Task : x # t => request'[r][x] = request[r][x]
      /\ request'[r][t] = v /\ granted'[r] = G
  BY <1>0
<1>2. TypeOK'
  BY <1>0, <1>1 DEF TypeOK, WorldTypes
<1>3. ASSUME NEW m, NEW q \in Run, ApprovalsNoted(m, granted[q], request[q])
      PROVE  ApprovalsNoted(m, granted'[q], request'[q])
  <2>1. CASE q # r
    BY <1>1, <1>3, <2>1
  <2>2. CASE q = r
    <3>1. \A x \in Task : m.task[x] = "approved" =>
             x \in granted'[q] /\ request'[q][x] \in {"absent", "accepted"}
      BY <1>1, <1>3, <2>2 DEF ApprovalsNoted
    <3> QED BY <1>3, <3>1 DEF ApprovalsNoted
  <2> QED BY <2>1, <2>2
<1>4. ASSUME NEW q \in Run
      PROVE  /\ Sound(run'[q], granted'[q], request'[q])
             /\ \A x \in Task : request'[q][x] \in {"approved", "accepted"} => x \in granted'[q]
  <2>1. /\ Sound(run[q], granted[q], request[q])
        /\ \A x \in Task : request[q][x] \in {"approved", "accepted"} => x \in granted[q]
    BY DEF StageInvariant
  <2>2. Sound(run[q], granted'[q], request'[q])
    BY <1>3, <2>1 DEF Sound
  <2>3. \A x \in Task : request'[q][x] \in {"approved", "accepted"} => x \in granted'[q]
    BY <1>1, <2>1
  <2> QED BY <2>2, <2>3
<1>5. ASSUME job.pc # "idle"
      PROVE  job.run \in Run /\ JobInOrder(job, run[job.run], granted'[job.run], request'[job.run])
  <2>1. job.run \in Run /\ JobInOrder(job, run[job.run], granted[job.run], request[job.run])
    BY <1>5 DEF StageInvariant
  <2>2. /\ ApprovalsNoted(job.mem, granted[job.run], request[job.run])
           => ApprovalsNoted(job.mem, granted'[job.run], request'[job.run])
    BY <1>3, <2>1
  <2> QED BY <2>1, <2>2 DEF JobInOrder, Sound
<1> QED BY <1>2, <1>4, <1>5 DEF StageInvariant

\* The three ways a user changes an approval request.
LEMMA ApprovalsStep ==
    ASSUME StageInvariant, NEW r \in Run, NEW t \in Task,
           Approve(r, t) \/ Revoke(r, t) \/ DropRequest(r, t)
    PROVE  StageInvariant'
<1> DEFINE old == granted[r]
<1>0. /\ WorldTypes /\ budget \in Budget /\ old \in SUBSET Task
      /\ granted \in [Run -> SUBSET Task] /\ {"approved", "pending", "absent"} \subseteq Request
  BY WorldOfInvariant DEF WorldTypes, Request
<1>1. CASE Approve(r, t)
  <2> DEFINE G == old \cup {t}
  <2>1. /\ request' = [request EXCEPT ![r][t] = "approved"] /\ request[r][t] = "pending"
        /\ granted' = [granted EXCEPT ![r] = G] /\ UNCHANGED <<run, job>>
    BY <1>1 DEF Approve
  <2>2. WorldTypes'
    BY <1>0, <1>1 DEF Approve, world, WorldTypes
  <2>3. /\ G \in SUBSET Task /\ \A x \in Task : x # t => (x \in granted[r] => x \in G)
        /\ t \in G
    BY <1>0
  <2> HIDE DEF G
  <2> QED BY <1>0, <2>1, <2>2, <2>3, ApprovalStep
<1>2. CASE Revoke(r, t)
  <2> DEFINE G == old \ {t}
  <2>1. /\ request' = [request EXCEPT ![r][t] = "pending"] /\ request[r][t] = "approved"
        /\ granted' = [granted EXCEPT ![r] = G] /\ UNCHANGED <<run, job>>
    BY <1>2 DEF Revoke
  <2>2. WorldTypes'
    BY <1>0, <1>2, SpendTypes DEF Revoke, world, WorldTypes
  <2>3. G \in SUBSET Task /\ \A x \in Task : x # t => (x \in granted[r] => x \in G)
    BY <1>0
  <2> DEFINE v == "pending"
  <2>4. /\ v \in Request /\ (v \in {"approved", "accepted"} => t \in G)
        /\ request' = [request EXCEPT ![r][t] = v]
        /\ request[r][t] \notin {"absent", "accepted"}
    BY <1>0, <2>1
  <2> HIDE DEF G, v
  <2> QED BY <2>1, <2>2, <2>3, <2>4, ApprovalStep
<1>3. CASE DropRequest(r, t)
  <2> DEFINE G == IF request[r][t] = "accepted" THEN old ELSE old \ {t}
  <2>1. /\ request' = [request EXCEPT ![r][t] = "absent"] /\ request[r][t] # "absent"
        /\ UNCHANGED <<run, job>>
    BY <1>3 DEF DropRequest
  <2>2. granted' = [granted EXCEPT ![r] = G]
    BY <1>0, <1>3 DEF DropRequest
  <2>3. WorldTypes'
    BY <1>0, <1>3, SpendTypes DEF DropRequest, world, WorldTypes
  <2>4. /\ G \in SUBSET Task /\ \A x \in Task : x # t => (x \in granted[r] => x \in G)
        /\ request[r][t] = "accepted" => (t \in granted[r] => t \in G)
    BY <1>0
  <2> DEFINE v == "absent"
  <2>5. /\ v \in Request /\ (v \in {"approved", "accepted"} => t \in G)
        /\ request' = [request EXCEPT ![r][t] = v]
        /\ \/ request[r][t] \notin {"absent", "accepted"}
           \/ v = "absent" /\ (t \in granted[r] => t \in G)
    BY <1>0, <2>1, <2>4
  <2> HIDE DEF G, v
  <2> QED BY <2>1, <2>2, <2>3, <2>4, <2>5, ApprovalStep
<1> QED BY <1>1, <1>2, <1>3

\* Time passes for the stages that wait.
LEMMA TimePassesStep ==
    ASSUME StageInvariant, TimePasses
    PROVE  StageInvariant'
<1> DEFINE m == Aging(job.mem)
           k == [job EXCEPT !.mem = m]
<1>0. /\ WorldTypes /\ job \in Job /\ run \in [Run -> RunObj] /\ job.mem \in RunObj
      /\ request \in [Run -> [Task -> Request]] /\ granted \in [Run -> SUBSET Task]
  BY WorldOfInvariant DEF Job
<1>1. /\ run' = [r \in Run |-> Aging(run[r])] /\ job' = k
      /\ UNCHANGED <<world, request, ghosts>>
  BY DEF TimePasses
<1>2. ASSUME NEW r \in Run
      PROVE  /\ run'[r] \in RunObj /\ Sound(run'[r], granted[r], request[r])
             /\ run'[r].members = run[r].members /\ run'[r].task = run[r].task
             /\ run'[r].stage = run[r].stage
  <2> DEFINE n == Aging(run[r])
  <2>1. run'[r] = n /\ Sound(run[r], granted[r], request[r])
    BY <1>1 DEF StageInvariant
  <2>2. /\ n \in RunObj
        /\ n.init = run[r].init /\ n.members = run[r].members /\ n.cluster = run[r].cluster
        /\ n.stage = run[r].stage /\ (n.begun <=> run[r].begun) /\ n.task = run[r].task
        /\ n.done = run[r].done
        /\ StagesInOrder(run[r]) => StagesInOrder(n)
    BY <1>0, AgingKeeps
  <2> HIDE DEF n
  <2>3. Sound(n, granted[r], request[r])
    BY SMTT(60), <2>1, <2>2 DEF Sound, ApprovalsNoted, DeletionApproved
  <2> QED BY <2>1, <2>2, <2>3
<1>3. /\ m \in RunObj
      /\ m.init = job.mem.init /\ m.members = job.mem.members /\ m.cluster = job.mem.cluster
      /\ m.stage = job.mem.stage /\ (m.begun <=> job.mem.begun) /\ m.task = job.mem.task
      /\ m.done = job.mem.done
      /\ StagesInOrder(job.mem) => StagesInOrder(m)
  BY <1>0, AgingKeeps
<1> HIDE DEF m
<1>4. k \in Job
  BY <1>0, <1>3 DEF Job
<1>5. /\ k.run = job.run /\ k.pc = job.pc /\ k.mem = m /\ k.stage = job.stage
      /\ k.todo = job.todo /\ k.finished = job.finished /\ k.view = job.view
  BY <1>0 DEF Job
<1> HIDE DEF k
<1>6. TypeOK'
  <2>1. run' \in [Run -> RunObj]
    BY <1>1, <1>2
  <2> QED BY <1>0, <1>1, <1>4, <2>1 DEF TypeOK, WorldTypes, world, ghosts
<1>7. ASSUME k.pc # "idle"
      PROVE  k.run \in Run /\ JobInOrder(k, run'[k.run], granted[k.run], request[k.run])
  <2> DEFINE r == k.run
             given == granted[r]
             asked == request[r]
  <2>1. r \in Run /\ JobInOrder(job, run[r], given, asked)
    BY <1>5, <1>7 DEF StageInvariant
  <2>2. /\ run'[r].members = run[r].members /\ run'[r].task = run[r].task
        /\ run'[r].stage = run[r].stage
    BY <1>2, <2>1
  <2> HIDE DEF r, given, asked
  <2>3. /\ About(job, run[r]) => About(k, run'[r])
        /\ Entered(job) => Entered(k)
        /\ Counted(job) => Counted(k)
        /\ Deletes(job) => Deletes(k)
    <3>1. About(job, run[r]) => About(k, run'[r])
      BY SMTT(60), <1>3, <1>5, <2>2 DEF About
    <3>2. Entered(job) => Entered(k)
      BY <1>3, <1>5 DEF Entered
    <3>3. Counted(job) => Counted(k)
      BY <1>3, <1>5 DEF Counted
    <3>4. Deletes(job) => Deletes(k)
      BY <1>3, <1>5 DEF Deletes
    <3> QED BY <3>1, <3>2, <3>3, <3>4
  <2>4. /\ ApprovalsNoted(job.mem, given, asked) => ApprovalsNoted(m, given, asked)
        /\ DeletionApproved(job.mem) => DeletionApproved(m)
    BY SMTT(60), <1>3 DEF ApprovalsNoted, DeletionApproved
  <2>5. JobInOrder(k, run'[r], given, asked)
    <3>1. Sound(job.mem, given, asked) => Sound(m, given, asked)
      BY <1>3, <2>4 DEF Sound
    <3>2. /\ k.pc = "init" =>
                /\ k.mem.init = "ok" /\ k.mem.done = "none" /\ k.stage = 1
                /\ \A t \in StageIndex : k.mem.stage[t] = "idle"
                /\ \A t \in Task : k.mem.task[t] = "none"
                /\ k.todo = {}
          /\ k.pc \in {"init", "before"} => k.finished = 0
          /\ k.pc = "start" => k.todo # {}
          /\ k.pc = "after" =>
                /\ k.mem.stage[k.stage] = "waiting"
                /\ \A c \in k.mem.members[k.stage] : k.mem.cluster[c] = "succeeded"
      BY SMTT(60), <1>3, <1>5, <2>1 DEF JobInOrder
    <3>3. IF k.pc = "delete"
          THEN StagesInOrder(k.mem) /\ ApprovalsNoted(k.mem, given, asked) /\ Deletes(k)
          ELSE Sound(k.mem, given, asked)
      BY SMTT(60), <1>3, <1>5, <2>1, <2>3, <2>4, <3>1 DEF JobInOrder
    <3>4. /\ k.pc \in {"before", "clusters", "start", "after", "delete"} => About(k, run'[r])
          /\ k.pc \in {"clusters", "start", "after"} => Entered(k)
          /\ k.pc \in {"clusters", "start"} => Counted(k)
      BY <1>5, <2>1, <2>3 DEF JobInOrder
    <3> QED BY <3>2, <3>3, <3>4 DEF JobInOrder
  <2> QED BY <2>1, <2>5 DEF r, given, asked
<1> QED BY <1>1, <1>2, <1>6, <1>7 DEF StageInvariant, ghosts

\* The runs as they are created.
LEMMA InitKeeps == Init => StageInvariant
<1> SUFFICES ASSUME Init PROVE StageInvariant
  OBVIOUS
<1>1. PICK start \in Starts :
        /\ bind = [c \in Cluster |->
              IF c \in start.picked THEN [NoBinding EXCEPT !.phase = "live", !.policy = 1]
              ELSE IF c \in start.bound THEN BoundBefore
              ELSE IF c \in start.removed THEN [BoundBefore EXCEPT !.state = "Unscheduled"]
              ELSE NoBinding]
        /\ \E state \in [start.runs -> {"Initialize", "Run"}] :
              run = [r \in Run |-> IF r \in start.runs THEN NewRun(state[r]) ELSE NoRun]
        /\ budget = start.budget
  BY DEF Init
<1>2. PICK state \in [start.runs -> {"Initialize", "Run"}] :
        run = [r \in Run |-> IF r \in start.runs THEN NewRun(state[r]) ELSE NoRun]
  BY <1>1
<1>3. start \in Start /\ start.budget \in Budget
  BY UpdateRunAssumption DEF UpdateRunAssumption, Start
<1>4. bind \in [Cluster -> BindingObj]
  <2>1. /\ [NoBinding EXCEPT !.phase = "live", !.policy = 1] \in BindingObj
        /\ BoundBefore \in BindingObj /\ NoBinding \in BindingObj
        /\ [BoundBefore EXCEPT !.state = "Unscheduled"] \in BindingObj
    BY DEF NoBinding, BoundBefore, BindingObj
  <2> QED BY <1>1, <2>1
<1>5. ASSUME NEW st \in {"Initialize", "Run"}, NEW given, NEW asked,
             NEW m \in {NewRun(st), NoRun}
      PROVE  m \in RunObj /\ Sound(m, given, asked)
  <2>1. /\ m.init = "none" /\ m.done = "none" /\ m.begun = FALSE
        /\ \A s \in 1..DeleteStage : m.members[s] = {} /\ m.stage[s] = "idle"
        /\ \A c \in Cluster : m.cluster[c] = "idle"
        /\ \A t \in Task : m.task[t] = "none"
        /\ \A s \in StageIndex : m.elapsed[s] = FALSE /\ m.aged[s] = FALSE
    <3> DEFINE n == NewRun(IF m = NoRun THEN "Run" ELSE st)
               old == [n EXCEPT !.phase = "gone"]
    <3>1. /\ n.init = "none" /\ n.done = "none" /\ n.begun = FALSE
          /\ \A s \in 1..DeleteStage : n.members[s] = {} /\ n.stage[s] = "idle"
          /\ \A c \in Cluster : n.cluster[c] = "idle"
          /\ \A t \in Task : n.task[t] = "none"
          /\ \A s \in StageIndex : n.elapsed[s] = FALSE /\ n.aged[s] = FALSE
      BY DEF NewRun
    <3>2. n \in RunObj
      BY NewRunType
    <3>3. m = n \/ m = old
      BY DEF NoRun
    <3> HIDE DEF n
    <3>4. /\ old.init = n.init /\ old.done = n.done /\ old.begun = n.begun
          /\ old.members = n.members /\ old.stage = n.stage /\ old.cluster = n.cluster
          /\ old.task = n.task /\ old.elapsed = n.elapsed /\ old.aged = n.aged
      BY <3>2 DEF RunObj
    <3> HIDE DEF old
    <3> QED BY SMTT(60), <3>1, <3>3, <3>4
  <2>2. NewRun("Run") \in RunObj /\ NewRun(st) \in RunObj
    BY NewRunType
  <2>3. m \in RunObj
    <3> DEFINE n == NewRun("Run")
    <3> HIDE DEF n
    <3>1. [n EXCEPT !.phase = "gone"] \in RunObj
      BY <2>2 DEF RunObj, n
    <3> QED BY <2>2, <3>1 DEF NoRun, n
  <2>4. \A s \in StageIndex : m.members[s] = {} /\ m.stage[s] = "idle"
    BY <2>1, Indices
  <2>5. StagesInOrder(m)
    BY <2>1, <2>4 DEF StagesInOrder
  <2>6. ApprovalsNoted(m, given, asked) /\ DeletionApproved(m)
    BY <2>1, <2>4 DEF ApprovalsNoted, DeletionApproved
  <2> QED BY <2>3, <2>5, <2>6 DEF Sound
<1>6. ASSUME NEW r \in Run, NEW given, NEW asked
      PROVE  run[r] \in RunObj /\ Sound(run[r], given, asked)
  <2>1. CASE r \in start.runs
    BY <1>2, <1>5, <2>1
  <2>2. CASE r \notin start.runs
    BY <1>2, <1>5, <2>2
  <2> QED BY <2>1, <2>2
<1>7. /\ seen = bind /\ synced = Cluster /\ job = Idle
      /\ placed = [policy |-> 1, scheduled |-> TRUE, labels |-> Labels]
      /\ request = [r \in Run |-> [t \in Task |-> "absent"]]
      /\ flight = [r \in Run |-> {}] /\ granted = [r \in Run |-> {}]
  BY DEF Init
<1>8. placed \in PlacementObj
  BY <1>7, UpdateRunAssumption DEF UpdateRunAssumption, PlacementObj
<1>9. run \in [Run -> RunObj]
  BY <1>2, <1>6
<1>10. TypeOK
  BY <1>1, <1>3, <1>4, <1>7, <1>8, <1>9, IdleType DEF TypeOK, Request
<1>11. \A r \in Run, t \in Task : request[r][t] = "absent"
  BY <1>7
<1> QED BY <1>6, <1>7, <1>10, <1>11, IdlePc DEF StageInvariant

\* Every step keeps the invariant.
LEMMA StepKeeps ==
    StageInvariant /\ [Next]_vars => StageInvariant'
<1> SUFFICES ASSUME StageInvariant, [Next]_vars PROVE StageInvariant'
  OBVIOUS
<1>1. ASSUME NEW r \in Run, Take(r) PROVE StageInvariant'
  BY <1>1, InitializeStep, ValidateStep, HandleDeleteStep DEF Take
<1>2. ASSUME GoOn PROVE StageInvariant'
  <2>1. ASSUME NEW c \in Cluster,
               \/ SkipSucceeded(c) \/ UpdateBinding(c) \/ AnnounceLate(c)
               \/ AlreadyStarted(c) \/ CheckStarted(c)
        PROVE  StageInvariant'
    BY <2>1, SkipSucceededStep, UpdateBindingStep, AnnounceLateStep, AlreadyStartedStep,
       CheckStartedStep
  <2>2. ASSUME \/ RecordInitialized \/ BeforeStage \/ StartRollout \/ EndLoop \/ AfterStage
               \/ DeleteBinding \/ EndDeletion \/ Record
        PROVE  StageInvariant'
    BY <2>2, RecordInitializedStep, BeforeStageStep, StartRolloutStep, EndLoopStep,
       AfterStageStep, DeleteBindingStep, EndDeletionStep, RecordStep
  <2> QED BY <1>2, <2>1, <2>2 DEF GoOn
<1>3. ASSUME Restart PROVE StageInvariant'
  BY <1>3, RestartStep
<1>4. ASSUME NEW c \in Cluster,
             Deliver(c) \/ BecomesUp(c) \/ BecomesFailed(c) \/ Evict(c) \/ Vanishes(c)
      PROVE  StageInvariant'
  BY <1>4, SurroundingsStep, OtherControllersStep
<1>5. ASSUME Scheduling PROVE StageInvariant'
  BY <1>5, SurroundingsStep, OtherControllersStep DEF Scheduling
<1>6. ASSUME User PROVE StageInvariant'
  BY <1>6, UserEditsStep, ApprovalsStep, SurroundingsStep DEF User
<1>7. ASSUME TimePasses PROVE StageInvariant'
  BY <1>7, TimePassesStep
<1>8. ASSUME UNCHANGED vars PROVE StageInvariant'
  <2>1. /\ UNCHANGED <<run, request, granted, job>> /\ WorldTypes' /\ job \in Job
    BY <1>8, WorldOfInvariant DEF vars, WorldTypes
  <2>2. SameJob(job, job)
    BY DEF SameJob
  <2> QED BY <2>1, <2>2, WorldStepKeeps
<1> QED BY <1>1, <1>2, <1>3, <1>4, <1>5, <1>6, <1>7, <1>8 DEF Next

\* Every reachable state is in order: the stages of a run share no cluster, the run
\* and the reconciliation note only approvals that were given and not taken back, and
\* the reconciliation is at the first stage that has not succeeded, with the approval
\* it needs and the right count of updated clusters (updaterun controller).
THEOREM StageInvariance == Spec => []StageInvariant
BY InitKeeps, StepKeeps, PTL DEF Spec

\* The bindings, runs, requests and the reconciliation keep their shape in every run of
\* the controller.
THEOREM RunTypes == Spec => []TypeOK
<1>1. StageInvariant => TypeOK
  BY DEF StageInvariant
<1> QED BY <1>1, StageInvariance, PTL

\* For all stages, clusters and runs: a stage with a wait succeeds only after the wait
\* time has passed since its last cluster was found updated (checkAfterStageTasksStatus).
THEOREM WaitIsHonoured == Spec => []WaitHonoured
<1>1. StageInvariant => WaitHonoured
  BY DEF StageInvariant, Sound, StagesInOrder, WaitHonoured
<1> QED BY <1>1, StageInvariance, PTL
----------------------------------------------------------------------------
(* StagesGated.                                                            *)

\* The cluster a reconciliation is at may be moved.
LEMMA TakesGated ==
    ASSUME StageInvariant, job.pc \in {"clusters", "start", "delete"},
           NEW c \in Cluster, c \in job.todo
    PROVE  MayMove(job.run, c)
<1> DEFINE s == job.stage
           r == job.run
           held == IF c \in Stored.members[DeleteStage] THEN DeleteStage ELSE StageHolding(r, c)
<1>1. job \in Job /\ r \in Run /\ JobInOrder(job, Stored, Given, Asks)
  BY WorldOfInvariant DEF StageInvariant, Stored, Given, Asks
<1>2. /\ About(job, Stored) /\ s \in 1..DeleteStage
      /\ ApprovalsNoted(job.mem, Given, Asks)
  BY <1>1 DEF JobInOrder, Sound, Job
<1>3. /\ Stored \in RunObj /\ StagesInOrder(Stored) /\ ApprovalsNoted(Stored, Given, Asks)
  BY <1>1, WorldOfInvariant DEF StageInvariant, Sound, Stored, Given, Asks
<1>4. c \in Stored.members[s]
  BY <1>2 DEF About
<1>5. held = s
  <2>1. CASE s = DeleteStage
    BY <1>4, <2>1
  <2>2. CASE s # DeleteStage
    <3>1. s \in StageIndex /\ DeleteStage \in 1..DeleteStage
      BY <1>2, <2>2, Indices
    <3>2. \A t \in 1..DeleteStage : t # s => c \notin Stored.members[t]
      BY <1>2, <1>3, <1>4 DEF StagesInOrder
    <3>3. \A t \in StageIndex : c \in Stored.members[t] <=> t = s
      BY <1>4, <3>1, <3>2, Indices
    <3>4. StageHolding(r, c) = CHOOSE t \in StageIndex : c \in Stored.members[t]
      BY DEF StageHolding, Stored
    <3>5. StageHolding(r, c) = s
      BY <3>1, <3>3, <3>4
    <3> QED BY <2>2, <3>1, <3>2, <3>5
  <2> QED BY <2>1, <2>2
<1>6. ASSUME NEW t \in 1..(s - 1)
      PROVE  /\ Stored.stage[t] = "succeeded"
             /\ Stages[t].after /\ Stored.members[t] # {} => <<t, "after">> \in Given
  <2>1. t \in StageIndex /\ <<t, "after">> \in Task
    BY <1>2, Indices, Tasks
  <2>2. Stored.stage[t] = "succeeded"
    BY <1>2 DEF About
  <2> QED BY <1>3, <2>1, <2>2 DEF ApprovalsNoted
<1>7. GatedBefore(s) => <<s, "before">> \in Given
  <2>1. <<s, "before">> \in Task
    BY <1>2, Tasks
  <2>2. CASE job.pc = "delete"
    <3>1. /\ s = DeleteStage /\ Removed(job.view) # {}
          /\ DeleteGate => job.mem.task[<<DeleteStage, "before">>] = "approved"
      BY <1>1, <2>2 DEF JobInOrder, Deletes
    <3> QED BY <1>2, <2>1, <3>1 DEF GatedBefore, ApprovalsNoted
  <2>3. CASE job.pc # "delete"
    <3>1. s \in StageIndex /\ (Stages[s].before => job.mem.task[<<s, "before">>] = "approved")
      BY <1>1, <2>3 DEF JobInOrder, Entered
    <3>2. s # DeleteStage
      BY <3>1, Indices
    <3> QED BY <1>2, <2>1, <3>1, <3>2 DEF GatedBefore, ApprovalsNoted
  <2> QED BY <2>2, <2>3
<1> HIDE DEF held
<1>8. MayMove(r, c) <=>
        /\ \A t \in 1..(held - 1) :
              /\ Stored.stage[t] = "succeeded"
              /\ Stages[t].after /\ Stored.members[t] # {} => <<t, "after">> \in Given
        /\ GatedBefore(held) => <<held, "before">> \in Given
  BY DEF MayMove, Stored, Given, held
<1> QED BY <1>5, <1>6, <1>7, <1>8

\* A write takes the cluster of this turn only.
LEMMA TakesOne ==
    ASSUME flight \in [Run -> SUBSET Cluster], NEW r \in Run, NEW c, Takes(r, c)
    PROVE  \A q \in Run : \A d \in flight'[q] \ flight[q] : q = r /\ d = c
BY DEF Takes

\* Only UpdateBinding, StartRollout and DeleteBinding take a binding, and only when the
\* cluster may be moved.
LEMMA GatedStep ==
    StageInvariant /\ [Next]_vars =>
        [\A r \in Run : \A c \in flight'[r] \ flight[r] : MayMove(r, c)]_vars
<1> DEFINE G == \A r \in Run : \A c \in flight'[r] \ flight[r] : MayMove(r, c)
<1> SUFFICES ASSUME StageInvariant, Next PROVE G
  OBVIOUS
<1>0. flight \in [Run -> SUBSET Cluster]
  BY WorldOfInvariant DEF WorldTypes
<1>1. ASSUME UNCHANGED flight PROVE G
  BY <1>1
<1>2. ASSUME NEW c \in Cluster, Lands(c) PROVE G
  BY <1>0, <1>2 DEF Lands
<1>3. ASSUME NEW c \in Cluster, Takes(job.run, c), c \in job.todo,
             job.pc \in {"clusters", "start", "delete"}
      PROVE  G
  <2>1. job.run \in Run /\ MayMove(job.run, c)
    BY <1>3, TakesGated DEF StageInvariant
  <2>2. \A q \in Run : \A d \in flight'[q] \ flight[q] : q = job.run /\ d = c
    BY <1>0, <1>3, <2>1, TakesOne
  <2> QED BY <2>1, <2>2
<1>4. ASSUME NEW r \in Run, Take(r) PROVE UNCHANGED flight
  BY <1>4 DEF Take, Initialize, Validate, HandleDelete, ghosts
<1>5. ASSUME GoOn PROVE G
  <2>1. ASSUME NEW c \in Cluster, UpdateBinding(c) PROVE G
    <3>1. job.pc = "clusters" /\ c \in job.todo
      BY <2>1, TurnOf DEF UpdateBinding
    <3> QED BY <1>1, <1>3, <2>1, <3>1 DEF UpdateBinding
  <2>2. CASE StartRollout
    <3> DEFINE c == First(job.todo)
    <3>1. job.pc = "start" /\ (Takes(job.run, c) \/ UNCHANGED flight)
      BY <2>2 DEF StartRollout
    <3>2. job.todo \in SUBSET Cluster /\ job.todo # {}
      BY <3>1, TurnFacts DEF StageInvariant, JobInOrder
    <3>3. c \in job.todo /\ c \in Cluster
      BY <3>2, FirstOf
    <3> HIDE DEF c
    <3> QED BY <1>1, <1>3, <3>1, <3>3
  <2>3. CASE DeleteBinding
    <3> DEFINE c == First(job.todo)
    <3>1. job.pc = "delete" /\ job.todo # {} /\ (Takes(job.run, c) \/ UNCHANGED flight)
      BY <2>3 DEF DeleteBinding
    <3>2. job.todo \in SUBSET Cluster
      BY <3>1, DeleteFacts
    <3>3. c \in job.todo /\ c \in Cluster
      BY <3>1, <3>2, FirstOf
    <3> HIDE DEF c
    <3> QED BY <1>1, <1>3, <3>1, <3>3
  <2>4. ASSUME NEW c \in Cluster,
               SkipSucceeded(c) \/ AnnounceLate(c) \/ AlreadyStarted(c) \/ CheckStarted(c)
        PROVE  UNCHANGED flight
    BY <2>4 DEF SkipSucceeded, AnnounceLate, AlreadyStarted, CheckStarted, ghosts
  <2>5. ASSUME \/ RecordInitialized \/ BeforeStage \/ EndLoop \/ AfterStage \/ EndDeletion
               \/ Record
        PROVE  UNCHANGED flight
    BY <2>5 DEF RecordInitialized, BeforeStage, EndLoop, AfterStage, EndDeletion, Record, ghosts
  <2> QED BY <1>1, <1>5, <2>1, <2>2, <2>3, <2>4, <2>5 DEF GoOn
<1>6. ASSUME Restart PROVE UNCHANGED flight
  BY <1>6 DEF Restart
<1>7. ASSUME NEW c \in Cluster,
             Deliver(c) \/ BecomesUp(c) \/ BecomesFailed(c) \/ Evict(c) \/ Vanishes(c)
             \/ Reschedule(c)
      PROVE  UNCHANGED flight \/ Lands(c)
  BY <1>7 DEF Deliver, BecomesUp, BecomesFailed, Evict, Vanishes, Reschedule, ghosts
<1>8. ASSUME Scheduling PROVE G
  BY <1>1, <1>2, <1>7, <1>8 DEF Scheduling, FinishScheduling, ghosts
<1>9. ASSUME User PROVE UNCHANGED flight
  BY <1>9 DEF User, Execute, Stop, Resume, DeleteRun, EditRun, Approve, Revoke, DropRequest,
              Relabel, PublishPolicy
<1>10. ASSUME TimePasses PROVE UNCHANGED flight
  BY <1>10 DEF TimePasses, ghosts
<1> HIDE DEF G
<1> QED BY <1>1, <1>2, <1>4, <1>5, <1>6, <1>7, <1>8, <1>9, <1>10 DEF Next

\* For all stages, clusters and runs: no binding is moved before the earlier stages have
\* succeeded and the stage is approved, none is deleted before all stages have succeeded
\* and the deletion is approved (executeUpdatingStage, executeDeleteStage).
THEOREM StagesAreGated == Spec => StagesGated
BY StageInvariance, GatedStep, PTL DEF Spec, StagesGated
============================================================================
