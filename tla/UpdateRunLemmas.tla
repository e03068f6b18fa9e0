--------------------------- MODULE UpdateRunLemmas ---------------------------
(***************************************************************************)
(* Lemmas about staged update runs, for any number of runs, clusters and   *)
(* stages: what the operators on a run's status keep, and that each step   *)
(* of a reconciliation keeps the run, its copy in memory and the approvals *)
(* in order.                                                               *)
(***************************************************************************)
EXTENDS UpdateRun, FiniteSetTheorems, WellFoundedInduction, TLAPS

\* Zenon proves what is not arithmetic; SMT is cited for the rest.
USE ZenonT(30)

----------------------------------------------------------------------------
(* Minima, stages, and the order of the clusters.                          *)

\* The least of a nonempty set of numbers, as Min finds it.
LEMMA MinOf ==
    ASSUME NEW S \in SUBSET Nat, S # {}
    PROVE  Min(S) \in S /\ \A x \in S : Min(S) <= x
<1> DEFINE R == {ss \in Nat \X Nat : ss[1] < ss[2]}
<1>1. IsWellFoundedOn(R, Nat)
  BY NatLessThanWellFounded DEF OpToRel
<1> HIDE DEF R
<1>2. PICK x \in S : \A y \in S : ~(<<y, x>> \in R)
  BY <1>1, WFMin
<1>3. ASSUME NEW y \in S PROVE x <= y
  <2>1. x \in Nat /\ y \in Nat
    OBVIOUS
  <2>2. <<y, x>> \in Nat \X Nat /\ <<y, x>>[1] = y /\ <<y, x>>[2] = x
    BY <2>1
  <2>3. y < x => <<y, x>> \in R
    BY <2>2 DEF R
  <2> QED BY SMTT(120), <1>2, <2>1, <2>3
<1> QED BY <1>3 DEF Min

\* The delete stage follows the stages of the strategy.
LEMMA Indices ==
    /\ N \in Nat
    /\ DeleteStage \in 1..DeleteStage /\ DeleteStage \notin StageIndex
    /\ 1..DeleteStage = StageIndex \cup {DeleteStage}
    /\ 1 \in 1..DeleteStage /\ 1..DeleteStage \subseteq Nat
    /\ \A s \in StageIndex : \A t \in 1..(s - 1) : t \in StageIndex
    /\ \A t \in 1..(DeleteStage - 1) : t \in StageIndex
<1>1. N \in Nat
  BY SMTT(120), UpdateRunAssumption DEF UpdateRunAssumption, N
<1> QED BY SMTT(120), <1>1 DEF DeleteStage, StageIndex

\* The stages of the strategy are what the assumption says.
LEMMA StageTypes ==
    ASSUME NEW s \in StageIndex
    PROVE  Stages[s] \in [before : BOOLEAN, wait : BOOLEAN, after : BOOLEAN,
                          max : [percent : BOOLEAN, value : Nat]]
<1> DEFINE T == [before : BOOLEAN, wait : BOOLEAN, after : BOOLEAN,
                 max : [percent : BOOLEAN, value : Nat]]
<1>1. Stages \in Seq(T)
  BY UpdateRunAssumption DEF UpdateRunAssumption
<1> HIDE DEF T
<1>2. Stages[s] \in T
  BY SMTT(120), <1>1 DEF StageIndex, N
<1> QED BY <1>2 DEF T

\* Every stage has a task before and a task after it.
LEMMA Tasks ==
    ASSUME NEW s \in 1..DeleteStage
    PROVE  <<s, "before">> \in Task /\ <<s, "after">> \in Task
BY DEF Task

\* The first cluster of a set in the order of the stage is one of the set.
LEMMA FirstOf ==
    ASSUME NEW S \in SUBSET Cluster, S # {}
    PROVE  First(S) \in S
<1> DEFINE I == {i \in DOMAIN Order : Order[i] \in S}
<1>1. I \in SUBSET Nat /\ I # {}
  BY SMTT(120), UpdateRunAssumption DEF UpdateRunAssumption
<1>2. Min(I) \in I
  BY <1>1, MinOf
<1> QED BY <1>2 DEF First

\* The stage a run is at: all stages before it have succeeded.
LEMMA NextStageOf ==
    ASSUME NEW m, m \in RunObj
    PROVE  /\ NextStage(m) \in 1..DeleteStage
           /\ NextStage(m) \in StageIndex => m.stage[NextStage(m)] # "succeeded"
           /\ \A t \in 1..(NextStage(m) - 1) : m.stage[t] = "succeeded"
<1>1. CASE Finished(m) = StageIndex
  BY <1>1, Indices DEF NextStage, Finished
<1>2. CASE Finished(m) # StageIndex
  <2> DEFINE U == StageIndex \ Finished(m)
  <2>1. U \in SUBSET Nat /\ U # {} /\ NextStage(m) = Min(U)
    BY <1>2, Indices DEF NextStage, Finished
  <2>2. Min(U) \in U /\ \A x \in U : Min(U) <= x
    BY <2>1, MinOf
  <2>3. Min(U) \in StageIndex /\ m.stage[Min(U)] # "succeeded"
    BY <2>2 DEF Finished
  <2>4. ASSUME NEW t \in 1..(Min(U) - 1) PROVE m.stage[t] = "succeeded"
    <3>1. t \in StageIndex /\ t \notin U
      <4>1. Min(U) \in Nat /\ t \in Nat /\ ~(Min(U) <= t)
        BY SMTT(120), <2>3, Indices DEF StageIndex
      <4> QED BY <2>2, <2>3, <4>1, Indices
    <3> QED BY <3>1 DEF Finished
  <2> QED BY <2>1, <2>3, <2>4, Indices
<1> QED BY <1>1, <1>2

----------------------------------------------------------------------------
(* Types.                                                                  *)

StageReason == {"idle", "started", "waiting", "stopping", "stopped", "succeeded", "failed"}

ClusterReason == {"idle", "started", "succeeded", "failed"}

\* A binding that does not exist is a binding object.
LEMMA NoBindingType == NoBinding \in BindingObj
BY DEF NoBinding, BindingObj

\* A changed binding has no conditions yet.
LEMMA NewGenerationType ==
    ASSUME NEW b \in BindingObj
    PROVE  NewGeneration(b) \in BindingObj
BY DEF NewGeneration, BindingObj

\* A run as the user creates it.
LEMMA NewRunType ==
    ASSUME NEW state \in {"Initialize", "Run", "Stop"}
    PROVE  NewRun(state) \in RunObj
BY Indices DEF NewRun, RunObj

\* The controller between two reconciliations.
LEMMA IdleType == Idle \in Job
<1>1. NewRun("Run") \in RunObj
  BY NewRunType
<1> QED BY <1>1, NoBindingType, Indices DEF Idle, Job

\* What the changes of a run in memory leave as it is.
LEMMA MarkRunType ==
    ASSUME NEW m \in RunObj,
           NEW reason \in {"none", "progressing", "waiting", "stopping", "stopped", "ended"}
    PROVE  /\ MarkRun(m, reason) \in RunObj
           /\ Progressing(m) \in RunObj
BY SMTT(120) DEF MarkRun, Progressing, RunObj

\* recordUpdateRunFailed keeps the shape of a run.
LEMMA FailedType ==
    ASSUME NEW m \in RunObj, NEW why \in {"changed", "preempted", "unexpected"}
    PROVE  Failed(m, why) \in RunObj
BY DEF Failed, RunObj

\* So does a change of some clusters,
LEMMA MarkClusterType ==
    ASSUME NEW m \in RunObj, NEW S, NEW reason \in ClusterReason
    PROVE  MarkCluster(m, S, reason) \in RunObj
BY DEF MarkCluster, RunObj, ClusterReason

\* and a change of a stage.
LEMMA MarkStageType ==
    ASSUME NEW m \in RunObj, NEW s \in 1..DeleteStage, NEW reason \in StageReason
    PROVE  MarkStage(m, s, reason) \in RunObj
<1> DEFINE aged == IF s # DeleteStage /\ Status(m.stage[s]) # Status(reason)
                   THEN [m.aged EXCEPT ![s] = FALSE] ELSE m.aged
           stage == [m.stage EXCEPT ![s] = reason]
<1>1. stage \in [1..DeleteStage -> StageReason]
  BY DEF RunObj, StageReason
<1>2. aged \in [StageIndex -> BOOLEAN]
  BY Indices DEF RunObj
<1>3. MarkStage(m, s, reason) = [m EXCEPT !.stage = stage, !.aged = aged]
  BY DEF MarkStage
<1> HIDE DEF stage, aged
<1> DEFINE n == [m EXCEPT !.stage = stage]
<1>4. n \in RunObj
  BY <1>1 DEF RunObj, StageReason
<1>5. MarkStage(m, s, reason) = [n EXCEPT !.aged = aged]
  BY <1>3 DEF RunObj
<1> HIDE DEF n
<1>6. [n EXCEPT !.aged = aged] \in RunObj
  BY <1>2, <1>4 DEF RunObj
<1> QED BY <1>5, <1>6

----------------------------------------------------------------------------
(* What the changes of a run in memory do to it.                           *)

\* The two versions of a run have the same stages.
Alike(m, n) ==
    /\ n.init = m.init /\ n.members = m.members /\ n.cluster = m.cluster /\ n.stage = m.stage
    /\ n.begun <=> m.begun
    /\ n.task = m.task /\ n.elapsed = m.elapsed /\ n.aged = m.aged /\ n.rested = m.rested

\* Runs that agree on these fields are equally sound.
LEMMA AlikeSound ==
    ASSUME NEW m, NEW n, Alike(m, n), NEW given, NEW asked
    PROVE  /\ StagesInOrder(m) /\ (m.init = "ok" \/ n.done = m.done) => StagesInOrder(n)
           /\ ApprovalsNoted(m, given, asked) => ApprovalsNoted(n, given, asked)
           /\ DeletionApproved(m) /\ n.done \in {m.done, "failed", "succeeded"}
              => DeletionApproved(n)
<1>1. StagesInOrder(m) /\ (m.init = "ok" \/ n.done = m.done) => StagesInOrder(n)
  BY SMTT(120) DEF Alike, StagesInOrder, Unfinished
<1>2. ApprovalsNoted(m, given, asked) => ApprovalsNoted(n, given, asked)
  BY SMTT(120) DEF Alike, ApprovalsNoted
<1>3. DeletionApproved(m) /\ n.done \in {m.done, "failed", "succeeded"} => DeletionApproved(n)
  BY DEF Alike, DeletionApproved
<1> QED BY <1>1, <1>2, <1>3

\* The run's own Progressing condition is not one of these fields,
LEMMA MarkRunAlike ==
    ASSUME NEW m \in RunObj, NEW reason
    PROVE  /\ Alike(m, MarkRun(m, reason)) /\ MarkRun(m, reason).done = m.done
           /\ MarkRun(m, reason).state = m.state
           /\ Alike(m, Progressing(m)) /\ Progressing(m).done = m.done
           /\ Progressing(m).state = m.state
BY DEF MarkRun, Progressing, Alike, RunObj

\* and neither are the fields of a failure.
LEMMA FailedAlike ==
    ASSUME NEW m \in RunObj, NEW why
    PROVE  Alike(m, Failed(m, why)) /\ Failed(m, why).done = "failed"
BY DEF Failed, Alike, RunObj

\* MarkStage: the stage, and the time of its last change.
LEMMA MarkStageFields ==
    ASSUME NEW m \in RunObj, NEW s \in 1..DeleteStage, NEW reason \in StageReason,
           NEW n, n = MarkStage(m, s, reason)
    PROVE  /\ n.init = m.init /\ n.members = m.members /\ n.cluster = m.cluster
           /\ n.begun <=> m.begun
           /\ n.task = m.task /\ n.elapsed = m.elapsed /\ n.rested = m.rested
           /\ n.done = m.done
           /\ \A t \in 1..DeleteStage : n.stage[t] = IF t = s THEN reason ELSE m.stage[t]
           /\ \A t \in StageIndex :
                 n.aged[t] <=> /\ m.aged[t]
                               /\ ~(t = s /\ Status(m.stage[s]) # Status(reason))
<1> DEFINE aged == IF s # DeleteStage /\ Status(m.stage[s]) # Status(reason)
                   THEN [m.aged EXCEPT ![s] = FALSE] ELSE m.aged
           stage == [m.stage EXCEPT ![s] = reason]
<1>1. n = [m EXCEPT !.stage = stage, !.aged = aged]
  BY DEF MarkStage
<1>2. \A t \in 1..DeleteStage : stage[t] = IF t = s THEN reason ELSE m.stage[t]
  BY DEF RunObj
<1>3. ASSUME NEW t \in StageIndex
      PROVE  aged[t] <=> m.aged[t] /\ ~(t = s /\ Status(m.stage[s]) # Status(reason))
  <2>1. m.aged \in [StageIndex -> BOOLEAN] /\ t # DeleteStage
    BY SMTT(120), Indices DEF RunObj
  <2> QED BY <2>1
<1> HIDE DEF stage, aged
<1>4. n.stage = stage /\ n.aged = aged
  BY <1>1 DEF RunObj
<1>5. /\ n.init = m.init /\ n.members = m.members /\ n.cluster = m.cluster
      /\ n.begun <=> m.begun
      /\ n.task = m.task /\ n.elapsed = m.elapsed /\ n.rested = m.rested
      /\ n.done = m.done
  BY <1>1 DEF RunObj
<1> QED BY <1>2, <1>3, <1>4, <1>5

\* MarkCluster: the clusters only.
LEMMA MarkClusterFields ==
    ASSUME NEW m \in RunObj, NEW S, NEW reason, NEW n, n = MarkCluster(m, S, reason)
    PROVE  /\ n.init = m.init /\ n.members = m.members /\ n.stage = m.stage
           /\ n.begun <=> m.begun
           /\ n.task = m.task /\ n.elapsed = m.elapsed /\ n.rested = m.rested
           /\ n.aged = m.aged /\ n.done = m.done
           /\ \A c \in Cluster : n.cluster[c] = IF c \in S THEN reason ELSE m.cluster[c]
<1> DEFINE cluster == [c \in Cluster |-> IF c \in S THEN reason ELSE m.cluster[c]]
<1>1. n = [m EXCEPT !.cluster = cluster]
  BY DEF MarkCluster
<1>2. \A c \in Cluster : cluster[c] = IF c \in S THEN reason ELSE m.cluster[c]
  OBVIOUS
<1> HIDE DEF cluster
<1> QED BY SMTT(120), <1>1, <1>2 DEF RunObj

\* A stage that has clusters succeeds only when its wait and its approval are over.
MaySucceed(m, s) ==
    m.members[s] # {} => /\ Stages[s].wait => m.rested[s]
                         /\ Stages[s].after => m.task[<<s, "after">>] = "approved"

\* A stage may be marked as waiting, stopped or succeeded when no cluster of it is
\* under way.
LEMMA MarkStageKeeps ==
    ASSUME NEW m \in RunObj, StagesInOrder(m), m.init = "ok",
           NEW s \in 1..DeleteStage, NEW reason \in StageReason,
           s \in StageIndex /\ reason \in {"waiting", "stopped", "succeeded"}
              => Unfinished(m, s) = {},
           s \in StageIndex /\ reason = "succeeded" => MaySucceed(m, s),
           NEW given, NEW asked, ApprovalsNoted(m, given, asked)
    PROVE  LET n == MarkStage(m, s, reason)
           IN  /\ n \in RunObj /\ StagesInOrder(n) /\ ApprovalsNoted(n, given, asked)
               /\ DeletionApproved(m) => DeletionApproved(n)
<1> DEFINE n == MarkStage(m, s, reason)
<1>0. n \in RunObj
  BY MarkStageType
<1> HIDE DEF n
<1>1. /\ n.init = m.init /\ n.members = m.members /\ n.cluster = m.cluster
      /\ n.begun <=> m.begun
      /\ n.task = m.task /\ n.elapsed = m.elapsed /\ n.rested = m.rested
      /\ n.done = m.done
      /\ \A t \in 1..DeleteStage : n.stage[t] = IF t = s THEN reason ELSE m.stage[t]
      /\ \A t \in StageIndex :
            n.aged[t] <=> /\ m.aged[t]
                          /\ ~(t = s /\ Status(m.stage[s]) # Status(reason))
  BY SMTT(120), MarkStageFields DEF n
<1>2. StagesInOrder(n)
  <2>1. \A t \in StageIndex : Unfinished(n, t) = Unfinished(m, t)
    BY <1>1 DEF Unfinished
  <2>2. ASSUME NEW t \in StageIndex
        PROVE  /\ n.stage[t] \in {"waiting", "stopped", "succeeded"} => Unfinished(n, t) = {}
               /\ n.aged[t] => n.stage[t] \in {"waiting", "stopped", "succeeded", "failed"}
               /\ n.stage[t] = "succeeded" /\ n.members[t] # {} /\ Stages[t].wait => n.rested[t]
    <3>0. t \in 1..DeleteStage
      BY Indices
    <3>1. CASE t # s
      BY <1>1, <2>1, <3>0, <3>1 DEF StagesInOrder
    <3>2. CASE t = s
      <4>1. n.stage[t] = reason
        BY <1>1, <3>0, <3>2
      <4>2. n.aged[t] => m.aged[s] /\ Status(m.stage[s]) = Status(reason)
        BY <1>1, <3>2
      <4>3. m.aged[s] => m.stage[s] \in {"waiting", "stopped", "succeeded", "failed"}
        BY <3>2 DEF StagesInOrder
      <4>4. n.aged[t] => reason \in {"waiting", "stopped", "succeeded", "failed"}
        BY <4>2, <4>3 DEF Status, StageReason
      <4> QED BY <1>1, <2>1, <3>2, <4>1, <4>4 DEF MaySucceed
    <3> QED BY <3>1, <3>2
  <2>3. ASSUME NEW t \in StageIndex
        PROVE  /\ /\ n.aged[t] /\ n.members[t] # {}
                  /\ \A c \in n.members[t] : n.cluster[c] = "succeeded"
                  => n.rested[t]
               /\ n.elapsed[t] /\ n.members[t] # {} => n.rested[t]
    BY SMTT(120), <1>1 DEF StagesInOrder
  <2>4. \A a, b \in 1..DeleteStage : a # b => n.members[a] \cap n.members[b] = {}
    BY <1>1 DEF StagesInOrder
  <2> QED BY <1>1, <2>2, <2>3, <2>4 DEF StagesInOrder
<1>3. ApprovalsNoted(n, given, asked)
  <2>1. ASSUME NEW t \in StageIndex, Stages[t].after, n.stage[t] = "succeeded", n.members[t] # {}
        PROVE  n.task[<<t, "after">>] = "approved"
    <3>0. t \in 1..DeleteStage
      BY Indices
    <3>1. CASE t # s
      BY <1>1, <2>1, <3>0, <3>1 DEF ApprovalsNoted
    <3>2. CASE t = s
      BY <1>1, <2>1, <3>0, <3>2 DEF MaySucceed
    <3> QED BY <3>1, <3>2
  <2> QED BY SMTT(120), <1>1, <2>1 DEF ApprovalsNoted
<1>4. DeletionApproved(m) => DeletionApproved(n)
  BY <1>1 DEF DeletionApproved
<1> QED BY <1>0, <1>2, <1>3, <1>4 DEF n

\* Clusters of a stage may be marked once it is approved: as started, if the stage
\* does not wait; as succeeded, if its time has not begun to count.
LEMMA MarkClusterKeeps ==
    ASSUME NEW m \in RunObj, StagesInOrder(m), m.init = "ok",
           NEW s \in 1..DeleteStage, NEW S, S \subseteq m.members[s],
           NEW reason \in ClusterReason,
           s \in StageIndex /\ S # {} =>
              /\ Stages[s].before => m.task[<<s, "before">>] = "approved"
              /\ reason = "started" => m.stage[s] \notin {"waiting", "stopped", "succeeded"}
              /\ reason = "succeeded" => ~m.aged[s],
           NEW given, NEW asked, ApprovalsNoted(m, given, asked)
    PROVE  LET n == MarkCluster(m, S, reason)
           IN  /\ n \in RunObj /\ StagesInOrder(n) /\ ApprovalsNoted(n, given, asked)
               /\ DeletionApproved(m) => DeletionApproved(n)
<1> DEFINE n == MarkCluster(m, S, reason)
<1>0. n \in RunObj /\ \A t \in 1..DeleteStage : m.members[t] \subseteq Cluster
  BY MarkClusterType DEF RunObj
<1> HIDE DEF n
<1>1. /\ n.init = m.init /\ n.members = m.members /\ n.stage = m.stage
      /\ n.begun <=> m.begun
      /\ n.task = m.task /\ n.elapsed = m.elapsed /\ n.rested = m.rested
      /\ n.aged = m.aged /\ n.done = m.done
      /\ \A c \in Cluster : n.cluster[c] = IF c \in S THEN reason ELSE m.cluster[c]
  BY SMTT(120), MarkClusterFields DEF n
<1>2. ASSUME NEW t \in StageIndex, t # s \/ S = {}
      PROVE  \A c \in m.members[t] : n.cluster[c] = m.cluster[c]
  <2>1. t \in 1..DeleteStage
    BY Indices
  <2>2. m.members[t] \cap S = {}
    BY <1>2, <2>1 DEF StagesInOrder
  <2> QED BY <1>0, <1>1, <2>1, <2>2
<1>3. ASSUME NEW t \in StageIndex
      PROVE  /\ n.stage[t] \in {"waiting", "stopped", "succeeded"} => Unfinished(n, t) = {}
             /\ /\ n.aged[t] /\ n.members[t] # {}
                /\ \A c \in n.members[t] : n.cluster[c] = "succeeded"
                => n.rested[t]
             /\ Stages[t].before /\ (\E c \in n.members[t] : n.cluster[c] # "idle")
                => n.task[<<t, "before">>] = "approved"
  <2>0. t \in 1..DeleteStage /\ m.members[t] \subseteq Cluster
    BY <1>0, Indices
  <2>1. CASE t # s \/ S = {}
    <3>1. \A c \in m.members[t] : n.cluster[c] = m.cluster[c]
      BY <1>2, <2>1
    <3>2. Unfinished(n, t) = Unfinished(m, t)
      BY <1>1, <3>1 DEF Unfinished
    <3>3. m.stage[t] \in {"waiting", "stopped", "succeeded"} => Unfinished(m, t) = {}
      BY DEF StagesInOrder
    <3>4. /\ m.aged[t] /\ m.members[t] # {}
          /\ \A c \in m.members[t] : m.cluster[c] = "succeeded"
          => m.rested[t]
      BY DEF StagesInOrder
    <3>5. Stages[t].before /\ (\E c \in m.members[t] : m.cluster[c] # "idle")
          => m.task[<<t, "before">>] = "approved"
      BY DEF ApprovalsNoted
    <3> QED BY <1>1, <3>1, <3>2, <3>3, <3>4, <3>5
  <2>2. CASE t = s /\ S # {}
    <3>1. Stages[t].before => n.task[<<t, "before">>] = "approved"
      BY <1>1, <2>2
    <3>2. \A c \in m.members[t] : n.cluster[c] = IF c \in S THEN reason ELSE m.cluster[c]
      BY <1>1, <2>0
    <3>3. n.stage[t] \in {"waiting", "stopped", "succeeded"} => Unfinished(n, t) = {}
      <4>1. m.stage[t] \in {"waiting", "stopped", "succeeded"}
            => Unfinished(m, t) = {} /\ reason # "started"
        BY <2>2 DEF StagesInOrder
      <4> QED BY <1>1, <3>2, <4>1 DEF Unfinished
    <3>4. /\ m.aged[t] /\ m.members[t] # {}
          /\ \A c \in m.members[t] : m.cluster[c] = "succeeded"
          => m.rested[t]
      BY DEF StagesInOrder
    <3>5. (\A c \in n.members[t] : n.cluster[c] = "succeeded") => reason = "succeeded"
      BY <1>1, <2>2, <3>2
    <3> QED BY <1>1, <2>2, <3>1, <3>3, <3>5
  <2> QED BY <2>1, <2>2
<1>4. StagesInOrder(n)
  <2>1. ASSUME NEW t \in StageIndex
        PROVE  /\ n.aged[t] => n.stage[t] \in {"waiting", "stopped", "succeeded", "failed"}
               /\ n.elapsed[t] /\ n.members[t] # {} => n.rested[t]
               /\ n.stage[t] = "succeeded" /\ n.members[t] # {} /\ Stages[t].wait => n.rested[t]
    BY <1>1 DEF StagesInOrder
  <2>2. \A a, b \in 1..DeleteStage : a # b => n.members[a] \cap n.members[b] = {}
    BY <1>1 DEF StagesInOrder
  <2> QED BY <1>1, <1>3, <2>1, <2>2 DEF StagesInOrder
<1>5. ApprovalsNoted(n, given, asked)
  BY SMTT(120), <1>1, <1>3 DEF ApprovalsNoted
<1>6. DeletionApproved(m) => DeletionApproved(n)
  BY <1>1 DEF DeletionApproved
<1> QED BY <1>0, <1>4, <1>5, <1>6 DEF n

\* Time passes: what was said of the time a stage has waited stays true.
LEMMA AgingKeeps ==
    ASSUME NEW m \in RunObj, NEW n, n = Aging(m)
    PROVE  /\ n \in RunObj
           /\ n.init = m.init /\ n.members = m.members /\ n.cluster = m.cluster
           /\ n.stage = m.stage /\ (n.begun <=> m.begun) /\ n.task = m.task /\ n.done = m.done
           /\ StagesInOrder(m) => StagesInOrder(n)
<1> DEFINE aged == [s \in StageIndex |->
                      m.aged[s] \/ (Stages[s].wait /\ m.stage[s] \in {"waiting", "stopped"})]
           rested == [s \in StageIndex |->
                      \/ m.rested[s]
                      \/ /\ Stages[s].wait
                         /\ \A c \in m.members[s] : m.cluster[c] = "succeeded"
                         /\ m.members[s] # {}]
<1>1. n = [m EXCEPT !.aged = aged, !.rested = rested]
  BY DEF Aging
<1>2. /\ aged \in [StageIndex -> BOOLEAN] /\ rested \in [StageIndex -> BOOLEAN]
      /\ \A s \in StageIndex :
            /\ aged[s] <=> m.aged[s] \/ (Stages[s].wait /\ m.stage[s] \in {"waiting", "stopped"})
            /\ m.rested[s] => rested[s]
            /\ /\ Stages[s].wait /\ m.members[s] # {}
               /\ \A c \in m.members[s] : m.cluster[c] = "succeeded"
               => rested[s]
  <2>1. ASSUME NEW s \in StageIndex PROVE m.aged[s] \in BOOLEAN /\ m.rested[s] \in BOOLEAN
    BY DEF RunObj
  <2>2. aged \in [StageIndex -> BOOLEAN] /\ rested \in [StageIndex -> BOOLEAN]
    BY <2>1
  <2>3. ASSUME NEW s \in StageIndex
        PROVE  /\ aged[s] <=> m.aged[s] \/ (Stages[s].wait /\ m.stage[s] \in {"waiting", "stopped"})
               /\ m.rested[s] => rested[s]
               /\ /\ Stages[s].wait /\ m.members[s] # {}
                  /\ \A c \in m.members[s] : m.cluster[c] = "succeeded"
                  => rested[s]
    BY <2>1
  <2> QED BY <2>2, <2>3
<1> HIDE DEF aged, rested
<1>3. /\ n.init = m.init /\ n.members = m.members /\ n.cluster = m.cluster
      /\ n.stage = m.stage /\ (n.begun <=> m.begun) /\ n.task = m.task /\ n.done = m.done
      /\ n.elapsed = m.elapsed /\ n.aged = aged /\ n.rested = rested
  BY <1>1 DEF RunObj
<1>4. n \in RunObj
  <2> DEFINE k == [m EXCEPT !.aged = aged]
  <2>1. k \in RunObj
    BY <1>2 DEF RunObj
  <2>2. n = [k EXCEPT !.rested = rested]
    BY <1>1 DEF RunObj
  <2>3. rested \in [StageIndex -> BOOLEAN]
    BY <1>2
  <2> HIDE DEF k
  <2>4. [k EXCEPT !.rested = rested] \in RunObj
    BY <2>1, <2>3 DEF RunObj
  <2> QED BY <2>2, <2>4
<1>5. ASSUME StagesInOrder(m) PROVE StagesInOrder(n)
  <2>1. ASSUME NEW s \in StageIndex
        PROVE  /\ n.stage[s] \in {"waiting", "stopped", "succeeded"} => Unfinished(n, s) = {}
               /\ n.aged[s] => n.stage[s] \in {"waiting", "stopped", "succeeded", "failed"}
               /\ /\ n.aged[s] /\ n.members[s] # {}
                  /\ \A c \in n.members[s] : n.cluster[c] = "succeeded"
                  => n.rested[s]
               /\ n.elapsed[s] /\ n.members[s] # {} => n.rested[s]
               /\ n.stage[s] = "succeeded" /\ n.members[s] # {} /\ Stages[s].wait => n.rested[s]
    BY SMTT(120), <1>2, <1>3, <1>5 DEF StagesInOrder, Unfinished
  <2>2. \A a, b \in 1..DeleteStage : a # b => n.members[a] \cap n.members[b] = {}
    BY <1>3, <1>5 DEF StagesInOrder
  <2> QED BY SMTT(120), <1>3, <1>5, <2>1, <2>2 DEF StagesInOrder
<1> QED BY <1>3, <1>4, <1>5

----------------------------------------------------------------------------
(* The steps of a reconciliation.                                          *)

\* The reconciliation is over and its status is sound.
LEMMA RecordKeeps ==
    ASSUME NEW j \in Job, NEW m \in RunObj,
           NEW k, k = [j EXCEPT !.pc = "record", !.mem = m],
           NEW stored, NEW given, NEW asked, Sound(m, given, asked)
    PROVE  k \in Job /\ k.pc = "record" /\ k.run = j.run /\ JobInOrder(k, stored, given, asked)
<1>1. k \in Job
  BY DEF Job
<1>2. k.pc = "record" /\ k.run = j.run /\ k.mem = m
  BY DEF Job
<1> QED BY <1>1, <1>2 DEF JobInOrder

\* stopUpdatingStage: the stage is stopping, or stopped when no cluster is under way.
LEMMA StopStageKeeps ==
    ASSUME NEW j \in Job, NEW stored, About(j, stored), j.stage \in StageIndex,
           NEW given, NEW asked, Sound(j.mem, given, asked)
    PROVE  StopStage(j) \in RunObj /\ Sound(StopStage(j), given, asked)
<1> DEFINE s == j.stage
           k == MarkRun(j.mem, "stopping")
           m == MarkStage(k, s, "stopping")
           up == {c \in Unfinished(m, s) : Updated(j.view[c])}
           stopped == MarkCluster(m, up, "succeeded")
           halted == MarkStage(stopped, s, "stopped")
<1>0. s \in 1..DeleteStage /\ j.mem \in RunObj /\ j.mem.init = "ok"
  BY Indices DEF Job, About
<1>1. k \in RunObj /\ Sound(k, given, asked) /\ k.init = "ok"
  BY SMTT(120), <1>0, MarkRunType, MarkRunAlike, AlikeSound DEF Sound, Alike
<1> HIDE DEF k
<1>2. /\ m \in RunObj /\ Sound(m, given, asked)
      /\ m.init = "ok" /\ m.stage[s] = "stopping" /\ m.members = k.members
      /\ m.task = k.task /\ m.cluster = k.cluster
  <2>1. "stopping" \in StageReason
    BY DEF StageReason
  <2>2. m \in RunObj /\ Sound(m, given, asked)
    BY <1>0, <1>1, <2>1, MarkStageKeeps DEF Sound
  <2>3. m.init = "ok" /\ m.stage[s] = "stopping" /\ m.members = k.members
        /\ m.task = k.task /\ m.cluster = k.cluster
    BY SMTT(120), <1>0, <1>1, <2>1, MarkStageFields
  <2> QED BY <2>2, <2>3
<1> HIDE DEF m
<1>3. /\ stopped \in RunObj /\ Sound(stopped, given, asked) /\ stopped.init = "ok"
  <2>1. up \subseteq m.members[s] /\ "succeeded" \in ClusterReason
    BY DEF Unfinished, ClusterReason
  <2>2. ~m.aged[s]
    BY <1>2 DEF Sound, StagesInOrder
  <2>3. up # {} /\ Stages[s].before => m.task[<<s, "before">>] = "approved"
    BY <1>2 DEF Sound, ApprovalsNoted, Unfinished
  <2>4. stopped.init = "ok"
    BY SMTT(120), <1>2, MarkClusterFields
  <2> HIDE DEF up
  <2> QED BY <1>0, <1>2, <2>1, <2>2, <2>3, <2>4, MarkClusterKeeps DEF Sound
<1> HIDE DEF stopped
<1>4. ASSUME Unfinished(stopped, s) = {}
      PROVE  halted \in RunObj /\ Sound(halted, given, asked)
  BY <1>0, <1>3, <1>4, MarkStageKeeps DEF Sound, StageReason
<1> HIDE DEF halted
<1>5. ASSUME Unfinished(stopped, s) = {}
      PROVE  /\ MarkRun(halted, "stopped") \in RunObj
             /\ Sound(MarkRun(halted, "stopped"), given, asked)
  BY <1>4, <1>5, MarkRunType, MarkRunAlike, AlikeSound DEF Sound
<1>6. StopStage(j) = IF Unfinished(stopped, s) = {} THEN MarkRun(halted, "stopped") ELSE stopped
  BY DEF StopStage, halted, stopped, m, k
<1> QED BY <1>3, <1>5, <1>6

\* stopDeleteStage: likewise, and a deletion that went wrong ends the run.
LEMMA StopDeletionKeeps ==
    ASSUME NEW j \in Job, NEW stored, About(j, stored), j.stage = DeleteStage,
           NEW given, NEW asked, Sound(j.mem, given, asked)
    PROVE  StopDeletion(j) \in RunObj /\ Sound(StopDeletion(j), given, asked)
<1> DEFINE s == DeleteStage
           k == MarkRun(j.mem, "stopping")
           m == MarkStage(k, s, "stopping")
           done == SyncDeletion(m, j.view)
           halted == MarkStage(done, s, "stopped")
           failed == MarkStage(m, s, "failed")
<1>0. /\ s \in 1..DeleteStage /\ s \notin StageIndex /\ j.mem \in RunObj /\ j.mem.init = "ok"
      /\ {"stopping", "stopped", "failed"} \subseteq StageReason /\ "succeeded" \in ClusterReason
  BY Indices DEF Job, About, StageReason, ClusterReason
<1>1. k \in RunObj /\ Sound(k, given, asked) /\ k.init = "ok"
  BY SMTT(120), <1>0, MarkRunType, MarkRunAlike, AlikeSound DEF Sound, Alike
<1> HIDE DEF k
<1>2. m \in RunObj /\ Sound(m, given, asked) /\ m.init = "ok"
  BY SMTT(120), <1>0, <1>1, MarkStageKeeps, MarkStageFields DEF Sound
<1> HIDE DEF m
<1>3. done \in RunObj /\ Sound(done, given, asked) /\ done.init = "ok"
  <2> DEFINE S == m.members[s] \ Removed(j.view)
  <2>1. S \subseteq m.members[s] /\ done = MarkCluster(m, S, "succeeded")
    BY DEF SyncDeletion
  <2> HIDE DEF S, done
  <2>2. done \in RunObj /\ Sound(done, given, asked)
    BY <1>0, <1>2, <2>1, MarkClusterKeeps DEF Sound
  <2>3. done.init = "ok"
    BY SMTT(120), <1>2, <2>1, MarkClusterFields
  <2> QED BY <2>2, <2>3
<1> HIDE DEF done
<1>4. /\ halted \in RunObj /\ Sound(halted, given, asked)
      /\ failed \in RunObj /\ Sound(failed, given, asked)
  BY <1>0, <1>2, <1>3, MarkStageKeeps DEF Sound
<1>41. failed.init = "ok"
  BY SMTT(120), <1>0, <1>2, MarkStageFields
<1> HIDE DEF halted, failed
<1>5. /\ MarkRun(halted, "stopped") \in RunObj
      /\ Sound(MarkRun(halted, "stopped"), given, asked)
  BY <1>4, MarkRunType, MarkRunAlike, AlikeSound DEF Sound
<1>6. /\ Failed(failed, "unexpected") \in RunObj
      /\ Sound(Failed(failed, "unexpected"), given, asked)
  BY <1>4, <1>41, FailedType, FailedAlike, AlikeSound DEF Sound
<1>7. StopDeletion(j) \in {Failed(failed, "unexpected"), MarkRun(halted, "stopped"), done}
  BY DEF StopDeletion, failed, halted, done, m, k
<1> QED BY <1>3, <1>5, <1>6, <1>7

\* What a validated reconciliation does next keeps everything in order.
LEMMA DispatchKeeps ==
    ASSUME NEW j \in Job, j.run \in Run, NEW stored, About(j, stored), j.finished = 0,
           NEW given, NEW asked, Sound(j.mem, given, asked)
    PROVE  /\ Dispatch(j) \in Job
           /\ Dispatch(j).pc # "idle" =>
                 /\ Dispatch(j).run = j.run
                 /\ JobInOrder(Dispatch(j), stored, given, asked)
<1> DEFINE s == j.stage
           m == Progressing(j.mem)
<1>0. s \in 1..DeleteStage /\ j.mem \in RunObj /\ j.mem.init = "ok" /\ j.mem.done = "none"
  BY DEF Job, About
<1>1. m \in RunObj /\ Sound(m, given, asked) /\ Alike(j.mem, m) /\ m.done = "none"
  <2>1. m \in RunObj /\ Alike(j.mem, m) /\ m.done = j.mem.done
    BY <1>0, MarkRunType, MarkRunAlike
  <2> QED BY <1>0, <2>1, AlikeSound DEF Sound
<1> HIDE DEF m
<1>2. CASE j.mem.state = "Initialize"
  <2>1. Dispatch(j) = Idle
    BY <1>2 DEF Dispatch
  <2> QED BY SMTT(120), <2>1, IdleType DEF Idle
<1>3. CASE j.mem.state # "Initialize" /\ j.mem.state = "Stop"
  <2> DEFINE n == IF s = DeleteStage THEN StopDeletion(j) ELSE StopStage(j)
  <2>1. n \in RunObj /\ Sound(n, given, asked)
    <3>1. CASE s = DeleteStage
      BY <3>1, StopDeletionKeeps
    <3>2. CASE s # DeleteStage
      <4>1. s \in StageIndex
        BY <1>0, <3>2, Indices
      <4> QED BY <3>2, <4>1, StopStageKeeps
    <3> QED BY <3>1, <3>2
  <2>2. Dispatch(j) = [j EXCEPT !.pc = "record", !.mem = n]
    BY <1>3 DEF Dispatch
  <2> HIDE DEF n
  <2> QED BY <2>1, <2>2, RecordKeeps
<1>4. CASE j.mem.state \notin {"Initialize", "Stop"} /\ s # DeleteStage /\ j.mem.members[s] = {}
  <2> DEFINE n == MarkStage(m, s, "succeeded")
  <2>1. s \in StageIndex /\ "succeeded" \in StageReason /\ m.members[s] = {} /\ m.init = "ok"
    BY <1>0, <1>1, <1>4, Indices DEF StageReason, Alike
  <2>2. Unfinished(m, s) = {} /\ MaySucceed(m, s)
    BY <2>1 DEF Unfinished, MaySucceed
  <2>3. n \in RunObj /\ Sound(n, given, asked)
    BY <1>0, <1>1, <2>1, <2>2, MarkStageKeeps DEF Sound
  <2>4. Dispatch(j) = [j EXCEPT !.pc = "record", !.mem = n]
    BY <1>4 DEF Dispatch, m
  <2> HIDE DEF n
  <2> QED BY <2>3, <2>4, RecordKeeps
<1>5. CASE /\ j.mem.state \notin {"Initialize", "Stop"}
           /\ ~(s # DeleteStage /\ j.mem.members[s] = {})
  <2> DEFINE T == m.members[s]
             k == [j EXCEPT !.pc = "before", !.mem = m, !.todo = T]
  <2>1. Dispatch(j) = k
    BY <1>5 DEF Dispatch, m
  <2>2. T \in SUBSET Cluster
    <3>1. m.members \in [1..DeleteStage -> SUBSET Cluster]
      BY <1>1 DEF RunObj
    <3> QED BY <1>0, <3>1
  <2> HIDE DEF T
  <2>3. k \in Job
    BY <1>1, <2>2 DEF Job
  <2>4. /\ k.pc = "before" /\ k.run = j.run /\ k.stage = s /\ k.mem = m /\ k.todo = T
        /\ k.finished = 0
    BY DEF Job
  <2> HIDE DEF k
  <2>5. About(k, stored)
    BY SMTT(120), <1>1, <2>4 DEF About, Alike, T
  <2>6. JobInOrder(k, stored, given, asked)
    BY <1>1, <2>4, <2>5 DEF JobInOrder
  <2> QED BY <2>1, <2>3, <2>4, <2>6
<1> QED BY <1>2, <1>3, <1>4, <1>5

\* The count of updated clusters is right when a cluster has had its turn.
LEMMA CountKeeps ==
    ASSUME NEW M \in SUBSET Cluster, NEW T \in SUBSET Cluster, NEW c \in T, c \in M,
           NEW f, NEW g, \A d \in Cluster : d # c => g[d] = f[d],
           NEW n \in Nat, n <= Cardinality({d \in M \ T : f[d] = "succeeded"})
    PROVE  /\ n <= Cardinality({d \in M \ (T \ {c}) : g[d] = "succeeded"})
           /\ g[c] = "succeeded" => n + 1 <= Cardinality({d \in M \ (T \ {c}) : g[d] = "succeeded"})
<1> DEFINE A == {d \in M \ T : f[d] = "succeeded"}
           B == {d \in M \ (T \ {c}) : g[d] = "succeeded"}
<1>1. IsFiniteSet(Cluster) /\ A \subseteq Cluster /\ B \subseteq Cluster
  BY UpdateRunAssumption DEF UpdateRunAssumption
<1>2. IsFiniteSet(A) /\ IsFiniteSet(B)
  BY <1>1, FS_Subset
<1>3. A \subseteq B /\ c \notin A /\ (g[c] = "succeeded" => A \cup {c} \subseteq B)
  OBVIOUS
<1> HIDE DEF A, B
<1>4. Cardinality(A) \in Nat /\ Cardinality(B) \in Nat
  BY <1>2, FS_CardinalityType
<1>5. Cardinality(A) <= Cardinality(B)
  BY <1>2, <1>3, FS_Subset
<1>6. g[c] = "succeeded" => Cardinality(A) + 1 <= Cardinality(B)
  <2>1. IsFiniteSet(A \cup {c}) /\ Cardinality(A \cup {c}) = Cardinality(A) + 1
    BY <1>2, <1>3, FS_AddElement
  <2>2. g[c] = "succeeded" => Cardinality(A \cup {c}) <= Cardinality(B)
    BY <1>2, <1>3, FS_Subset
  <2> QED BY <2>1, <2>2
<1>7. n <= Cardinality(A)
  BY DEF A
<1>8. n <= Cardinality(B) /\ (g[c] = "succeeded" => n + 1 <= Cardinality(B))
  BY SMTT(120), <1>4, <1>5, <1>6, <1>7
<1> QED BY <1>8 DEF B

\* A cluster has had its turn.
LEMMA TurnKeeps ==
    ASSUME NEW j \in Job, NEW stored, About(j, stored), Entered(j), Counted(j),
           NEW given, NEW asked, NEW c \in j.todo,
           NEW m \in RunObj, Sound(m, given, asked), m.init = "ok", m.done = "none",
           m.members = j.mem.members, m.task = j.mem.task,
           m.stage[j.stage] \notin {"succeeded", "failed"},
           \A d \in Cluster : d # c => m.cluster[d] = j.mem.cluster[d],
           NEW k, k.stage = j.stage, k.mem = m, k.pc = "clusters",
           k.todo = j.todo \ {c},
           \/ k.finished = j.finished
           \/ k.finished = j.finished + 1 /\ m.cluster[c] = "succeeded"
    PROVE  JobInOrder(k, stored, given, asked)
<1> DEFINE M == j.mem.members[j.stage]
<1>1. M \in SUBSET Cluster /\ j.todo \in SUBSET Cluster /\ c \in M /\ j.finished \in Nat
  <2>1. /\ j.mem \in RunObj /\ j.stage \in 1..DeleteStage /\ j.finished \in Nat
        /\ j.todo \in SUBSET Cluster
    BY DEF Job
  <2>2. j.mem.members \in [1..DeleteStage -> SUBSET Cluster]
    BY <2>1 DEF RunObj
  <2> QED BY <2>1, <2>2 DEF About
<1>2. About(k, stored)
  BY DEF About
<1>3. Entered(k)
  BY DEF Entered
<1>4. Counted(k)
  <2>1. j.finished <= Cardinality({d \in M \ j.todo : j.mem.cluster[d] = "succeeded"})
    BY DEF Counted
  <2>2. /\ j.finished <= Cardinality({d \in M \ (j.todo \ {c}) : m.cluster[d] = "succeeded"})
        /\ m.cluster[c] = "succeeded" => j.finished + 1 <=
              Cardinality({d \in M \ (j.todo \ {c}) : m.cluster[d] = "succeeded"})
    <3> DEFINE f == j.mem.cluster
               g == m.cluster
               n == j.finished
               T == j.todo
    <3>1. /\ M \in SUBSET Cluster /\ T \in SUBSET Cluster /\ c \in T /\ c \in M /\ n \in Nat
          /\ \A d \in Cluster : d # c => g[d] = f[d]
          /\ n <= Cardinality({d \in M \ T : f[d] = "succeeded"})
      BY <1>1, <2>1
    <3> HIDE DEF f, g, n, T, M
    <3>2. /\ n <= Cardinality({d \in M \ (T \ {c}) : g[d] = "succeeded"})
          /\ g[c] = "succeeded" =>
                n + 1 <= Cardinality({d \in M \ (T \ {c}) : g[d] = "succeeded"})
      BY SMTT(120), <3>1, CountKeeps
    <3> QED BY <3>2 DEF f, g, n, T
  <2>3. k.finished <= Cardinality({d \in M \ (j.todo \ {c}) : m.cluster[d] = "succeeded"})
    BY <2>2
  <2> QED BY <2>3 DEF Counted
<1> QED BY <1>2, <1>3, <1>4 DEF JobInOrder

\* The rollout of a cluster is announced: the stage is under way.
LEMMA StartedKeeps ==
    ASSUME NEW j \in Job, NEW stored, About(j, stored), Entered(j),
           NEW given, NEW asked, Sound(j.mem, given, asked),
           NEW c \in j.todo,
           NEW m, m = MarkStage(MarkCluster(j.mem, {c}, "started"), j.stage, "started")
    PROVE  /\ m \in RunObj /\ Sound(m, given, asked)
           /\ m.init = "ok" /\ m.done = "none" /\ m.members = j.mem.members
           /\ m.task = j.mem.task /\ m.stage[j.stage] = "started" /\ ~m.aged[j.stage]
           /\ \A d \in Cluster : d # c => m.cluster[d] = j.mem.cluster[d]
<1> DEFINE s == j.stage
           k == MarkCluster(j.mem, {c}, "started")
           a == MarkStage(j.mem, s, "started")
           b == MarkCluster(a, {c}, "started")
<1>0. /\ j.mem \in RunObj /\ s \in 1..DeleteStage /\ s \in StageIndex /\ c \in Cluster
      /\ c \in j.mem.members[s] /\ "started" \in StageReason /\ "started" \in ClusterReason
      /\ j.mem.init = "ok" /\ j.mem.done = "none"
  BY DEF Job, About, Entered, StageReason, ClusterReason
<1>1. k \in RunObj
  BY <1>0, MarkClusterType
<1>2. a \in RunObj /\ Sound(a, given, asked)
  BY <1>0, MarkStageKeeps DEF Sound
<1>3. /\ a.init = "ok" /\ a.members = j.mem.members /\ a.task = j.mem.task
      /\ a.stage[s] = "started" /\ a.done = "none" /\ a.cluster = j.mem.cluster
  BY SMTT(120), <1>0, MarkStageFields
<1>4. ~a.aged[s]
  BY <1>0, <1>2, <1>3 DEF Sound, StagesInOrder
<1> HIDE DEF a
<1>5. b \in RunObj /\ Sound(b, given, asked)
  <2>1. {c} \subseteq a.members[s] /\ (Stages[s].before => a.task[<<s, "before">>] = "approved")
    BY <1>0, <1>3 DEF Entered
  <2> QED BY <1>0, <1>2, <1>3, <2>1, MarkClusterKeeps DEF Sound
<1>6. /\ b.init = "ok" /\ b.members = j.mem.members /\ b.task = j.mem.task
      /\ b.stage = a.stage /\ b.done = "none" /\ b.aged = a.aged
      /\ \A d \in Cluster : d # c => b.cluster[d] = a.cluster[d]
  BY SMTT(120), <1>2, <1>3, MarkClusterFields
<1>7. m = b
  <2> DEFINE C == [d \in Cluster |-> IF d \in {c} THEN "started" ELSE j.mem.cluster[d]]
             S == [j.mem.stage EXCEPT ![s] = "started"]
             A == IF s # DeleteStage /\ Status(j.mem.stage[s]) # Status("started")
                  THEN [j.mem.aged EXCEPT ![s] = FALSE] ELSE j.mem.aged
  <2>1. k = [j.mem EXCEPT !.cluster = C]
    BY DEF MarkCluster
  <2>2. a = [j.mem EXCEPT !.stage = S, !.aged = A]
    BY DEF MarkStage, a
  <2>3. b = [a EXCEPT !.cluster = C]
    BY <1>3 DEF MarkCluster
  <2>4. k.stage = j.mem.stage /\ k.aged = j.mem.aged
    BY SMTT(120), <1>0, MarkClusterFields
  <2> HIDE DEF k
  <2>5. m = [k EXCEPT !.stage = S, !.aged = A]
    BY <2>4 DEF MarkStage, k
  <2> HIDE DEF b, C, S, A
  <2> QED BY <1>0, <2>1, <2>2, <2>3, <2>5 DEF RunObj
<1> QED BY <1>3, <1>4, <1>5, <1>6, <1>7

----------------------------------------------------------------------------
(* The actions of the controller.                                          *)

WorldTypes ==
    /\ bind \in [Cluster -> BindingObj] /\ seen \in [Cluster -> BindingObj]
    /\ synced \subseteq Cluster /\ placed \in PlacementObj
    /\ flight \in [Run -> SUBSET Cluster] /\ budget \in Budget

\* The run the reconciliation is about, its approvals and its requests.
Stored == run[job.run]
Given == granted[job.run]
Asks == request[job.run]

\* The types, as the steps use them.
LEMMA WorldOfInvariant ==
    ASSUME StageInvariant
    PROVE  /\ WorldTypes /\ job \in Job /\ run \in [Run -> RunObj]
           /\ request \in [Run -> [Task -> Request]] /\ granted \in [Run -> SUBSET Task]
BY DEF StageInvariant, TypeOK, WorldTypes

\* A step that changes the reconciliation, and perhaps bindings, only.
LEMMA JobStepKeeps ==
    ASSUME StageInvariant, UNCHANGED <<run, request, granted>>, WorldTypes',
           NEW k, job' = k, k \in Job,
           k.pc # "idle" =>
              k.run \in Run /\ JobInOrder(k, run[k.run], granted[k.run], request[k.run])
    PROVE  StageInvariant'
<1>1. TypeOK'
  BY WorldOfInvariant DEF TypeOK, WorldTypes
<1>2. \A r \in Run : /\ Sound(run'[r], granted'[r], request'[r])
                     /\ \A t \in Task : request'[r][t] \in {"approved", "accepted"}
                                        => t \in granted'[r]
  BY DEF StageInvariant
<1>3. job'.pc # "idle" =>
         job'.run \in Run /\ JobInOrder(job', run'[job'.run], granted'[job'.run], request'[job'.run])
  OBVIOUS
<1> QED BY <1>1, <1>2, <1>3 DEF StageInvariant

\* What holds when a cluster has its turn.
LEMMA TurnFacts ==
    ASSUME StageInvariant, job.pc \in {"clusters", "start"}
    PROVE  /\ job \in Job /\ job.run \in Run /\ job.mem \in RunObj
           /\ About(job, Stored) /\ Entered(job) /\ Counted(job)
           /\ Sound(job.mem, Given, Asks)
           /\ job.todo \in SUBSET Cluster
           /\ job.todo \subseteq job.mem.members[job.stage]
           /\ job.stage \in StageIndex /\ job.stage \in 1..DeleteStage
           /\ job.mem.init = "ok" /\ job.mem.done = "none"
           /\ job.mem.stage[job.stage] \notin {"succeeded", "failed"}
<1>1. job \in Job
  BY WorldOfInvariant
<1>2. job.run \in Run /\ JobInOrder(job, Stored, Given, Asks)
  BY DEF StageInvariant, Stored, Given, Asks
<1>3. About(job, Stored) /\ Entered(job) /\ Counted(job) /\ Sound(job.mem, Given, Asks)
  BY <1>2 DEF JobInOrder
<1>4. job.mem \in RunObj /\ job.todo \in SUBSET Cluster /\ job.stage \in 1..DeleteStage
  BY <1>1 DEF Job
<1> QED BY <1>1, <1>2, <1>3, <1>4 DEF About, Entered

\* The cluster whose turn it is has not been looked at yet.
LEMMA TurnOf ==
    ASSUME StageInvariant, NEW c, Turn(c)
    PROVE  job.pc = "clusters" /\ c \in job.todo /\ c \in Cluster
<1>1. job.pc = "clusters" /\ job.todo # {} /\ c = First(job.todo)
  BY DEF Turn, LoopEnds
<1>2. job.todo \in SUBSET Cluster
  BY <1>1, TurnFacts
<1> QED BY <1>1, <1>2, FirstOf

\* A turn that ends with the reconciliation k.
LEMMA TurnEnds ==
    ASSUME StageInvariant, job.pc \in {"clusters", "start"}, NEW c \in job.todo,
           UNCHANGED <<run, request, granted>>, WorldTypes',
           NEW m \in RunObj, Sound(m, Given, Asks), m.init = "ok", m.done = "none",
           m.members = job.mem.members, m.task = job.mem.task,
           m.stage[job.stage] \notin {"succeeded", "failed"},
           \A d \in Cluster : d # c => m.cluster[d] = job.mem.cluster[d],
           NEW k \in Job, job' = k, k.run = job.run, k.stage = job.stage, k.mem = m,
           k.pc = "clusters", k.todo = job.todo \ {c},
           \/ k.finished = job.finished
           \/ k.finished = job.finished + 1 /\ m.cluster[c] = "succeeded"
    PROVE  StageInvariant'
<1>1. /\ job \in Job /\ job.run \in Run /\ About(job, Stored) /\ Entered(job) /\ Counted(job)
  BY TurnFacts
<1>2. JobInOrder(k, Stored, Given, Asks)
  BY <1>1, TurnKeeps
<1>3. JobInOrder(k, run[k.run], granted[k.run], request[k.run])
  BY <1>2 DEF Stored, Given, Asks
<1> QED BY <1>1, <1>3, JobStepKeeps

\* executeUpdatingStage: a cluster that was updated before is counted.
LEMMA SkipSucceededStep ==
    ASSUME StageInvariant, NEW c, SkipSucceeded(c)
    PROVE  StageInvariant'
<1> DEFINE n == job.finished + 1
           k == [job EXCEPT !.todo = @ \ {c}, !.finished = n]
<1>0. Turn(c) /\ job.mem.cluster[c] = "succeeded" /\ job' = k
      /\ UNCHANGED <<world, run, request, ghosts>>
  BY DEF SkipSucceeded
<1>1. job.pc = "clusters" /\ c \in job.todo /\ c \in Cluster
  BY <1>0, TurnOf
<1>2. /\ job \in Job /\ job.run \in Run /\ job.mem \in RunObj /\ Sound(job.mem, Given, Asks)
      /\ job.mem.init = "ok" /\ job.mem.done = "none"
      /\ job.mem.stage[job.stage] \notin {"succeeded", "failed"}
  BY <1>1, TurnFacts
<1>3. UNCHANGED <<run, request, granted>> /\ WorldTypes'
  BY <1>0, WorldOfInvariant DEF world, ghosts, WorldTypes
<1>4. n \in Nat
  BY SMTT(120), <1>2 DEF Job
<1> HIDE DEF n
<1>5. k \in Job
  BY <1>2, <1>4 DEF Job
<1>6. /\ k.run = job.run /\ k.stage = job.stage /\ k.mem = job.mem /\ k.pc = job.pc
      /\ k.todo = job.todo \ {c} /\ k.finished = n
  BY <1>2 DEF Job
<1> HIDE DEF k
<1> QED BY <1>0, <1>1, <1>2, <1>3, <1>5, <1>6, TurnEnds DEF n

\* Writes of bindings keep the types.
LEMMA WriteTypes ==
    ASSUME WorldTypes, NEW c \in Cluster, NEW b \in BindingObj, Write(c, b)
    PROVE  /\ bind' \in [Cluster -> BindingObj] /\ seen' \in [Cluster -> BindingObj]
           /\ synced' \subseteq Cluster
BY DEF WorldTypes, Write

\* The ghost of the bindings under way keeps its type.
LEMMA TakesTypes ==
    ASSUME WorldTypes, NEW c \in Cluster, NEW r, Takes(r, c) \/ Lands(c)
    PROVE  flight' \in [Run -> SUBSET Cluster]
BY DEF WorldTypes, Takes, Lands

\* The rollout of a cluster is announced, or not yet.
LEMMA StartPcKeeps ==
    ASSUME StageInvariant, job.pc = "clusters", job.todo # {},
           UNCHANGED <<run, request, granted>>, WorldTypes',
           NEW k \in Job, job' = k, k.run = job.run, k.stage = job.stage, k.mem = job.mem,
           k.pc = "start", k.todo = job.todo, k.finished = job.finished
    PROVE  StageInvariant'
<1>1. /\ job.run \in Run /\ About(job, Stored) /\ Entered(job) /\ Counted(job)
      /\ Sound(job.mem, Given, Asks)
  BY TurnFacts
<1>2. About(k, Stored) /\ Entered(k) /\ Counted(k)
  BY <1>1 DEF About, Entered, Counted
<1>3. JobInOrder(k, run[k.run], granted[k.run], request[k.run])
  BY <1>1, <1>2 DEF JobInOrder, Stored, Given, Asks
<1> QED BY <1>1, <1>3, JobStepKeeps

\* executeUpdatingStage: the binding is right, its rollout is yet to be announced.
LEMMA AnnounceLateStep ==
    ASSUME StageInvariant, NEW c, AnnounceLate(c)
    PROVE  StageInvariant'
<1> DEFINE n == job.updating + 1
           k == [job EXCEPT !.pc = "start", !.updating = n]
<1>0. Turn(c) /\ job' = k /\ UNCHANGED <<world, run, request, ghosts>>
  BY DEF AnnounceLate
<1>1. job.pc = "clusters" /\ c \in job.todo
  BY <1>0, TurnOf
<1>2. job \in Job /\ UNCHANGED <<run, request, granted>> /\ WorldTypes'
  BY <1>0, WorldOfInvariant DEF world, ghosts, WorldTypes
<1>3. n \in Nat
  BY SMTT(120), <1>2 DEF Job
<1> HIDE DEF n
<1>4. k \in Job
  BY <1>2, <1>3 DEF Job
<1>5. /\ k.run = job.run /\ k.stage = job.stage /\ k.mem = job.mem /\ k.pc = "start"
      /\ k.todo = job.todo /\ k.finished = job.finished
  BY <1>2 DEF Job
<1> HIDE DEF k
<1> QED BY <1>0, <1>1, <1>2, <1>4, <1>5, StartPcKeeps

\* executeUpdatingStage: the binding is moved.
LEMMA UpdateBindingStep ==
    ASSUME StageInvariant, NEW c, UpdateBinding(c)
    PROVE  StageInvariant'
<1> DEFINE n == job.updating + 1
           raw == [job.view[c] EXCEPT !.state = "Bound", !.snap = Target[job.run]]
           new == NewGeneration(raw)
<1>0. Turn(c) /\ UNCHANGED <<placed, run, request, granted, budget>>
  BY DEF UpdateBinding
<1>1. job.pc = "clusters" /\ c \in job.todo /\ c \in Cluster
  BY <1>0, TurnOf
<1>2. /\ job \in Job /\ job.run \in Run /\ job.mem \in RunObj /\ Sound(job.mem, Given, Asks)
      /\ job.mem.init = "ok" /\ job.mem.done = "none"
      /\ job.mem.stage[job.stage] \notin {"succeeded", "failed"}
  BY <1>1, TurnFacts
<1>3. n \in Nat /\ WorldTypes
  BY SMTT(120), <1>2, WorldOfInvariant DEF Job
<1>4. new \in BindingObj
  <2>1. job.view[c] \in BindingObj /\ Target[job.run] \in Nat
    BY <1>1, <1>2, UpdateRunAssumption DEF Job, UpdateRunAssumption
  <2>2. raw \in BindingObj
    BY <2>1 DEF BindingObj
  <2> QED BY <2>2, NewGenerationType
<1>5. CASE c \in job.held
  <2> DEFINE k == [job EXCEPT !.pc = "start", !.updating = n, !.view[c] = new]
  <2>1. Write(c, new) /\ Takes(job.run, c) /\ job' = k
    BY <1>5 DEF UpdateBinding
  <2>2. WorldTypes'
    BY <1>0, <1>1, <1>3, <1>4, <2>1, WriteTypes, TakesTypes DEF WorldTypes
  <2> HIDE DEF n, new
  <2>3. k \in Job
    BY <1>1, <1>2, <1>3, <1>4 DEF Job
  <2>4. /\ k.run = job.run /\ k.stage = job.stage /\ k.mem = job.mem /\ k.pc = "start"
        /\ k.todo = job.todo /\ k.finished = job.finished
    BY <1>2 DEF Job
  <2> HIDE DEF k
  <2> QED BY <1>0, <1>1, <2>1, <2>2, <2>3, <2>4, StartPcKeeps
<1>6. CASE c \notin job.held
  <2> DEFINE k == [job EXCEPT !.todo = @ \ {c}, !.updating = n, !.err = TRUE]
  <2>1. job' = k /\ UNCHANGED <<bind, seen, synced, flight>>
    BY <1>6 DEF UpdateBinding
  <2>2. WorldTypes'
    BY <1>0, <1>3, <2>1 DEF WorldTypes
  <2> HIDE DEF n
  <2>3. k \in Job
    BY <1>2, <1>3 DEF Job
  <2>4. /\ k.run = job.run /\ k.stage = job.stage /\ k.mem = job.mem /\ k.pc = job.pc
        /\ k.todo = job.todo \ {c} /\ k.finished = job.finished
    BY <1>2 DEF Job
  <2> HIDE DEF k
  <2> QED BY <1>0, <1>1, <1>2, <2>1, <2>2, <2>3, <2>4, TurnEnds
<1> QED BY <1>5, <1>6

\* updateBindingRolloutStarted: the rollout is announced.
LEMMA StartRolloutStep ==
    ASSUME StageInvariant, StartRollout
    PROVE  StageInvariant'
<1> DEFINE c == First(job.todo)
<1>0. job.pc = "start" /\ UNCHANGED <<placed, run, request, granted, budget>>
  BY DEF StartRollout
<1>1. /\ job \in Job /\ job.run \in Run /\ job.mem \in RunObj /\ Sound(job.mem, Given, Asks)
      /\ About(job, Stored) /\ Entered(job) /\ job.todo \in SUBSET Cluster
      /\ job.mem.init = "ok" /\ job.mem.done = "none"
      /\ job.mem.stage[job.stage] \notin {"succeeded", "failed"}
  BY <1>0, TurnFacts
<1>2. c \in job.todo /\ c \in Cluster
  <2>1. job.todo # {}
    BY <1>0 DEF StageInvariant, JobInOrder
  <2> QED BY <1>1, <2>1, FirstOf
<1>3. WorldTypes
  BY WorldOfInvariant
<1>4. CASE c \in job.held
  <2> DEFINE m == Started(job.mem, c)
             k == [job EXCEPT !.pc = "clusters", !.todo = @ \ {c}, !.mem = m]
             b == [bind[c] EXCEPT !.started = TRUE]
  <2>1. Write(c, b) /\ Takes(job.run, c) /\ job' = k
    BY <1>4 DEF StartRollout
  <2>2. b \in BindingObj
    <3>1. bind[c] \in BindingObj
      BY <1>2, <1>3 DEF WorldTypes
    <3> QED BY <3>1 DEF BindingObj
  <2>3. WorldTypes'
    BY <1>0, <1>2, <1>3, <2>1, <2>2, WriteTypes, TakesTypes DEF WorldTypes
  <2>4. /\ m \in RunObj /\ Sound(m, Given, Asks)
        /\ m.init = "ok" /\ m.done = "none" /\ m.members = job.mem.members
        /\ m.task = job.mem.task /\ m.stage[job.stage] = "started"
        /\ \A d \in Cluster : d # c => m.cluster[d] = job.mem.cluster[d]
    <3>1. m = MarkStage(MarkCluster(job.mem, {c}, "started"), job.stage, "started")
      BY DEF Started
    <3> HIDE DEF m, c
    <3> QED BY SMTT(120), <1>1, <1>2, <3>1, StartedKeeps
  <2> HIDE DEF m, c
  <2>5. k \in Job
    BY <1>1, <2>4 DEF Job
  <2>6. /\ k.run = job.run /\ k.stage = job.stage /\ k.mem = m /\ k.pc = "clusters"
        /\ k.todo = job.todo \ {c} /\ k.finished = job.finished
    BY <1>1 DEF Job
  <2> HIDE DEF k
  <2> QED BY <1>0, <1>2, <2>1, <2>3, <2>4, <2>5, <2>6, TurnEnds
<1>5. CASE c \notin job.held
  <2> DEFINE k == [job EXCEPT !.pc = "clusters", !.todo = @ \ {c}, !.err = TRUE]
  <2>1. job' = k /\ UNCHANGED <<bind, seen, synced, flight>>
    BY <1>5 DEF StartRollout
  <2>2. WorldTypes'
    BY <1>0, <1>3, <2>1 DEF WorldTypes
  <2> HIDE DEF c
  <2>3. k \in Job
    BY <1>1 DEF Job
  <2>4. /\ k.run = job.run /\ k.stage = job.stage /\ k.mem = job.mem /\ k.pc = "clusters"
        /\ k.todo = job.todo \ {c} /\ k.finished = job.finished
    BY <1>1 DEF Job
  <2> HIDE DEF k
  <2> QED BY <1>0, <1>1, <1>2, <2>1, <2>2, <2>3, <2>4, TurnEnds
<1> QED BY <1>4, <1>5

----------------------------------------------------------------------------
(* Clusters in progress, the initialization, the record, and the deletion. *)

\* The rollout was announced before: the cluster is started, or even done.
LEMMA AlreadyStartedStep ==
    ASSUME StageInvariant, NEW c, AlreadyStarted(c)
    PROVE  StageInvariant'
<1> DEFINE b == job.view[c]
           m == Started(job.mem, c)
           up == MarkCluster(m, {c}, "succeeded")
           mem == IF Erring(b) THEN job.mem ELSE IF Updated(b) THEN up ELSE m
           n == job.updating + 1
           e == job.err \/ Erring(b)
           k == [job EXCEPT !.todo = @ \ {c}, !.updating = n, !.err = e, !.mem = mem]
<1>0. Turn(c) /\ UNCHANGED <<world, run, request, ghosts>>
  BY DEF AlreadyStarted
<1>1. job' = k
  <2>1. Erring(b) => ~Updated(b)
    BY DEF Erring, Updated
  <2> QED BY <2>1 DEF AlreadyStarted
<1>2. job.pc = "clusters" /\ c \in job.todo /\ c \in Cluster
  BY <1>0, TurnOf
<1>3. /\ job \in Job /\ job.run \in Run /\ job.mem \in RunObj /\ Sound(job.mem, Given, Asks)
      /\ About(job, Stored) /\ Entered(job)
      /\ job.mem.init = "ok" /\ job.mem.done = "none"
      /\ job.mem.stage[job.stage] \notin {"succeeded", "failed"}
      /\ job.stage \in StageIndex /\ job.stage \in 1..DeleteStage
      /\ job.todo \subseteq job.mem.members[job.stage]
  BY <1>2, TurnFacts
<1>4. UNCHANGED <<run, request, granted>> /\ WorldTypes'
  BY <1>0, WorldOfInvariant DEF world, ghosts, WorldTypes
<1>5. n \in Nat /\ e \in BOOLEAN
  BY SMTT(120), <1>3 DEF Job
<1>6. /\ m \in RunObj /\ Sound(m, Given, Asks)
      /\ m.init = "ok" /\ m.done = "none" /\ m.members = job.mem.members
      /\ m.task = job.mem.task /\ m.stage[job.stage] = "started" /\ ~m.aged[job.stage]
      /\ \A d \in Cluster : d # c => m.cluster[d] = job.mem.cluster[d]
  <2>1. m = MarkStage(MarkCluster(job.mem, {c}, "started"), job.stage, "started")
    BY DEF Started
  <2> HIDE DEF m
  <2>2. /\ job \in Job /\ About(job, Stored) /\ Entered(job) /\ Sound(job.mem, Given, Asks)
        /\ c \in job.todo
    BY <1>2, <1>3
  <2>3. /\ m \in RunObj /\ Sound(m, Given, Asks)
        /\ m.init = "ok" /\ m.done = "none" /\ m.members = job.mem.members
        /\ m.task = job.mem.task /\ m.stage[job.stage] = "started"
        /\ \A d \in Cluster : d # c => m.cluster[d] = job.mem.cluster[d]
    BY SMTT(120), <2>1, <2>2, StartedKeeps
  <2>4. ~m.aged[job.stage]
    BY <1>3, <2>3 DEF Sound, StagesInOrder
  <2> QED BY <2>3, <2>4
<1> HIDE DEF m
<1>7. /\ up \in RunObj /\ Sound(up, Given, Asks)
      /\ up.init = "ok" /\ up.done = "none" /\ up.members = job.mem.members
      /\ up.task = job.mem.task /\ up.stage[job.stage] = "started"
      /\ \A d \in Cluster : d # c => up.cluster[d] = job.mem.cluster[d]
  <2>1. /\ {c} \subseteq m.members[job.stage] /\ "succeeded" \in ClusterReason
        /\ Stages[job.stage].before => m.task[<<job.stage, "before">>] = "approved"
    <3>1. {c} \subseteq m.members[job.stage]
      BY <1>2, <1>3, <1>6
    <3>2. Stages[job.stage].before => m.task[<<job.stage, "before">>] = "approved"
      BY <1>3, <1>6 DEF Entered
    <3> QED BY <3>1, <3>2 DEF ClusterReason
  <2>2. up \in RunObj /\ Sound(up, Given, Asks)
    <3>1. StagesInOrder(m) /\ ApprovalsNoted(m, Given, Asks) /\ DeletionApproved(m)
      BY <1>6 DEF Sound
    <3>2. /\ up \in RunObj /\ StagesInOrder(up) /\ ApprovalsNoted(up, Given, Asks)
          /\ DeletionApproved(m) => DeletionApproved(up)
      BY <1>3, <1>6, <2>1, <3>1, MarkClusterKeeps
    <3> QED BY <3>1, <3>2 DEF Sound
  <2>3. /\ up.init = m.init /\ up.members = m.members /\ up.stage = m.stage
        /\ up.task = m.task /\ up.done = m.done
        /\ \A d \in Cluster : up.cluster[d] = IF d \in {c} THEN "succeeded" ELSE m.cluster[d]
    BY SMTT(120), <1>6, MarkClusterFields
  <2> QED BY <1>6, <2>2, <2>3
<1> HIDE DEF up
<1>8. /\ mem \in RunObj /\ Sound(mem, Given, Asks)
      /\ mem.init = "ok" /\ mem.done = "none" /\ mem.members = job.mem.members
      /\ mem.task = job.mem.task /\ mem.stage[job.stage] \notin {"succeeded", "failed"}
      /\ \A d \in Cluster : d # c => mem.cluster[d] = job.mem.cluster[d]
  BY <1>3, <1>6, <1>7
<1> HIDE DEF mem, n, e
<1>9. k \in Job
  BY <1>3, <1>5, <1>8 DEF Job
<1>10. /\ k.run = job.run /\ k.stage = job.stage /\ k.mem = mem /\ k.pc = job.pc
       /\ k.todo = job.todo \ {c} /\ k.finished = job.finished
  BY <1>3 DEF Job
<1> HIDE DEF k
<1> QED BY <1>1, <1>2, <1>4, <1>8, <1>9, <1>10, TurnEnds

\* The cluster is being updated: it is done, or not, or lost to another run.
LEMMA CheckStartedStep ==
    ASSUME StageInvariant, NEW c, CheckStarted(c)
    PROVE  StageInvariant'
<1> DEFINE b == job.view[c]
           ours == InSync(b) /\ b.state = "Bound" /\ b.started
           up == MarkCluster(job.mem, {c}, "succeeded")
           lost == MarkCluster(job.mem, {c}, "failed")
           n == job.updating + 1
           f == job.finished + 1
           e == job.err \/ Erring(b)
<1>0. Turn(c) /\ job.mem.cluster[c] = "started" /\ UNCHANGED <<world, run, request, ghosts>>
  BY DEF CheckStarted
<1>2. job.pc = "clusters" /\ c \in job.todo /\ c \in Cluster
  BY <1>0, TurnOf
<1>3. /\ job \in Job /\ job.run \in Run /\ job.mem \in RunObj /\ Sound(job.mem, Given, Asks)
      /\ Entered(job)
      /\ job.mem.init = "ok" /\ job.mem.done = "none"
      /\ job.mem.stage[job.stage] \notin {"succeeded", "failed"}
      /\ job.stage \in StageIndex /\ job.stage \in 1..DeleteStage
      /\ job.todo \subseteq job.mem.members[job.stage]
  BY <1>2, TurnFacts
<1>4. UNCHANGED <<run, request, granted>> /\ WorldTypes'
  BY <1>0, WorldOfInvariant DEF world, ghosts, WorldTypes
<1>5. n \in Nat /\ f \in Nat /\ e \in BOOLEAN
  BY SMTT(120), <1>3 DEF Job
<1>6. ~job.mem.aged[job.stage]
  <2>1. c \in Unfinished(job.mem, job.stage)
    BY <1>0, <1>2, <1>3 DEF Unfinished
  <2> QED BY <1>3, <2>1 DEF Sound, StagesInOrder
<1>7. ASSUME NEW m, NEW reason \in {"succeeded", "failed"},
             m = MarkCluster(job.mem, {c}, reason)
      PROVE  /\ m \in RunObj /\ Sound(m, Given, Asks)
             /\ m.init = "ok" /\ m.done = "none" /\ m.members = job.mem.members
             /\ m.task = job.mem.task /\ m.stage[job.stage] \notin {"succeeded", "failed"}
             /\ \A d \in Cluster : d # c => m.cluster[d] = job.mem.cluster[d]
             /\ m.cluster[c] = reason
  <2>1. /\ {c} \subseteq job.mem.members[job.stage] /\ reason \in ClusterReason
        /\ Stages[job.stage].before => job.mem.task[<<job.stage, "before">>] = "approved"
    BY <1>2, <1>3 DEF Entered, ClusterReason
  <2>2. m \in RunObj /\ Sound(m, Given, Asks)
    BY <1>3, <1>6, <1>7, <2>1, MarkClusterKeeps DEF Sound
  <2>3. /\ m.init = job.mem.init /\ m.members = job.mem.members /\ m.stage = job.mem.stage
        /\ m.task = job.mem.task /\ m.done = job.mem.done
        /\ \A d \in Cluster : m.cluster[d] = IF d \in {c} THEN reason ELSE job.mem.cluster[d]
    BY SMTT(120), <1>3, <1>7, MarkClusterFields
  <2> QED BY <1>2, <1>3, <2>2, <2>3
<1>8. CASE ~ours
  <2> DEFINE k == [job EXCEPT !.todo = @ \ {c}, !.updating = n, !.mem = lost,
                              !.why = "preempted"]
  <2>1. job' = k
    BY <1>8 DEF CheckStarted
  <2>2. /\ lost \in RunObj /\ Sound(lost, Given, Asks)
        /\ lost.init = "ok" /\ lost.done = "none" /\ lost.members = job.mem.members
        /\ lost.task = job.mem.task /\ lost.stage[job.stage] \notin {"succeeded", "failed"}
        /\ \A d \in Cluster : d # c => lost.cluster[d] = job.mem.cluster[d]
    BY <1>7
  <2> HIDE DEF lost, n
  <2>3. k \in Job
    BY <1>3, <1>5, <2>2 DEF Job
  <2>4. /\ k.run = job.run /\ k.stage = job.stage /\ k.mem = lost /\ k.pc = job.pc
        /\ k.todo = job.todo \ {c} /\ k.finished = job.finished
    BY <1>3 DEF Job
  <2> HIDE DEF k
  <2> QED BY <1>2, <1>4, <2>1, <2>2, <2>3, <2>4, TurnEnds
<1>9. CASE ours /\ Updated(b)
  <2> DEFINE k == [job EXCEPT !.todo = @ \ {c}, !.finished = f, !.mem = up]
  <2>1. job' = k
    BY <1>9 DEF CheckStarted
  <2>2. /\ up \in RunObj /\ Sound(up, Given, Asks)
        /\ up.init = "ok" /\ up.done = "none" /\ up.members = job.mem.members
        /\ up.task = job.mem.task /\ up.stage[job.stage] \notin {"succeeded", "failed"}
        /\ \A d \in Cluster : d # c => up.cluster[d] = job.mem.cluster[d]
        /\ up.cluster[c] = "succeeded"
    BY <1>7
  <2> HIDE DEF up, f
  <2>3. k \in Job
    BY <1>3, <1>5, <2>2 DEF Job
  <2>4. /\ k.run = job.run /\ k.stage = job.stage /\ k.mem = up /\ k.pc = job.pc
        /\ k.todo = job.todo \ {c} /\ k.finished = f
    BY <1>3 DEF Job
  <2> HIDE DEF k
  <2> QED BY <1>2, <1>4, <2>1, <2>2, <2>3, <2>4, TurnEnds DEF f
<1>10. CASE ours /\ ~Updated(b)
  <2> DEFINE k == [job EXCEPT !.todo = @ \ {c}, !.updating = n, !.err = e]
  <2>1. job' = k
    BY <1>10 DEF CheckStarted
  <2> HIDE DEF n, e
  <2>3. k \in Job
    BY <1>3, <1>5 DEF Job
  <2>4. /\ k.run = job.run /\ k.stage = job.stage /\ k.mem = job.mem /\ k.pc = job.pc
        /\ k.todo = job.todo \ {c} /\ k.finished = job.finished
    BY <1>3 DEF Job
  <2> HIDE DEF k
  <2> QED BY <1>2, <1>3, <1>4, <2>1, <2>3, <2>4, TurnEnds
<1> QED BY <1>8, <1>9, <1>10

\* A step that only decides what to record.
LEMMA RecordStepKeeps ==
    ASSUME StageInvariant, UNCHANGED <<run, request, granted>>, WorldTypes',
           NEW j \in Job, j.run \in Run, NEW m \in RunObj,
           Sound(m, granted[j.run], request[j.run]),
           job' = [j EXCEPT !.pc = "record", !.mem = m]
    PROVE  StageInvariant'
<1> DEFINE k == [j EXCEPT !.pc = "record", !.mem = m]
           stored == run[j.run]
           given == granted[j.run]
           asked == request[j.run]
<1>1. job' = k
  OBVIOUS
<1>2. ASSUME NEW st, NEW gi, NEW as, Sound(m, gi, as)
      PROVE  k \in Job /\ k.run = j.run /\ JobInOrder(k, st, gi, as)
  BY <1>2, RecordKeeps
<1> HIDE DEF k
<1>3. Sound(m, given, asked)
  OBVIOUS
<1> HIDE DEF stored, given, asked
<1>4. k \in Job /\ k.run = j.run /\ JobInOrder(k, stored, given, asked)
  BY <1>2, <1>3
<1> QED BY <1>1, <1>4, JobStepKeeps DEF stored, given, asked

----------------------------------------------------------------------------
(* Initialization and validation.                                          *)

\* What a reconciliation reads.
LEMMA ReadKeeps ==
    ASSUME StageInvariant, NEW r \in Run
    PROVE  /\ Read(r) \in Job /\ Read(r).run = r /\ Read(r).mem = run[r]
           /\ Read(r).todo = {} /\ Read(r).stage = 1 /\ Read(r).finished = 0
           /\ run[r] \in RunObj /\ Sound(run[r], granted[r], request[r])
<1>1. /\ run[r] \in RunObj /\ seen \in [Cluster -> BindingObj] /\ synced \in SUBSET Cluster
  BY WorldOfInvariant DEF WorldTypes
<1>2. Idle \in Job
  BY IdleType
<1>3. Read(r) \in Job
  BY <1>1, <1>2 DEF Read, Job
<1>4. /\ Read(r).run = r /\ Read(r).mem = run[r]
      /\ Read(r).todo = Idle.todo /\ Read(r).stage = Idle.stage
      /\ Read(r).finished = Idle.finished
  BY <1>2 DEF Read, Job
<1>5. Idle.todo = {} /\ Idle.stage = 1 /\ Idle.finished = 0
  BY DEF Idle
<1> QED BY <1>1, <1>3, <1>4, <1>5 DEF StageInvariant

\* A validated reconciliation goes on.
LEMMA DispatchStep ==
    ASSUME StageInvariant, UNCHANGED <<run, request, granted>>, WorldTypes',
           NEW j \in Job, j.run \in Run, About(j, run[j.run]), j.finished = 0,
           Sound(j.mem, granted[j.run], request[j.run]), job' = Dispatch(j)
    PROVE  StageInvariant'
<1>1. /\ Dispatch(j) \in Job
      /\ Dispatch(j).pc # "idle" =>
            /\ Dispatch(j).run = j.run
            /\ JobInOrder(Dispatch(j), run[j.run], granted[j.run], request[j.run])
  BY DispatchKeeps
<1> QED BY <1>1, JobStepKeeps

\* The bindings of a policy and those that are deselected are distinct, and the stages
\* divide the former among themselves.
LEMMA MembersDisjoint ==
    ASSUME NEW b, Partitioned(b), placed \in PlacementObj
    PROVE  LET members == [s \in 1..DeleteStage |->
                             IF s = DeleteStage THEN Removed(b) ELSE StageClusters(b, s)]
           IN  /\ members \in [1..DeleteStage -> SUBSET Cluster]
               /\ \A s, t \in 1..DeleteStage : s # t => members[s] \cap members[t] = {}
<1> DEFINE members == [s \in 1..DeleteStage |->
                         IF s = DeleteStage THEN Removed(b) ELSE StageClusters(b, s)]
<1>1. /\ Removed(b) \subseteq Cluster /\ Selected(b, placed.policy) \subseteq Cluster
      /\ Removed(b) \cap Selected(b, placed.policy) = {}
      /\ \A s \in StageIndex : StageClusters(b, s) \subseteq Selected(b, placed.policy)
  BY DEF Removed, Selected, StageClusters
<1>2. members \in [1..DeleteStage -> SUBSET Cluster]
  BY <1>1, Indices
<1>3. ASSUME NEW s \in 1..DeleteStage, NEW t \in 1..DeleteStage, s # t
      PROVE  members[s] \cap members[t] = {}
  <2>1. CASE s \in StageIndex /\ t \in StageIndex
    <3>1. members[s] = StageClusters(b, s) /\ members[t] = StageClusters(b, t)
      BY <2>1, Indices
    <3> QED BY <1>3, <2>1, <3>1 DEF Partitioned
  <2>2. CASE s = DeleteStage
    <3>1. t \in StageIndex /\ members[s] = Removed(b) /\ members[t] = StageClusters(b, t)
      BY <1>3, <2>2, Indices
    <3> QED BY <1>1, <3>1
  <2>3. CASE t = DeleteStage
    <3>1. s \in StageIndex /\ members[t] = Removed(b) /\ members[s] = StageClusters(b, s)
      BY <1>3, <2>3, Indices
    <3> QED BY <1>1, <3>1
  <2> QED BY <2>1, <2>2, <2>3, Indices
<1> QED BY <1>2, <1>3

\* initialize: the stages and their clusters are computed.
LEMMA InitializeStep ==
    ASSUME StageInvariant, NEW r \in Run, Initialize(r)
    PROVE  StageInvariant'
<1> DEFINE j == Read(r)
           members == [s \in 1..DeleteStage |->
                         IF s = DeleteStage THEN Removed(seen) ELSE StageClusters(seen, s)]
<1>0. /\ run[r].init = "none" /\ UNCHANGED <<world, run, request, ghosts>>
      /\ placed \in PlacementObj
  BY WorldOfInvariant DEF Initialize, WorldTypes
<1>1. UNCHANGED <<run, request, granted>> /\ WorldTypes'
  BY <1>0, WorldOfInvariant DEF world, ghosts, WorldTypes
<1>2. /\ j \in Job /\ j.run = r /\ j.mem = run[r] /\ j.todo = {} /\ j.stage = 1
      /\ j.finished = 0
      /\ run[r] \in RunObj /\ Sound(run[r], granted[r], request[r])
  BY ReadKeeps
<1>3. /\ \A s \in 1..DeleteStage : run[r].members[s] = {} /\ run[r].stage[s] = "idle"
      /\ \A c \in Cluster : run[r].cluster[c] = "idle"
      /\ \A t \in Task : run[r].task[t] = "none"
      /\ ~run[r].begun /\ run[r].done = "none"
  BY <1>0, <1>2 DEF Sound, StagesInOrder
<1>31. \A s \in StageIndex : ~run[r].elapsed[s]
  BY <1>0, <1>2 DEF Sound, StagesInOrder
<1>4. CASE InitializeFails
  <2> DEFINE m == [run[r] EXCEPT !.init = "failed"]
             k == [j EXCEPT !.pc = "record", !.mem = m]
  <2>1. job' = k
    BY <1>2, <1>4 DEF Initialize
  <2>2. /\ m \in RunObj
        /\ m.init = "failed" /\ m.members = run[r].members /\ m.stage = run[r].stage
        /\ m.cluster = run[r].cluster /\ m.task = run[r].task /\ (m.begun <=> run[r].begun)
        /\ m.aged = run[r].aged /\ m.rested = run[r].rested /\ m.elapsed = run[r].elapsed
        /\ m.done = run[r].done
    BY SMTT(120), <1>2 DEF RunObj
  <2> HIDE DEF m
  <2>3. StagesInOrder(m)
    <3>1. StagesInOrder(run[r])
      BY <1>2 DEF Sound
    <3>2. /\ \A s \in 1..DeleteStage : m.members[s] = {} /\ m.stage[s] = "idle"
          /\ \A c \in Cluster : m.cluster[c] = "idle"
          /\ \A t \in Task : m.task[t] = "none"
          /\ \A s \in StageIndex : ~m.elapsed[s]
          /\ ~m.begun /\ m.done = "none"
      BY <1>3, <1>31, <2>2
    <3>3. \A s, t \in 1..DeleteStage : s # t => m.members[s] \cap m.members[t] = {}
      BY <3>2
    <3>4. \A s \in StageIndex : s \in 1..DeleteStage
      BY Indices
    <3>5. \A s \in StageIndex : m.stage[s] = "idle" /\ ~m.aged[s] /\ ~m.elapsed[s]
      BY SMTT(120), <2>2, <3>1, <3>2, <3>4 DEF StagesInOrder
    <3> QED BY <3>2, <3>3, <3>5 DEF StagesInOrder
  <2>4. ApprovalsNoted(m, granted[r], request[r]) /\ DeletionApproved(m)
    BY SMTT(120), <1>2, <1>3, <2>2 DEF Sound, ApprovalsNoted, DeletionApproved
  <2>5. Sound(m, granted[r], request[r])
    BY <2>3, <2>4 DEF Sound
  <2> HIDE DEF j
  <2> QED BY <1>1, <1>2, <2>1, <2>2, <2>5, RecordStepKeeps
<1>5. CASE ~InitializeFails
  <2> DEFINE m == [run[r] EXCEPT !.init = "ok", !.policy = placed.policy, !.members = members]
             k == [j EXCEPT !.pc = "init", !.mem = m]
  <2>1. job' = k
    BY <1>2, <1>5 DEF Initialize, Job
  <2>2. /\ members \in [1..DeleteStage -> SUBSET Cluster]
        /\ \A s, t \in 1..DeleteStage : s # t => members[s] \cap members[t] = {}
    BY <1>0, <1>5, MembersDisjoint DEF InitializeFails
  <2> HIDE DEF members
  <2>3. placed.policy \in Nat
    BY <1>0 DEF PlacementObj
  <2>4. m \in RunObj
    BY <1>2, <2>2, <2>3 DEF RunObj
  <2>5. /\ m.init = "ok" /\ m.members = members /\ m.stage = run[r].stage
        /\ m.cluster = run[r].cluster /\ m.task = run[r].task /\ (m.begun <=> run[r].begun)
        /\ m.aged = run[r].aged /\ m.rested = run[r].rested /\ m.elapsed = run[r].elapsed
        /\ m.done = run[r].done
    BY <1>2 DEF RunObj
  <2> HIDE DEF m
  <2>6. StagesInOrder(m)
    <3>1. \A s \in StageIndex : m.stage[s] = "idle" /\ ~m.aged[s]
      <4>1. \A s \in StageIndex : run[r].stage[s] = "idle"
        BY <1>3, Indices
      <4>2. StagesInOrder(run[r])
        BY <1>2 DEF Sound
      <4>3. \A s \in StageIndex :
               run[r].aged[s] => run[r].stage[s] \in {"waiting", "stopped", "succeeded", "failed"}
        BY <4>2 DEF StagesInOrder
      <4> QED BY <2>5, <4>1, <4>3
    <3>2. \A s \in StageIndex : ~m.elapsed[s]
      BY <1>31, <2>5
    <3> QED BY <2>2, <2>5, <3>1, <3>2 DEF StagesInOrder
  <2>7. ApprovalsNoted(m, granted[r], request[r]) /\ DeletionApproved(m)
    <3>1. \A s \in StageIndex : m.stage[s] = "idle" /\ m.members[s] \subseteq Cluster
      BY SMTT(120), <1>3, <2>2, <2>5, Indices
    <3> QED BY SMTT(120), <1>3, <2>5, <3>1 DEF ApprovalsNoted, DeletionApproved
  <2>8. k \in Job
    BY <1>2, <2>4 DEF Job
  <2>9. /\ k.run = r /\ k.pc = "init" /\ k.mem = m /\ k.stage = 1 /\ k.todo = {}
        /\ k.finished = 0
    BY <1>2 DEF Job
  <2>10. m.done = "none"
    BY <1>3, <2>5
  <2>11. JobInOrder(k, run[r], granted[r], request[r])
    <3>1. \A t \in StageIndex : m.stage[t] = "idle"
      BY <1>3, <2>5, Indices
    <3> HIDE DEF k
    <3>2. Sound(m, granted[r], request[r])
      BY <2>6, <2>7 DEF Sound
    <3>3. \A t \in Task : m.task[t] = "none"
      BY <1>3, <2>5
    <3> QED BY <2>5, <2>9, <2>10, <3>1, <3>2, <3>3 DEF JobInOrder
  <2> HIDE DEF k
  <2> QED BY <1>1, <2>1, <2>8, <2>9, <2>11, JobStepKeeps
<1> QED BY <1>4, <1>5

\* validate: the run fails, or goes on at the first stage that has not succeeded.
LEMMA ValidateStep ==
    ASSUME StageInvariant, NEW r \in Run, Validate(r)
    PROVE  StageInvariant'
<1> DEFINE m == run[r]
           j == Read(r)
           k == [j EXCEPT !.stage = NextStage(m)]
<1>0. /\ m.init = "ok" /\ m.done = "none" /\ UNCHANGED <<world, run, request, ghosts>>
  BY DEF Validate
<1>1. UNCHANGED <<run, request, granted>> /\ WorldTypes'
  BY <1>0, WorldOfInvariant DEF world, ghosts, WorldTypes
<1>2. /\ j \in Job /\ j.run = r /\ j.mem = m /\ j.todo = {} /\ j.finished = 0
      /\ m \in RunObj /\ Sound(m, granted[r], request[r])
  BY ReadKeeps
<1>3. \/ job' = [j EXCEPT !.pc = "record", !.mem = Failed(m, "changed")]
      \/ job' = [j EXCEPT !.pc = "record", !.mem = Failed(m, "unexpected")]
      \/ ~Inconsistent(m, seen) /\ job' = Dispatch(k)
  BY DEF Validate
<1>4. ASSUME NEW why \in {"changed", "unexpected"},
             job' = [j EXCEPT !.pc = "record", !.mem = Failed(m, why)]
      PROVE  StageInvariant'
  <2> DEFINE n == Failed(m, why)
  <2>1. n \in RunObj /\ Alike(m, n) /\ n.done = "failed"
    BY <1>2, FailedType, FailedAlike
  <2>2. job' = [j EXCEPT !.pc = "record", !.mem = n]
    BY <1>4
  <2> HIDE DEF n, j, m
  <2>3. Sound(n, granted[r], request[r])
    BY <1>0, <1>2, <2>1, AlikeSound DEF Sound
  <2> QED BY <1>1, <1>2, <2>1, <2>2, <2>3, RecordStepKeeps
<1>5. CASE ~Inconsistent(m, seen) /\ job' = Dispatch(k)
  <2>1. /\ NextStage(m) \in 1..DeleteStage
        /\ NextStage(m) \in StageIndex => m.stage[NextStage(m)] # "succeeded"
        /\ \A t \in 1..(NextStage(m) - 1) : m.stage[t] = "succeeded"
    BY <1>2, NextStageOf
  <2>2. NextStage(m) \in StageIndex => m.stage[NextStage(m)] # "failed"
    BY <1>5, <2>1 DEF Inconsistent, Finished
  <2>3. /\ k \in Job /\ k.run = r /\ k.mem = m /\ k.todo = {} /\ k.stage = NextStage(m)
        /\ k.finished = 0
    BY <1>2, <2>1 DEF Job
  <2> HIDE DEF k, m, j
  <2>4. About(k, m)
    BY <1>0, <2>1, <2>2, <2>3 DEF About
  <2>5. About(k, run[k.run]) /\ Sound(k.mem, granted[k.run], request[k.run])
    BY <1>2, <2>3, <2>4 DEF m
  <2> QED BY <1>1, <1>5, <2>3, <2>5, DispatchStep
<1> QED BY <1>3, <1>4, <1>5

\* The reconciliation stores its run, if no one has edited it since.
LEMMA StoreKeeps ==
    ASSUME StageInvariant, UNCHANGED <<request, granted>>, WorldTypes',
           NEW r \in Run, NEW m \in RunObj, run' = [run EXCEPT ![r] = m],
           Sound(m, granted[r], request[r]),
           NEW k \in Job, job' = k,
           k.pc # "idle" => k.run = r /\ JobInOrder(k, m, granted[r], request[r])
    PROVE  StageInvariant'
<1>0. /\ run \in [Run -> RunObj] /\ request \in [Run -> [Task -> Request]]
      /\ granted \in [Run -> SUBSET Task]
  BY WorldOfInvariant
<1>1. TypeOK'
  BY <1>0 DEF TypeOK, WorldTypes
<1>2. \A q \in Run : run'[q] = IF q = r THEN m ELSE run[q]
  BY <1>0
<1>3. \A q \in Run : /\ Sound(run'[q], granted'[q], request'[q])
                     /\ \A t \in Task : request'[q][t] \in {"approved", "accepted"}
                                        => t \in granted'[q]
  BY <1>2 DEF StageInvariant
<1>4. job'.pc # "idle" =>
         job'.run \in Run /\ JobInOrder(job', run'[job'.run], granted'[job'.run], request'[job'.run])
  BY <1>2
<1> QED BY <1>1, <1>3, <1>4 DEF StageInvariant

\* A reconciliation that is over.
LEMMA IdlePc == Idle \in Job /\ Idle.pc = "idle"
BY IdleType DEF Idle

\* recordInitializationSucceeded: the stages are stored, unless the run was edited.
LEMMA RecordInitializedStep ==
    ASSUME StageInvariant, RecordInitialized
    PROVE  StageInvariant'
<1> DEFINE r == job.run
           m == job.mem
<1>0. /\ job.pc = "init" /\ UNCHANGED <<world, request, ghosts>> /\ job \in Job
  BY WorldOfInvariant DEF RecordInitialized
<1>1. UNCHANGED <<request, granted>> /\ WorldTypes'
  BY <1>0, WorldOfInvariant DEF world, ghosts, WorldTypes
<1>2. r \in Run /\ JobInOrder(job, run[r], granted[r], request[r])
  BY <1>0 DEF StageInvariant
<1>3. /\ m \in RunObj /\ Sound(m, granted[r], request[r])
      /\ m.init = "ok" /\ m.done = "none" /\ job.stage = 1 /\ job.todo = {}
      /\ job.finished = 0
      /\ \A t \in StageIndex : m.stage[t] = "idle"
  BY <1>0, <1>2 DEF JobInOrder, Job
<1>4. CASE job.fresh
  <2>1. run' = [run EXCEPT ![r] = m] /\ job' = Dispatch(job)
    BY <1>4 DEF RecordInitialized
  <2>2. About(job, m)
    BY SMTT(120), <1>3 DEF About
  <2>3. /\ Dispatch(job) \in Job
        /\ Dispatch(job).pc # "idle" =>
              /\ Dispatch(job).run = r
              /\ JobInOrder(Dispatch(job), m, granted[r], request[r])
    BY <1>0, <1>2, <1>3, <2>2, DispatchKeeps
  <2> QED BY <1>1, <1>2, <1>3, <2>1, <2>3, StoreKeeps
<1>5. CASE ~job.fresh
  <2>1. job' = Idle /\ UNCHANGED run
    BY <1>5 DEF RecordInitialized
  <2> QED BY <1>1, <2>1, IdlePc, JobStepKeeps
<1> QED BY <1>4, <1>5

\* The status is stored, unless the run was edited.
LEMMA RecordStep ==
    ASSUME StageInvariant, Record
    PROVE  StageInvariant'
<1> DEFINE r == job.run
           m == job.mem
<1>0. /\ job.pc = "record" /\ UNCHANGED <<world, request, ghosts>> /\ job \in Job /\ job' = Idle
  BY WorldOfInvariant DEF Record
<1>1. UNCHANGED <<request, granted>> /\ WorldTypes'
  BY <1>0, WorldOfInvariant DEF world, ghosts, WorldTypes
<1>2. r \in Run /\ JobInOrder(job, run[r], granted[r], request[r])
  BY <1>0 DEF StageInvariant
<1>3. m \in RunObj /\ Sound(m, granted[r], request[r])
  BY <1>0, <1>2 DEF JobInOrder, Job
<1>4. CASE job.fresh
  <2>1. run' = [run EXCEPT ![r] = m]
    BY <1>4 DEF Record
  <2> QED BY <1>0, <1>1, <1>2, <1>3, <2>1, IdlePc, StoreKeeps
<1>5. CASE ~job.fresh
  <2>1. UNCHANGED run
    BY <1>5 DEF Record
  <2> QED BY <1>0, <1>1, <2>1, IdlePc, JobStepKeeps
<1> QED BY <1>4, <1>5

\* executeUpdatingStage: only when every cluster was counted does the stage wait.
LEMMA EndLoopStep ==
    ASSUME StageInvariant, EndLoop
    PROVE  StageInvariant'
<1> DEFINE s == job.stage
           m == MarkRun(job.mem, "progressing")
           failed == MarkStage(m, s, "failed")
           wait == MarkStage(m, s, "waiting")
           waits == MarkRun(wait, "waiting")
<1>0. job.pc = "clusters" /\ UNCHANGED <<world, run, request, ghosts>>
  BY DEF EndLoop
<1>1. UNCHANGED <<run, request, granted>> /\ WorldTypes'
  BY <1>0, WorldOfInvariant DEF world, ghosts, WorldTypes
<1>2. /\ job \in Job /\ job.run \in Run /\ job.mem \in RunObj
      /\ About(job, Stored) /\ Entered(job) /\ Counted(job) /\ Sound(job.mem, Given, Asks)
      /\ s \in StageIndex /\ s \in 1..DeleteStage /\ job.mem.init = "ok"
  BY <1>0, TurnFacts
<1>3. m \in RunObj /\ Alike(job.mem, m) /\ m.done = job.mem.done
  BY <1>2, MarkRunType, MarkRunAlike
<1>4. \/ /\ job.why # "none"
         /\ job' = [job EXCEPT !.pc = "record", !.mem = Failed(failed, job.why)]
      \/ job' = [job EXCEPT !.pc = "record", !.mem = m]
      \/ /\ job.finished = Cardinality(m.members[s])
         /\ job' = [job EXCEPT !.pc = "after", !.mem = waits]
  BY DEF EndLoop
<1> HIDE DEF m
<1>5. Sound(m, Given, Asks) /\ m.init = "ok"
  BY <1>2, <1>3, AlikeSound DEF Sound, Alike
<1>6. CASE job' = [job EXCEPT !.pc = "record", !.mem = m]
  BY <1>1, <1>2, <1>3, <1>5, <1>6, RecordStepKeeps DEF Given, Asks
<1>7. CASE /\ job.why # "none"
           /\ job' = [job EXCEPT !.pc = "record", !.mem = Failed(failed, job.why)]
  <2>1. failed \in RunObj /\ Sound(failed, Given, Asks) /\ failed.init = "ok"
    <3>1. "failed" \in StageReason
      BY DEF StageReason
    <3> QED BY SMTT(120), <1>2, <1>3, <1>5, <3>1, MarkStageKeeps, MarkStageFields DEF Sound
  <2> DEFINE n == Failed(failed, job.why)
  <2> HIDE DEF failed
  <2>2. n \in RunObj /\ Alike(failed, n) /\ n.done = "failed"
    <3>1. job.why \in {"preempted", "unexpected"}
      BY <1>2, <1>7 DEF Job
    <3> QED BY <2>1, <3>1, FailedType, FailedAlike
  <2>3. job' = [job EXCEPT !.pc = "record", !.mem = n]
    BY <1>7
  <2> HIDE DEF n
  <2>4. Sound(n, Given, Asks)
    BY <2>1, <2>2, AlikeSound DEF Sound
  <2> QED BY <1>1, <1>2, <2>2, <2>3, <2>4, RecordStepKeeps DEF Given, Asks
<1>8. CASE /\ job.finished = Cardinality(m.members[s])
           /\ job' = [job EXCEPT !.pc = "after", !.mem = waits]
  <2>1. \A c \in m.members[s] : m.cluster[c] = "succeeded"
    <3> DEFINE M == job.mem.members[s]
               D == {c \in M \ job.todo : job.mem.cluster[c] = "succeeded"}
    <3>1. M \subseteq Cluster /\ IsFiniteSet(Cluster) /\ D \subseteq M
      BY <1>2, UpdateRunAssumption DEF RunObj, UpdateRunAssumption
    <3>2. Cardinality(M) <= Cardinality(D)
      BY <1>2, <1>3, <1>8 DEF Counted, Alike
    <3> HIDE DEF D, M
    <3>3. IsFiniteSet(M)
      BY <3>1, FS_Subset
    <3>4. D = M
      BY SMTT(120), <3>1, <3>2, <3>3, FS_Subset, FS_CardinalityType
    <3> QED BY <1>3, <3>4 DEF D, M, Alike
  <2>2. Unfinished(m, s) = {} /\ "waiting" \in StageReason
    BY <2>1 DEF Unfinished, StageReason
  <2>3. wait \in RunObj /\ Sound(wait, Given, Asks)
    BY <1>2, <1>3, <1>5, <2>2, MarkStageKeeps DEF Sound
  <2>4. /\ wait.init = m.init /\ wait.members = m.members /\ wait.cluster = m.cluster
        /\ wait.task = m.task /\ wait.done = m.done /\ wait.stage[s] = "waiting"
    BY SMTT(120), <1>2, <1>3, <2>2, MarkStageFields
  <2> HIDE DEF wait
  <2>5. waits \in RunObj /\ Alike(wait, waits) /\ waits.done = wait.done
    BY <2>3, MarkRunType, MarkRunAlike
  <2> DEFINE k == [job EXCEPT !.pc = "after", !.mem = waits]
  <2>6. job' = k
    BY <1>8
  <2> HIDE DEF waits
  <2>7. Sound(waits, Given, Asks)
    BY <2>3, <2>5, AlikeSound DEF Sound
  <2>8. k \in Job
    BY <1>2, <2>5 DEF Job
  <2>9. k.pc = "after" /\ k.mem = waits /\ k.run = job.run /\ k.stage = s /\ k.todo = job.todo
    BY <1>2 DEF Job
  <2> HIDE DEF k
  <2>10. About(k, Stored)
    BY SMTT(120), <1>2, <1>3, <2>4, <2>5, <2>9 DEF About, Alike
  <2>11. Entered(k)
    BY SMTT(120), <1>2, <1>3, <2>4, <2>5, <2>9 DEF Entered, Alike
  <2>12. JobInOrder(k, Stored, Given, Asks)
    BY SMTT(120), <1>3, <2>1, <2>4, <2>5, <2>7, <2>9, <2>10, <2>11 DEF JobInOrder, Alike
  <2>13. k.run \in Run /\ JobInOrder(k, run[k.run], granted[k.run], request[k.run])
    BY <1>2, <2>9, <2>12 DEF Stored, Given, Asks
  <2> QED BY <1>1, <2>6, <2>8, <2>13, JobStepKeeps
<1> QED BY <1>4, <1>6, <1>7, <1>8

\* What holds while the delete stage looks at its clusters.
LEMMA DeleteFacts ==
    ASSUME StageInvariant, job.pc = "delete"
    PROVE  /\ job \in Job /\ job.run \in Run /\ job.mem \in RunObj
           /\ About(job, Stored) /\ Deletes(job) /\ StagesInOrder(job.mem)
           /\ ApprovalsNoted(job.mem, Given, Asks)
           /\ job.todo \in SUBSET Cluster /\ job.todo \subseteq job.mem.members[DeleteStage]
           /\ job.stage = DeleteStage /\ job.mem.init = "ok" /\ job.mem.done = "none"
<1>1. job \in Job
  BY WorldOfInvariant
<1>2. job.run \in Run /\ JobInOrder(job, Stored, Given, Asks)
  BY DEF StageInvariant, Stored, Given, Asks
<1>3. /\ About(job, Stored) /\ Deletes(job) /\ StagesInOrder(job.mem)
      /\ ApprovalsNoted(job.mem, Given, Asks)
  BY <1>2 DEF JobInOrder
<1> QED BY <1>1, <1>2, <1>3 DEF About, Deletes, Job

\* While bindings remain to be deleted, the deletion has its approval.
LEMMA DeletionSound ==
    ASSUME StageInvariant, job.pc = "delete", Removed(job.view) # {}
    PROVE  Sound(job.mem, Given, Asks)
<1>1. /\ Deletes(job) /\ StagesInOrder(job.mem) /\ ApprovalsNoted(job.mem, Given, Asks)
  BY DeleteFacts
<1>2. DeletionApproved(job.mem)
  BY <1>1 DEF Deletes, DeletionApproved
<1> QED BY <1>1, <1>2 DEF Sound

\* executeDeleteStage: a deselected binding is deleted.
LEMMA DeleteBindingStep ==
    ASSUME StageInvariant, DeleteBinding
    PROVE  StageInvariant'
<1> DEFINE c == First(job.todo)
           deleting == NewGeneration([bind[c] EXCEPT !.phase = "deleting"])
           new == IF bind[c].phase = "live" THEN deleting ELSE bind[c]
           m == MarkCluster(job.mem, {c}, "started")
<1>0. /\ job.pc = "delete" /\ job.todo # {} /\ UNCHANGED <<run, request, granted>>
      /\ UNCHANGED <<placed, budget>>
  BY DEF DeleteBinding
<1>1. WorldTypes
  BY WorldOfInvariant
<1>2. /\ job \in Job /\ job.run \in Run /\ job.mem \in RunObj
      /\ About(job, Stored) /\ Deletes(job) /\ StagesInOrder(job.mem)
      /\ ApprovalsNoted(job.mem, Given, Asks)
      /\ job.todo \in SUBSET Cluster /\ job.todo \subseteq job.mem.members[DeleteStage]
      /\ job.stage = DeleteStage /\ job.mem.init = "ok" /\ job.mem.done = "none"
  BY <1>0, DeleteFacts
<1>3. c \in job.todo /\ c \in Cluster
  BY <1>0, <1>2, FirstOf
<1>4. Removed(job.view) # {}
  BY <1>2, <1>3 DEF Deletes
<1>5. CASE bind[c].phase = "absent"
  <2> DEFINE mem == job.mem
  <2>1. job' = [job EXCEPT !.pc = "record"] /\ UNCHANGED <<bind, seen, synced, flight>>
    BY <1>5 DEF DeleteBinding
  <2>2. job' = [job EXCEPT !.pc = "record", !.mem = mem]
    BY <1>2, <2>1 DEF Job
  <2>3. WorldTypes'
    BY <1>0, <1>1, <2>1 DEF WorldTypes
  <2>4. Sound(mem, granted[job.run], request[job.run]) /\ mem \in RunObj
    BY <1>0, <1>2, <1>4, DeletionSound DEF Given, Asks
  <2> HIDE DEF mem
  <2> QED BY <1>0, <1>2, <2>2, <2>3, <2>4, RecordStepKeeps
<1>6. CASE bind[c].phase # "absent"
  <2> DEFINE k == [job EXCEPT !.todo = job.todo \ {c}, !.mem = m]
  <2>1. Write(c, new) /\ job' = k /\ Takes(job.run, c)
    BY <1>6 DEF DeleteBinding
  <2>2. bind[c] \in BindingObj
    BY <1>1, <1>3 DEF WorldTypes
  <2>3. new \in BindingObj
    <3>1. [bind[c] EXCEPT !.phase = "deleting"] \in BindingObj
      BY <2>2 DEF BindingObj
    <3>2. deleting \in BindingObj
      BY <3>1, NewGenerationType
    <3> QED BY <2>2, <3>2
  <2>4. WorldTypes'
    <3> HIDE DEF new, c
    <3> QED BY <1>0, <1>1, <1>3, <2>1, <2>3, WriteTypes, TakesTypes DEF WorldTypes
  <2>5. DeleteStage \in 1..DeleteStage /\ DeleteStage \notin StageIndex /\ "started" \in ClusterReason
    BY Indices DEF ClusterReason
  <2>6. m \in RunObj /\ StagesInOrder(m) /\ ApprovalsNoted(m, Given, Asks)
    BY <1>2, <1>3, <2>5, MarkClusterKeeps
  <2>7. /\ m.init = "ok" /\ m.done = "none" /\ m.members = job.mem.members
        /\ m.stage = job.mem.stage /\ m.task = job.mem.task
    BY SMTT(120), <1>2, MarkClusterFields
  <2> HIDE DEF m
  <2>8. k \in Job
    BY <1>2, <2>6 DEF Job
  <2>9. /\ k.pc = "delete" /\ k.mem = m /\ k.run = job.run /\ k.stage = DeleteStage
        /\ k.todo = job.todo \ {c} /\ k.view = job.view
    BY <1>0, <1>2 DEF Job
  <2> HIDE DEF k
  <2>10. About(k, Stored)
    BY <1>2, <2>5, <2>7, <2>9 DEF About
  <2>11. Deletes(k)
    BY <1>2, <2>7, <2>9 DEF Deletes
  <2>12. JobInOrder(k, Stored, Given, Asks)
    BY <2>6, <2>9, <2>10, <2>11 DEF JobInOrder
  <2>13. k.run \in Run /\ JobInOrder(k, run[k.run], granted[k.run], request[k.run])
    BY <1>2, <2>9, <2>12 DEF Stored, Given, Asks
  <2> QED BY <1>0, <2>1, <2>4, <2>8, <2>13, JobStepKeeps
<1> QED BY <1>5, <1>6

\* executeDeleteStage: the run has succeeded when no such binding is left.
LEMMA EndDeletionStep ==
    ASSUME StageInvariant, EndDeletion
    PROVE  StageInvariant'
<1> DEFINE m == MarkStage(job.mem, DeleteStage, "succeeded")
           over == [m EXCEPT !.done = "succeeded", !.progress = "ended"]
<1>0. job.pc = "delete" /\ UNCHANGED <<world, run, request, ghosts>>
  BY DEF EndDeletion
<1>1. UNCHANGED <<run, request, granted>> /\ WorldTypes'
  BY <1>0, WorldOfInvariant DEF world, ghosts, WorldTypes
<1>2. /\ job \in Job /\ job.run \in Run /\ job.mem \in RunObj
      /\ StagesInOrder(job.mem) /\ ApprovalsNoted(job.mem, Given, Asks)
      /\ job.mem.init = "ok"
  BY <1>0, DeleteFacts
<1>3. CASE Removed(job.view) = {}
  <2>1. job' = [job EXCEPT !.pc = "record", !.mem = over]
    BY <1>3 DEF EndDeletion
  <2>2. DeleteStage \in 1..DeleteStage /\ DeleteStage \notin StageIndex /\ "succeeded" \in StageReason
    BY Indices DEF StageReason
  <2>3. m \in RunObj /\ StagesInOrder(m) /\ ApprovalsNoted(m, Given, Asks) /\ m.init = "ok"
    BY SMTT(120), <1>2, <2>2, MarkStageKeeps, MarkStageFields
  <2> HIDE DEF m
  <2>4. over \in RunObj /\ Alike(m, over) /\ over.done = "succeeded"
    BY <2>3 DEF RunObj, Alike
  <2> HIDE DEF over
  <2>5. DeletionApproved(over)
    BY <2>4 DEF DeletionApproved
  <2>6. Sound(over, Given, Asks)
    BY <2>3, <2>4, <2>5, AlikeSound DEF Sound
  <2> QED BY <1>1, <1>2, <2>1, <2>4, <2>6, RecordStepKeeps DEF Given, Asks
<1>4. CASE Removed(job.view) # {}
  <2> DEFINE mem == job.mem
  <2>1. job' = [job EXCEPT !.pc = "record", !.mem = mem]
    BY <1>4 DEF EndDeletion
  <2>2. Sound(mem, granted[job.run], request[job.run]) /\ mem \in RunObj
    BY <1>0, <1>2, <1>4, DeletionSound DEF Given, Asks
  <2> HIDE DEF mem
  <2> QED BY <1>1, <1>2, <2>1, <2>2, RecordStepKeeps
<1> QED BY <1>3, <1>4

\* handleStageApprovalTask: a request that is granted is noted as accepted; one the run
\* has already noted stays as it is.
LEMMA AskFacts ==
    ASSUME StageInvariant, job.run \in Run, About(job, Stored), Sound(job.mem, Given, Asks),
           NEW t \in Task, AskApproval(t)
    PROVE  /\ request' \in [Run -> [Task -> Request]]
           /\ \A r \in Run : r # job.run => request'[r] = request[r]
           /\ \A x \in Task : x # t => request'[job.run][x] = Asks[x]
           /\ Granted(t) => t \in Given /\ request'[job.run][t] \in {"absent", "accepted"}
           /\ \A x \in Task : request'[job.run][x] \in {"approved", "accepted"} => x \in Given
           /\ ApprovalsNoted(job.mem, Given, request'[job.run])
           /\ ApprovalsNoted(Stored, Given, request'[job.run])
<1> DEFINE R == job.run
           old == request[R][t]
           new == IF job.mem.task[t] = "approved" THEN old
                  ELSE CASE old = "absent" -> "pending"
                         [] old = "approved" -> "accepted"
                         [] OTHER -> old
<1>1. request \in [Run -> [Task -> Request]]
  BY WorldOfInvariant
<1>2. request' = [request EXCEPT ![R][t] = new]
  BY DEF AskApproval
<1>3. old \in Request
  BY <1>1
<1>4. /\ job.mem.task[t] = "approved" => new = old
      /\ job.mem.task[t] # "approved" =>
            /\ old = "absent" => new = "pending"
            /\ old = "approved" => new = "accepted"
            /\ old \in {"pending", "accepted"} => new = old
  BY <1>3 DEF Request
<1>5. new \in Request
  BY <1>3, <1>4 DEF Request
<1> HIDE DEF new
<1>6. /\ request' \in [Run -> [Task -> Request]]
      /\ \A r \in Run : r # R => request'[r] = request[r]
      /\ \A x \in Task : x # t => request'[R][x] = request[R][x]
      /\ request'[R][t] = new
  BY <1>1, <1>2, <1>5
<1>7. ApprovalsNoted(job.mem, Given, Asks) /\ ApprovalsNoted(Stored, Given, Asks)
  BY DEF Sound, StageInvariant, Stored, Given, Asks
<1>8. \A x \in Task : Asks[x] \in {"approved", "accepted"} => x \in Given
  BY DEF StageInvariant, Given, Asks
<1>9. Granted(t) => t \in Given /\ new \in {"absent", "accepted"}
  <2>1. CASE job.mem.task[t] = "approved"
    BY <1>4, <1>7, <2>1 DEF ApprovalsNoted, Asks
  <2>2. CASE job.mem.task[t] # "approved" /\ old \in {"approved", "accepted"}
    BY <1>4, <1>8, <2>2 DEF Asks
  <2> QED BY <2>1, <2>2 DEF Granted
<1>10. new \in {"approved", "accepted"} => t \in Given
  BY <1>3, <1>4, <1>8 DEF Asks, Request
<1>11. ASSUME NEW n, ApprovalsNoted(n, Given, Asks), n.task[t] = "approved" => job.mem.task[t] = "approved"
       PROVE  ApprovalsNoted(n, Given, request'[R])
  <2>1. \A x \in Task : n.task[x] = "approved" =>
           x \in Given /\ request'[R][x] \in {"absent", "accepted"}
    BY <1>4, <1>6, <1>11 DEF ApprovalsNoted, Asks
  <2> QED BY <1>11, <2>1 DEF ApprovalsNoted
<1>12. Stored.task[t] = "approved" => job.mem.task[t] = "approved"
  BY DEF About
<1>13. ApprovalsNoted(job.mem, Given, request'[R]) /\ ApprovalsNoted(Stored, Given, request'[R])
  BY <1>7, <1>11, <1>12
<1> QED BY <1>6, <1>8, <1>9, <1>10, <1>13 DEF Asks

\* A step that asks for an approval.
LEMMA AskStepKeeps ==
    ASSUME StageInvariant, job.run \in Run, About(job, Stored), Sound(job.mem, Given, Asks),
           NEW t \in Task, AskApproval(t), UNCHANGED <<run, granted>>, WorldTypes',
           NEW k \in Job, job' = k, k.run = job.run,
           JobInOrder(k, Stored, Given, request'[job.run])
    PROVE  StageInvariant'
<1>1. /\ request' \in [Run -> [Task -> Request]]
      /\ \A r \in Run : r # job.run => request'[r] = request[r]
      /\ \A x \in Task : request'[job.run][x] \in {"approved", "accepted"} => x \in Given
      /\ ApprovalsNoted(Stored, Given, request'[job.run])
  BY AskFacts
<1>2. run \in [Run -> RunObj] /\ granted \in [Run -> SUBSET Task]
  BY WorldOfInvariant
<1>3. TypeOK'
  BY <1>1, <1>2 DEF TypeOK, WorldTypes
<1>4. ASSUME NEW r \in Run
      PROVE  /\ Sound(run'[r], granted'[r], request'[r])
             /\ \A x \in Task : request'[r][x] \in {"approved", "accepted"} => x \in granted'[r]
  <2>1. CASE r = job.run
    <3>1. Sound(Stored, Given, Asks)
      BY DEF StageInvariant, Stored, Given, Asks
    <3>2. Sound(Stored, Given, request'[job.run])
      BY <1>1, <3>1 DEF Sound
    <3> QED BY <1>1, <2>1, <3>2 DEF Stored, Given
  <2>2. CASE r # job.run
    BY <1>1, <2>2 DEF StageInvariant
  <2> QED BY <2>1, <2>2
<1>5. job'.run \in Run /\ JobInOrder(job', run'[job'.run], granted'[job'.run], request'[job'.run])
  BY DEF Stored, Given
<1> QED BY <1>3, <1>4, <1>5 DEF StageInvariant

----------------------------------------------------------------------------
(* Approvals, and what comes before and after a stage.                     *)

\* The run in memory notes the request.
LEMMA AskedKeeps ==
    ASSUME StageInvariant, job \in Job, job.run \in Run, About(job, Stored),
           NEW m \in RunObj, m.init = "ok", m.task = job.mem.task,
           Sound(job.mem, Given, Asks), Sound(m, Given, Asks),
           NEW t \in Task, AskApproval(t), NEW n, n = Asked(m, t)
    PROVE  /\ n \in RunObj /\ Sound(n, Given, request'[job.run])
           /\ n.init = m.init /\ n.members = m.members /\ n.cluster = m.cluster
           /\ n.stage = m.stage /\ n.done = m.done /\ n.aged = m.aged /\ n.rested = m.rested
           /\ Granted(t) => n.task[t] = "approved"
           /\ \A x \in Task : job.mem.task[x] = "approved" => n.task[x] = "approved"
<1> DEFINE note == IF Granted(t) THEN "approved" ELSE "created"
           task == [m.task EXCEPT ![t] = note]
           q == request'[job.run]
           given == Given
           asked == Asks
<1>1. note \in {"created", "approved"} /\ n = [m EXCEPT !.task = task]
  BY DEF Asked
<1>2. m.task[t] = "approved" => note = "approved"
  BY DEF Granted
<1>3. /\ \A x \in Task : x # t => q[x] = asked[x]
      /\ note = "approved" => t \in given /\ q[t] \in {"absent", "accepted"}
  BY AskFacts
<1>4. StagesInOrder(m) /\ ApprovalsNoted(m, given, asked) /\ DeletionApproved(m)
  BY DEF Sound
<1>5. \A x \in Task : m.task[x] = "approved" => n.task[x] = "approved"
  BY SMTT(120), <1>1, <1>2 DEF RunObj
<1>51. Granted(t) => note = "approved"
  OBVIOUS
<1>6. /\ task \in [Task -> {"none", "created", "approved"}]
      /\ \A x \in Task : task[x] = IF x = t THEN note ELSE m.task[x]
  BY SMTT(120), <1>1 DEF RunObj
<1> HIDE DEF note, task, q, given, asked
<1>7. /\ n.init = m.init /\ n.members = m.members /\ n.cluster = m.cluster
      /\ n.stage = m.stage /\ (n.begun <=> m.begun) /\ n.task = task /\ n.done = m.done
      /\ n.elapsed = m.elapsed /\ n.aged = m.aged /\ n.rested = m.rested
  BY <1>1 DEF RunObj
<1>8. n \in RunObj
  BY SMTT(120), <1>1, <1>6 DEF RunObj
<1>9. StagesInOrder(n)
  BY SMTT(120), <1>4, <1>7 DEF StagesInOrder, Unfinished
<1>10. ApprovalsNoted(n, given, q)
  <2>1. ASSUME NEW x \in Task, n.task[x] = "approved"
        PROVE  x \in given /\ q[x] \in {"absent", "accepted"}
    BY SMTT(120), <1>3, <1>4, <1>6, <1>7, <2>1 DEF ApprovalsNoted
  <2>2. ASSUME NEW s \in StageIndex
        PROVE  /\ Stages[s].before /\ (\E c \in n.members[s] : n.cluster[c] # "idle")
                  => n.task[<<s, "before">>] = "approved"
               /\ Stages[s].after /\ n.stage[s] = "succeeded" /\ n.members[s] # {}
                  => n.task[<<s, "after">>] = "approved"
    <3>1. <<s, "before">> \in Task /\ <<s, "after">> \in Task
      BY Indices, Tasks
    <3> QED BY SMTT(120), <1>4, <1>5, <1>7, <3>1 DEF ApprovalsNoted
  <2> QED BY <2>1, <2>2 DEF ApprovalsNoted
<1>11. DeletionApproved(n)
  <2>1. <<DeleteStage, "before">> \in Task
    BY Indices, Tasks
  <2> QED BY <1>4, <1>5, <1>7, <2>1 DEF DeletionApproved
<1>12. Sound(n, given, q)
  BY <1>9, <1>10, <1>11 DEF Sound
<1>13. Granted(t) => n.task[t] = "approved"
  BY <1>51, <1>6, <1>7
<1> QED BY <1>5, <1>7, <1>8, <1>12, <1>13 DEF given, q

\* A stage begins with its approval; the delete stage looks at its clusters first.
LEMMA BeginKeeps ==
    ASSUME job \in Job, job.run \in Run, job.pc = "before", job.finished = 0,
           NEW stored, About(job, stored),
           NEW m \in RunObj, m.init = "ok", m.done = "none",
           m.members = job.mem.members, m.stage = job.mem.stage,
           \A x \in Task : job.mem.task[x] = "approved" => m.task[x] = "approved",
           NEW given, NEW asked, Sound(m, given, asked),
           job.stage \in StageIndex /\ Stages[job.stage].before
              => m.task[<<job.stage, "before">>] = "approved",
           job.stage = DeleteStage /\ DeleteGate /\ Removed(job.view) # {}
              => m.task[<<DeleteStage, "before">>] = "approved"
    PROVE  /\ Begin(m) \in Job /\ Begin(m).run = job.run
           /\ JobInOrder(Begin(m), stored, given, asked)
<1>1. job.stage \in 1..DeleteStage
  BY DEF Job
<1>2. CASE job.stage # DeleteStage
  <2> DEFINE k == [job EXCEPT !.pc = "clusters", !.mem = m]
  <2>1. Begin(m) = k /\ job.stage \in StageIndex
    BY <1>1, <1>2, Indices DEF Begin
  <2>2. k \in Job
    BY DEF Job
  <2>3. /\ k.pc = "clusters" /\ k.run = job.run /\ k.mem = m /\ k.stage = job.stage
        /\ k.todo = job.todo /\ k.finished = 0
    BY DEF Job
  <2> HIDE DEF k
  <2>4. About(k, stored)
    BY <2>3 DEF About
  <2>5. Entered(k)
    BY <2>1, <2>3 DEF Entered
  <2>6. Counted(k)
    <3> DEFINE D == {c \in k.mem.members[k.stage] \ k.todo : k.mem.cluster[c] = "succeeded"}
    <3>1. D \subseteq Cluster
      BY <1>1, <2>3 DEF RunObj
    <3> HIDE DEF D
    <3>2. Cardinality(D) \in Nat
      BY <3>1, UpdateRunAssumption, FS_Subset, FS_CardinalityType DEF UpdateRunAssumption
    <3>3. k.finished <= Cardinality(D)
      BY SMTT(120), <2>3, <3>2
    <3> QED BY <3>3 DEF D, Counted
  <2>7. JobInOrder(k, stored, given, asked)
    BY <2>3, <2>4, <2>5, <2>6 DEF JobInOrder
  <2> QED BY <2>1, <2>2, <2>3, <2>7
<1>3. CASE job.stage = DeleteStage
  <2> DEFINE x == MarkStage(m, DeleteStage, "started")
             begun == [x EXCEPT !.begun = TRUE]
             bad == MarkStage(begun, DeleteStage, "failed")
             done == SyncDeletion(begun, job.view)
             T == {c \in Removed(job.view) : m.cluster[c] = "idle"}
  <2>0. /\ DeleteStage \in 1..DeleteStage /\ DeleteStage \notin StageIndex
        /\ {"started", "failed"} \subseteq StageReason /\ "succeeded" \in ClusterReason
    BY Indices DEF StageReason, ClusterReason
  <2>1. x \in RunObj /\ StagesInOrder(x) /\ ApprovalsNoted(x, given, asked)
    BY <2>0, MarkStageKeeps DEF Sound
  <2>2. /\ x.init = "ok" /\ x.done = "none" /\ x.members = m.members /\ x.task = m.task
        /\ \A t \in StageIndex : x.stage[t] = m.stage[t]
    BY SMTT(120), <2>0, MarkStageFields, Indices
  <2> HIDE DEF x
  <2>3. /\ begun \in RunObj /\ begun.init = x.init /\ begun.done = x.done
        /\ begun.members = x.members /\ begun.task = x.task /\ begun.stage = x.stage
        /\ begun.cluster = x.cluster /\ begun.aged = x.aged /\ begun.rested = x.rested
        /\ begun.elapsed = x.elapsed
    BY <2>1 DEF RunObj
  <2> HIDE DEF begun
  <2>4. StagesInOrder(begun)
    BY SMTT(120), <2>1, <2>2, <2>3 DEF StagesInOrder, Unfinished
  <2>5. ApprovalsNoted(begun, given, asked)
    BY SMTT(120), <2>1, <2>3 DEF ApprovalsNoted
  <2>6. CASE DeletionInconsistent(m, job.view)
    <3> DEFINE n == Failed(bad, "unexpected")
    <3>1. /\ bad \in RunObj /\ StagesInOrder(bad) /\ ApprovalsNoted(bad, given, asked)
          /\ bad.init = "ok"
      <4>1. begun.init = "ok"
        BY <2>2, <2>3
      <4>2. bad \in RunObj /\ StagesInOrder(bad) /\ ApprovalsNoted(bad, given, asked)
        BY <2>0, <2>3, <2>4, <2>5, <4>1, MarkStageKeeps
      <4>3. bad.init = begun.init
        BY SMTT(120), <2>0, <2>3, MarkStageFields
      <4> QED BY <4>1, <4>2, <4>3
    <3>2. Begin(m) = [job EXCEPT !.pc = "record", !.mem = n]
      BY <1>3, <2>6 DEF Begin, BeginDeletion, begun, x
    <3> HIDE DEF bad
    <3>3. n \in RunObj /\ Alike(bad, n) /\ n.done = "failed"
      BY <3>1, FailedType, FailedAlike
    <3> HIDE DEF n
    <3>4. DeletionApproved(n)
      BY <3>3 DEF DeletionApproved
    <3>5. Sound(n, given, asked)
      BY <3>1, <3>3, <3>4, AlikeSound DEF Sound
    <3> DEFINE k == [job EXCEPT !.pc = "record", !.mem = n]
    <3>6. k \in Job /\ k.run = job.run /\ JobInOrder(k, stored, given, asked)
      BY <3>3, <3>5, RecordKeeps
    <3> QED BY <3>2, <3>6
  <2>7. CASE ~DeletionInconsistent(m, job.view)
    <3> DEFINE k == [job EXCEPT !.pc = "delete", !.mem = done, !.todo = T]
               S == begun.members[DeleteStage] \ Removed(job.view)
    <3>1. Begin(m) = k
      BY <1>3, <2>7 DEF Begin, BeginDeletion, begun, x
    <3>2. S \subseteq begun.members[DeleteStage] /\ done = MarkCluster(begun, S, "succeeded")
      BY DEF SyncDeletion
    <3> HIDE DEF S, done
    <3>3. done \in RunObj /\ StagesInOrder(done) /\ ApprovalsNoted(done, given, asked)
      BY <2>0, <2>2, <2>3, <2>4, <2>5, <3>2, MarkClusterKeeps
    <3>4. /\ done.init = "ok" /\ done.done = "none" /\ done.members = m.members
          /\ done.task = m.task /\ \A t \in StageIndex : done.stage[t] = m.stage[t]
      BY SMTT(120), <2>2, <2>3, <3>2, MarkClusterFields
    <3>5. T \subseteq Removed(job.view) /\ T \subseteq m.members[DeleteStage] /\ T \subseteq Cluster
      BY SMTT(120), <2>7 DEF DeletionInconsistent, Removed
    <3> HIDE DEF T
    <3>6. k \in Job
      BY <3>3, <3>5 DEF Job
    <3>7. /\ k.pc = "delete" /\ k.run = job.run /\ k.mem = done /\ k.stage = DeleteStage
          /\ k.todo = T /\ k.view = job.view
      BY <1>3 DEF Job
    <3> HIDE DEF k
    <3>8. About(k, stored)
      BY SMTT(120), <1>3, <2>0, <3>4, <3>5, <3>7 DEF About
    <3>9. Deletes(k)
      BY <1>3, <3>4, <3>5, <3>7 DEF Deletes
    <3>10. JobInOrder(k, stored, given, asked)
      BY SMTT(120), <3>3, <3>7, <3>8, <3>9 DEF JobInOrder
    <3> QED BY <3>1, <3>6, <3>7, <3>10
  <2> QED BY SMTT(120), <2>6, <2>7
<1> QED BY <1>2, <1>3

\* checkBeforeStageTasksStatus: a stage begins once it is approved.
LEMMA BeforeStageStep ==
    ASSUME StageInvariant, BeforeStage
    PROVE  StageInvariant'
<1> DEFINE s == job.stage
           t == <<s, "before">>
           m == Asked(job.mem, t)
<1>0. job.pc = "before" /\ UNCHANGED <<world, run, ghosts>>
  BY DEF BeforeStage
<1>1. UNCHANGED <<run, granted>> /\ WorldTypes' /\ job \in Job
  BY <1>0, WorldOfInvariant DEF world, ghosts, WorldTypes
<1>2. job.run \in Run /\ JobInOrder(job, Stored, Given, Asks)
  BY <1>0 DEF StageInvariant, Stored, Given, Asks
<1>3. /\ About(job, Stored) /\ Sound(job.mem, Given, Asks) /\ job.finished = 0
      /\ job.mem \in RunObj /\ s \in 1..DeleteStage
      /\ job.mem.init = "ok" /\ job.mem.done = "none"
  BY <1>0, <1>1, <1>2 DEF JobInOrder, About, Job
<1>4. CASE ~Gated(s)
  <2>1. job' = Begin(job.mem) /\ UNCHANGED request
    BY <1>4 DEF BeforeStage
  <2>2. s \in StageIndex => ~Stages[s].before
    BY <1>4, Indices DEF Gated
  <2>3. s = DeleteStage /\ DeleteGate /\ Removed(job.view) # {}
           => job.mem.task[<<DeleteStage, "before">>] = "approved"
    BY <1>3, <1>4 DEF Gated, Sound, DeletionApproved
  <2>4. /\ Begin(job.mem) \in Job /\ Begin(job.mem).run = job.run
        /\ JobInOrder(Begin(job.mem), Stored, Given, Asks)
    <3> DEFINE mem == job.mem
               stored == Stored
               given == Given
               asked == Asks
    <3>1. /\ About(job, stored) /\ Sound(mem, given, asked) /\ mem \in RunObj
          /\ mem.init = "ok" /\ mem.done = "none"
          /\ mem.members = job.mem.members /\ mem.stage = job.mem.stage
          /\ mem.task = job.mem.task
          /\ s = DeleteStage /\ DeleteGate /\ Removed(job.view) # {}
               => mem.task[<<DeleteStage, "before">>] = "approved"
      BY <1>3, <2>3
    <3> HIDE DEF mem, stored, given, asked
    <3>2. /\ Begin(mem) \in Job /\ Begin(mem).run = job.run
          /\ JobInOrder(Begin(mem), stored, given, asked)
      BY SMTT(120), <1>0, <1>1, <1>2, <1>3, <2>2, <3>1, BeginKeeps
    <3> QED BY <3>2 DEF mem, stored, given, asked
  <2> QED BY <1>1, <1>2, <2>1, <2>4, JobStepKeeps DEF Stored, Given, Asks
<1>5. CASE Gated(s)
  <2>0. t \in Task
    BY <1>3, Tasks
  <2>1. AskApproval(t)
    BY <1>5 DEF BeforeStage
  <2> DEFINE q == request'[job.run]
  <2>2. /\ m \in RunObj /\ Sound(m, Given, q)
        /\ m.init = "ok" /\ m.members = job.mem.members /\ m.cluster = job.mem.cluster
        /\ m.stage = job.mem.stage /\ m.done = "none"
        /\ Granted(t) => m.task[t] = "approved"
        /\ \A x \in Task : job.mem.task[x] = "approved" => m.task[x] = "approved"
    BY SMTT(120), <1>1, <1>2, <1>3, <2>0, <2>1, AskedKeeps
  <2>3. CASE ~Granted(t)
    <3> DEFINE w == MarkStage(m, s, "waiting")
               n == MarkRun(w, "waiting")
               k == [job EXCEPT !.pc = "record", !.mem = n]
    <3>1. job' = k
      BY <1>5, <2>3 DEF BeforeStage
    <3> HIDE DEF m
    <3>2. s \in StageIndex => Unfinished(m, s) = {}
      <4>1. ASSUME s \in StageIndex PROVE \A c \in job.mem.members[s] : job.mem.cluster[c] = "idle"
        <5>1. Stages[s].before
          BY <1>5, <4>1, Indices DEF Gated
        <5>2. job.mem.task[<<s, "before">>] # "approved"
          BY <2>3 DEF Granted
        <5> QED BY <1>3, <4>1, <5>1, <5>2 DEF Sound, ApprovalsNoted
      <4> QED BY <2>2, <4>1 DEF Unfinished
    <3>3. w \in RunObj /\ Sound(w, Given, q)
      <4>1. "waiting" \in StageReason
        BY DEF StageReason
      <4> QED BY SMTT(120), <1>3, <2>2, <3>2, <4>1, MarkStageKeeps DEF Sound
    <3> HIDE DEF w
    <3>4. n \in RunObj /\ Alike(w, n) /\ n.done = w.done
      BY <3>3, MarkRunType, MarkRunAlike
    <3> HIDE DEF n
    <3>5. Sound(n, Given, q)
      BY <3>3, <3>4, AlikeSound DEF Sound
    <3> DEFINE stored == Stored
               given == Given
    <3>6. Sound(n, given, q)
      BY <3>5
    <3> HIDE DEF stored, given, q
    <3>7. k \in Job /\ k.run = job.run /\ JobInOrder(k, stored, given, q)
      BY <1>1, <3>4, <3>6, RecordKeeps
    <3> HIDE DEF k
    <3> QED BY <1>1, <1>2, <1>3, <2>0, <2>1, <3>1, <3>7, AskStepKeeps DEF stored, given, q
  <2>4. CASE Granted(t)
    <3> DEFINE n == IF s = DeleteStage THEN MarkRun(m, "progressing") ELSE m
    <3>1. job' = Begin(n)
      BY <1>5, <2>4 DEF BeforeStage
    <3> HIDE DEF m
    <3>2. n \in RunObj /\ Alike(m, n) /\ n.done = m.done
      <4>1. MarkRun(m, "progressing") \in RunObj
        BY <2>2, MarkRunType
      <4>2. /\ Alike(m, MarkRun(m, "progressing"))
            /\ MarkRun(m, "progressing").done = m.done
        BY <2>2, MarkRunAlike
      <4>3. Alike(m, m)
        BY DEF Alike
      <4> QED BY <2>2, <4>1, <4>2, <4>3
    <3> HIDE DEF n
    <3> DEFINE stored == Stored
               given == Given
    <3>3. Sound(n, given, q)
      BY <2>2, <3>2, AlikeSound DEF Sound
    <3>4. About(job, stored)
      BY <1>3
    <3>5. /\ n.init = "ok" /\ n.done = "none" /\ n.members = job.mem.members
          /\ n.stage = job.mem.stage /\ n.task[t] = "approved"
          /\ \A x \in Task : job.mem.task[x] = "approved" => n.task[x] = "approved"
      BY <2>2, <2>4, <3>2 DEF Alike
    <3> HIDE DEF stored, given, q
    <3>6. Begin(n) \in Job /\ Begin(n).run = job.run /\ JobInOrder(Begin(n), stored, given, q)
      BY <1>0, <1>1, <1>2, <1>3, <3>2, <3>3, <3>4, <3>5, BeginKeeps
    <3> QED BY <1>1, <1>2, <1>3, <2>0, <2>1, <3>1, <3>6, AskStepKeeps DEF stored, given, q
  <2> QED BY <2>3, <2>4
<1> QED BY <1>4, <1>5

\* checkAfterStageTasksStatus: the run notes that the wait time has passed.
LEMMA ElapsedKeeps ==
    ASSUME NEW mem \in RunObj, NEW s \in StageIndex, mem.init = "ok",
           \A c \in mem.members[s] : mem.cluster[c] = "succeeded",
           NEW given, NEW asked, Sound(mem, given, asked),
           NEW waited \in BOOLEAN, waited <=> mem.elapsed[s] \/ mem.aged[s],
           NEW m, m = [mem EXCEPT !.elapsed[s] = waited]
    PROVE  /\ m \in RunObj /\ Sound(m, given, asked)
           /\ m.init = "ok" /\ m.members = mem.members /\ m.cluster = mem.cluster
           /\ m.stage = mem.stage /\ m.done = mem.done /\ m.task = mem.task
           /\ m.rested = mem.rested
<1> DEFINE elapsed == [mem.elapsed EXCEPT ![s] = waited]
<1>1. m = [mem EXCEPT !.elapsed = elapsed]
  OBVIOUS
<1>2. /\ elapsed \in [StageIndex -> BOOLEAN]
      /\ \A t \in StageIndex : t # s => (elapsed[t] <=> mem.elapsed[t])
      /\ elapsed[s] <=> mem.elapsed[s] \/ mem.aged[s]
  BY SMTT(120) DEF RunObj
<1> HIDE DEF elapsed
<1>3. m \in RunObj
  BY SMTT(120), <1>1, <1>2 DEF RunObj
<1>4. /\ m.init = mem.init /\ m.members = mem.members /\ m.cluster = mem.cluster
      /\ m.stage = mem.stage /\ m.done = mem.done /\ m.task = mem.task
      /\ m.rested = mem.rested /\ m.aged = mem.aged /\ (m.begun <=> mem.begun)
      /\ m.elapsed = elapsed
  BY <1>1 DEF RunObj
<1>5. StagesInOrder(mem) /\ ApprovalsNoted(mem, given, asked) /\ DeletionApproved(mem)
  BY DEF Sound
<1>6. \A t \in StageIndex : m.elapsed[t] /\ m.members[t] # {} => m.rested[t]
  <2>1. mem.members[s] # {} /\ (mem.elapsed[s] \/ mem.aged[s]) => mem.rested[s]
    BY <1>5 DEF StagesInOrder
  <2>2. ASSUME NEW t \in StageIndex, m.elapsed[t], m.members[t] # {} PROVE m.rested[t]
    <3>1. CASE t = s
      BY <1>2, <1>4, <2>1, <2>2, <3>1
    <3>2. CASE t # s
      BY <1>2, <1>4, <1>5, <2>2, <3>2 DEF StagesInOrder
    <3> QED BY <3>1, <3>2
  <2> QED BY <2>2
<1>7. StagesInOrder(m)
  BY SMTT(120), <1>4, <1>5, <1>6 DEF StagesInOrder, Unfinished
<1>8. ApprovalsNoted(m, given, asked) /\ DeletionApproved(m)
  BY SMTT(120), <1>4, <1>5 DEF ApprovalsNoted, DeletionApproved
<1> QED BY <1>3, <1>4, <1>7, <1>8 DEF Sound

\* checkAfterStageTasksStatus: a stage has succeeded once its tasks are done.
LEMMA AfterStageStep ==
    ASSUME StageInvariant, AfterStage
    PROVE  StageInvariant'
<1> DEFINE s == job.stage
           t == <<s, "after">>
           waited == job.mem.elapsed[s] \/ job.mem.aged[s]
           m == IF Stages[s].wait THEN [job.mem EXCEPT !.elapsed[s] = waited] ELSE job.mem
           note == IF Stages[s].after THEN Asked(m, t) ELSE m
           passed == /\ Stages[s].wait => waited
                     /\ Stages[s].after => Granted(t)
           up == MarkStage(note, s, "succeeded")
           n == IF passed THEN MarkRun(up, "progressing") ELSE note
           q == request'[job.run]
<1>0. /\ job.pc = "after" /\ UNCHANGED <<world, run, ghosts>>
      /\ IF Stages[s].after THEN AskApproval(t) ELSE UNCHANGED request
      /\ job' = [job EXCEPT !.pc = "record", !.mem = n]
  BY DEF AfterStage
<1>1. UNCHANGED <<run, granted>> /\ WorldTypes' /\ job \in Job
  BY <1>0, WorldOfInvariant DEF world, ghosts, WorldTypes
<1>2. job.run \in Run /\ JobInOrder(job, Stored, Given, Asks)
  BY <1>0 DEF StageInvariant, Stored, Given, Asks
<1>3. /\ About(job, Stored) /\ Sound(job.mem, Given, Asks) /\ Entered(job)
      /\ \A c \in job.mem.members[s] : job.mem.cluster[c] = "succeeded"
  BY <1>0, <1>2 DEF JobInOrder
<1>4. /\ job.mem \in RunObj /\ s \in 1..DeleteStage /\ s \in StageIndex
      /\ job.mem.init = "ok" /\ job.mem.done = "none"
  BY <1>1, <1>3 DEF About, Entered, Job
<1>5. /\ m \in RunObj /\ Sound(m, Given, Asks)
      /\ m.init = "ok" /\ m.members = job.mem.members /\ m.cluster = job.mem.cluster
      /\ m.stage = job.mem.stage /\ m.done = job.mem.done /\ m.task = job.mem.task
      /\ m.rested = job.mem.rested
  <2>1. CASE Stages[s].wait
    <3>1. waited \in BOOLEAN /\ (waited <=> job.mem.elapsed[s] \/ job.mem.aged[s])
      BY <1>4 DEF RunObj
    <3>2. m = [job.mem EXCEPT !.elapsed[s] = waited]
      BY <2>1
    <3> HIDE DEF waited, m
    <3> QED BY SMTT(120), <1>3, <1>4, <3>1, <3>2, ElapsedKeeps
  <2>2. CASE ~Stages[s].wait
    BY <1>3, <1>4, <2>2
  <2> QED BY <2>1, <2>2
<1>6. t \in Task
  BY <1>4, Tasks
<1>7. Stages[s].wait /\ waited /\ job.mem.members[s] # {} => job.mem.rested[s]
  <2>1. StagesInOrder(job.mem)
    BY <1>3 DEF Sound
  <2>2. job.mem.members[s] # {} /\ (job.mem.elapsed[s] \/ job.mem.aged[s]) => job.mem.rested[s]
    BY <1>3, <1>4, <2>1 DEF StagesInOrder
  <2> QED BY <2>2
<1> HIDE DEF waited, m
<1>8. /\ note \in RunObj /\ Sound(note, Given, q) /\ note.init = "ok"
      /\ note.members = job.mem.members /\ note.cluster = job.mem.cluster
      /\ note.rested = job.mem.rested
      /\ Stages[s].after /\ Granted(t) => note.task[t] = "approved"
  <2>1. CASE Stages[s].after
    <3>1. note = Asked(m, t) /\ AskApproval(t)
      BY <1>0, <2>1
    <3> HIDE DEF note, t
    <3>2. /\ job \in Job /\ job.run \in Run /\ About(job, Stored)
          /\ Sound(job.mem, Given, Asks) /\ Sound(m, Given, Asks)
          /\ m \in RunObj /\ m.init = "ok" /\ m.task = job.mem.task
      BY <1>1, <1>2, <1>3, <1>5
    <3>3. /\ note \in RunObj /\ Sound(note, Given, request'[job.run])
          /\ note.init = m.init /\ note.members = m.members /\ note.cluster = m.cluster
          /\ note.rested = m.rested
          /\ Granted(t) => note.task[t] = "approved"
      BY SMTT(120), <1>6, <3>1, <3>2, AskedKeeps
    <3> QED BY <1>5, <3>3
  <2>2. CASE ~Stages[s].after
    BY <1>0, <1>5, <2>2 DEF Asks
  <2> QED BY <2>1, <2>2
<1> HIDE DEF note
<1>9. n \in RunObj /\ Sound(n, Given, q)
  <2>1. CASE passed
    <3>1. Unfinished(note, s) = {} /\ "succeeded" \in StageReason
      BY <1>3, <1>8 DEF Unfinished, StageReason
    <3>2. MaySucceed(note, s)
      BY <1>7, <1>8, <2>1 DEF MaySucceed
    <3>3. up \in RunObj /\ Sound(up, Given, q)
      BY <1>4, <1>8, <3>1, <3>2, MarkStageKeeps DEF Sound
    <3> DEFINE x == MarkRun(up, "progressing")
    <3> HIDE DEF up
    <3>4. x \in RunObj /\ Alike(up, x) /\ x.done = up.done
      BY <3>3, MarkRunType, MarkRunAlike
    <3>5. n = x
      BY <2>1
    <3> HIDE DEF x, n
    <3> QED BY <3>3, <3>4, <3>5, AlikeSound DEF Sound
  <2>2. CASE ~passed
    BY <1>8, <2>2
  <2> QED BY SMTT(120), <2>1, <2>2
<1> DEFINE k == [job EXCEPT !.pc = "record", !.mem = n]
           stored == Stored
           given == Given
<1>10. job' = k /\ Sound(n, given, q)
  BY <1>0, <1>9
<1> HIDE DEF n, stored, given, q
<1>11. k \in Job /\ k.run = job.run /\ JobInOrder(k, stored, given, q)
  BY <1>1, <1>9, <1>10, RecordKeeps
<1> HIDE DEF k
<1>12. CASE Stages[s].after
  <2>1. AskApproval(t)
    BY <1>0, <1>12
  <2> QED BY <1>1, <1>2, <1>3, <1>6, <1>10, <1>11, <2>1, AskStepKeeps DEF stored, given, q
<1>13. CASE ~Stages[s].after
  <2>1. UNCHANGED request
    BY <1>0, <1>13
  <2>2. JobInOrder(k, run[k.run], granted[k.run], request[k.run])
    BY <1>11, <2>1 DEF stored, given, q, Stored, Given
  <2> QED BY <1>1, <1>2, <1>10, <1>11, <2>1, <2>2, JobStepKeeps
<1> QED BY <1>12, <1>13

============================================================================
