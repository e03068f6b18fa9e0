---------------------------- MODULE MembersProofs ----------------------------
(***************************************************************************)
(* The watcher of MemberClusters wakes the scheduler for every cluster     *)
(* that could be picked, for any number of MemberClusters created under    *)
(* the name, edits, faults and expired heartbeats.                         *)
(***************************************************************************)
EXTENDS Members, TLAPS

\* Zenon proves what is not arithmetic; SMT is cited for the rest.
USE ZenonT(30)

----------------------------------------------------------------------------
(* The inductive invariant.                                                *)

\* A record of a MemberCluster is one of an existing object exactly when it has
\* the uid of one, and only an existing object has finalizers.
Sensible(m) ==
    /\ m.phase = "None" <=> m.uid = 0
    /\ m.phase = "None" => m.fin = {}
    /\ m.uid <= budget.creates

\* The cache follows the MemberCluster: a report is copied to an object only by a
\* reconciliation that has read it in the cache, so that an object the cache has
\* not seen yet carries no report.
CacheFollows ==
    /\ Sensible(mc) /\ Sensible(seen.mc) /\ Sensible(job.mc)
    /\ mc.uid # seen.mc.uid => mc.status.joined = "None"
    /\ (job.mc.uid = mc.uid /\ mc.uid # 0) => seen.mc.uid = mc.uid
    /\ job.step # "idle" => job.mc.uid # 0

WatchInvariant == TypeOK /\ CacheFollows /\ NoMissedCluster

----------------------------------------------------------------------------
(* Types.                                                                  *)

\* The bounds are natural numbers.
LEMMA Bounds ==
    /\ MaxCreates \in Nat /\ MaxEdits \in Nat /\ MaxFaults \in Nat
    /\ MaxExpiries \in Nat /\ MaxEvents \in Nat
BY MembersAssumption

\* The objects that do not exist.
LEMMA NothingTypes ==
    NoReport \in Status /\ NoMC \in MemberCluster /\ NoIMC \in InternalMemberCluster
BY SMTT(60), Bounds DEF NoReport, Status, JoinStates, NoMC, MemberCluster, NoIMC, InternalMemberCluster

\* What the clock does to a report, and to the objects that carry one.
LEMMA AgedFields ==
    ASSUME NEW m \in MemberCluster
    PROVE  /\ AgedMC(m) \in MemberCluster
           /\ AgedMC(m).phase = m.phase /\ AgedMC(m).uid = m.uid /\ AgedMC(m).fin = m.fin
           /\ AgedMC(m).status.joined = m.status.joined /\ ~AgedMC(m).status.fresh
<1> DEFINE st == m.status
           new == Aged(st)
<1>1. st \in Status
  BY DEF MemberCluster
<1>2. new \in Status /\ new.joined = st.joined /\ new.fresh = FALSE
  BY <1>1 DEF Aged, Status
<1>3. AgedMC(m) = [m EXCEPT !.status = new]
  BY DEF AgedMC
<1> HIDE DEF new
<1> QED BY <1>2, <1>3 DEF MemberCluster

\* The same for an InternalMemberCluster.
LEMMA AgedIMCType ==
    ASSUME NEW i \in InternalMemberCluster
    PROVE  AgedIMC(i) \in InternalMemberCluster
<1> DEFINE st == i.status
           new == Aged(st)
<1>1. st \in Status
  BY DEF InternalMemberCluster
<1>2. new \in Status
  BY <1>1 DEF Aged, Status
<1>3. AgedIMC(i) = [i EXCEPT !.status = new]
  BY DEF AgedIMC
<1> HIDE DEF new
<1> QED BY <1>2, <1>3 DEF InternalMemberCluster

\* A report that is copied changes neither the object's life nor its uid.
LEMMA SyncFields ==
    ASSUME NEW m \in MemberCluster, NEW i \in InternalMemberCluster
    PROVE  /\ SyncStatus(m, i) \in MemberCluster
           /\ SyncStatus(m, i).phase = m.phase /\ SyncStatus(m, i).uid = m.uid
           /\ SyncStatus(m, i).fin = m.fin
<1> DEFINE j == AggregateJoined(i.status)
           new == [m EXCEPT !.status = i.status, !.joined = j, !.current = TRUE,
                            !.ready = IF j = "False" THEN "False" ELSE @]
<1>1. i.status \in Status
  BY DEF InternalMemberCluster
<1>2. j \in JoinStates
  BY <1>1 DEF AggregateJoined, Status, JoinStates
<1>3. SyncStatus(m, i) = IF i.state = "None" THEN m ELSE new
  BY DEF SyncStatus
<1> HIDE DEF j
<1>4. new \in MemberCluster /\ new.phase = m.phase /\ new.uid = m.uid /\ new.fin = m.fin
  BY <1>1, <1>2 DEF MemberCluster
<1> QED BY <1>3, <1>4

\* A finalizer that goes takes the object with it when it was the last one of an
\* object that is being deleted.
LEMMA RemoveFields ==
    ASSUME NEW m \in MemberCluster, NEW f
    PROVE  /\ RemoveFinalizer(m, f) \in MemberCluster
           /\ \/ RemoveFinalizer(m, f) = NoMC
              \/ /\ RemoveFinalizer(m, f).phase = m.phase /\ RemoveFinalizer(m, f).uid = m.uid
                 /\ RemoveFinalizer(m, f).status = m.status
                 /\ RemoveFinalizer(m, f).fin \subseteq m.fin
BY NothingTypes DEF RemoveFinalizer, MemberCluster

\* What the controller wants the InternalMemberCluster to be.
LEMMA WantedType ==
    ASSUME NEW m \in MemberCluster, NEW i \in InternalMemberCluster
    PROVE  WantedIMC(m, i) \in InternalMemberCluster
BY DEF WantedIMC, MemberCluster, InternalMemberCluster

\* The report of a faultless call, and the one that says that the agent has left.
LEMMA LeftType ==
    ASSUME TypeOK, NEW ok \in BOOLEAN
    PROVE  Left(ok) \in Status
<1>1. agent.imc.status \in Status
  BY DEF TypeOK, InternalMemberCluster
<1> DEFINE st == agent.imc.status
<1>2. Left(ok) = [st EXCEPT !.joined = IF ok THEN "False" ELSE "Unknown"]
  BY DEF Left
<1> HIDE DEF st
<1>3. st \in Status
  BY <1>1 DEF st
<1> QED BY <1>2, <1>3 DEF Status, JoinStates

\* Every report has a type, whether it is accepted or not.
LEMMA ReportedType ==
    ASSUME TypeOK, NEW st \in Status, Report(st)
    PROVE  imc' \in InternalMemberCluster /\ Reported(st) \in InternalMemberCluster
BY DEF TypeOK, Report, Reported, InternalMemberCluster

\* Spending keeps the budget within its bounds.
LEMMA SpendFields ==
    ASSUME TypeOK, NEW f \in {"creates", "edits", "faults", "expiries"}, Spend(f),
           budget[f] < (CASE f = "creates" -> MaxCreates [] f = "edits" -> MaxEdits
                          [] f = "faults" -> MaxFaults [] f = "expiries" -> MaxExpiries)
    PROVE  /\ budget' \in [creates : 0 .. MaxCreates, edits : 0 .. MaxEdits, faults : 0 .. MaxFaults,
                           expiries : 0 .. MaxExpiries]
           /\ budget'.creates = IF f = "creates" THEN budget.creates + 1 ELSE budget.creates
<1>1. budget' = [budget EXCEPT ![f] = budget[f] + 1]
  BY DEF Spend
<1>2. CASE f = "creates" BY SMTT(60), <1>1, <1>2, Bounds DEF TypeOK
<1>3. CASE f = "edits" BY SMTT(60), <1>1, <1>3, Bounds DEF TypeOK
<1>4. CASE f = "faults" BY SMTT(60), <1>1, <1>4, Bounds DEF TypeOK
<1>5. CASE f = "expiries" BY SMTT(60), <1>1, <1>5, Bounds DEF TypeOK
<1> QED BY <1>2, <1>3, <1>4, <1>5

\* A fault is paid for.
LEMMA FaultFields ==
    ASSUME TypeOK, Fault
    PROVE  /\ budget' \in [creates : 0 .. MaxCreates, edits : 0 .. MaxEdits, faults : 0 .. MaxFaults,
                           expiries : 0 .. MaxExpiries]
           /\ budget'.creates = budget.creates
<1>1. Spend("faults") /\ budget["faults"] < MaxFaults
  BY DEF Fault
<1> QED BY <1>1, SpendFields

----------------------------------------------------------------------------
(* Steps that write the MemberCluster, or do not touch it.                 *)

\* The MemberCluster goes, or it lives on under its uid and gets another report only
\* when the cache has seen it.
Written ==
    \/ mc' = NoMC
    \/ /\ mc'.uid = mc.uid
       /\ mc'.phase = "None" <=> mc.phase = "None"
       /\ mc'.phase = "None" => mc'.fin = {}
       /\ mc.uid # seen.mc.uid => mc'.status.joined = mc.status.joined

\* The reconciliation goes on with its copy, ends, or begins with the cached one.
JobMoves ==
    \/ job' = Idle
    \/ job.step # "idle" /\ job'.mc = job.mc
    \/ job' = job
    \/ /\ seen.mc.phase # "None"
       /\ job'.mc.uid = seen.mc.uid /\ job'.mc.phase # "None"

\* Such a step keeps the invariant when no event is delivered and nothing scheduled.
LEMMA WriteKeeps ==
    ASSUME WatchInvariant, TypeOK', Written, JobMoves,
           seen'.mc = seen.mc, budget'.creates = budget.creates, picked' = picked,
           queued.sched => queued'.sched
    PROVE  WatchInvariant'
<1>1. TypeOK /\ CacheFollows /\ NoMissedCluster
  BY DEF WatchInvariant
<1>2. NoMissedCluster'
  BY <1>1 DEF NoMissedCluster, IsEligible
<1>3. /\ mc.uid \in Nat /\ seen.mc.uid \in Nat /\ job.mc.uid \in Nat /\ budget.creates \in Nat
      /\ mc'.uid \in Nat /\ job'.mc.uid \in Nat
  BY SMTT(60), <1>1, Bounds DEF TypeOK, MemberCluster
<1>4. NoMC.uid = 0 /\ NoMC.phase = "None" /\ NoMC.fin = {} /\ NoMC.status.joined = "None"
  BY DEF NoMC, NoReport
<1>5. Idle.mc = NoMC /\ Idle.step = "idle"
  BY DEF Idle
<1>6. Sensible(mc)' /\ Sensible(seen.mc)'
  BY SMTT(60), <1>1, <1>3, <1>4 DEF CacheFollows, Sensible, Written
<1>7. Sensible(job.mc)' /\ (job.step # "idle" => job.mc.uid # 0)'
  BY SMTT(60), <1>1, <1>3, <1>4, <1>5 DEF CacheFollows, Sensible, JobMoves
<1>8. (mc.uid # seen.mc.uid => mc.status.joined = "None")'
  BY <1>1, <1>4 DEF CacheFollows, Written
<1>9. ((job.mc.uid = mc.uid /\ mc.uid # 0) => seen.mc.uid = mc.uid)'
  BY <1>1, <1>4, <1>5 DEF CacheFollows, Written, JobMoves
<1> QED BY <1>2, <1>6, <1>7, <1>8, <1>9 DEF WatchInvariant, CacheFollows

\* A MemberCluster is created: its uid is new, and it carries no report.
LEMMA CreateStep ==
    ASSUME WatchInvariant, CreateMC
    PROVE  WatchInvariant'
<1>1. TypeOK /\ CacheFollows /\ NoMissedCluster
  BY DEF WatchInvariant
<1>2. /\ budget' \in [creates : 0 .. MaxCreates, edits : 0 .. MaxEdits, faults : 0 .. MaxFaults,
                      expiries : 0 .. MaxExpiries]
      /\ budget'.creates = budget.creates + 1
  <2>1. Spend("creates") /\ budget["creates"] < MaxCreates
    BY DEF CreateMC
  <2> QED BY <1>1, <2>1, SpendFields
<1>3. /\ mc.phase = "None" /\ budget.creates < MaxCreates
      /\ mc' = [NoMC EXCEPT !.phase = "Live", !.uid = budget.creates + 1]
      /\ waited' = FALSE
      /\ UNCHANGED <<ns, rb, imc, work, seen, queued, job, profile, picked, agent, readded>>
  BY DEF CreateMC
<1>4. budget.creates \in 0 .. MaxCreates
  BY <1>1 DEF TypeOK
<1>5. /\ mc' \in MemberCluster /\ mc'.uid = budget.creates + 1 /\ mc'.phase = "Live"
      /\ mc'.status.joined = "None"
  <2> DEFINE n == budget.creates + 1
  <2>1. n \in 0 .. MaxCreates
    BY SMTT(60), <1>3, <1>4, Bounds
  <2>2. mc' = [NoMC EXCEPT !.phase = "Live", !.uid = n]
    BY <1>3
  <2> HIDE DEF n
  <2>3. /\ mc' \in MemberCluster /\ mc'.uid = n /\ mc'.phase = "Live"
        /\ mc'.status = NoMC.status
    BY <2>1, <2>2, NothingTypes DEF MemberCluster
  <2> QED BY SMTT(60), <2>3 DEF n, NoMC, NoReport
<1>6. TypeOK'
  <2>1. waited' \in BOOLEAN
    BY <1>3
  <2>2. budget' \in [creates : 0 .. MaxCreates, edits : 0 .. MaxEdits, faults : 0 .. MaxFaults,
                     expiries : 0 .. MaxExpiries]
    BY <1>2
  <2>3. mc' \in MemberCluster
    BY <1>5
  <2> QED BY SMTT(60), <1>1, <1>3, <2>1, <2>2, <2>3 DEF TypeOK
<1>7. NoMissedCluster'
  BY <1>1, <1>3 DEF NoMissedCluster, IsEligible
<1>8. seen.mc.uid \in Nat /\ job.mc.uid \in Nat
  BY SMTT(60), <1>1, Bounds DEF TypeOK, MemberCluster
<1>9. CacheFollows'
  BY SMTT(60), <1>1, <1>2, <1>3, <1>4, <1>5, <1>8, Bounds DEF CacheFollows, Sensible
<1> QED BY <1>6, <1>7, <1>9 DEF WatchInvariant

\* The user edits or deletes it.
LEMMA UserStep ==
    ASSUME WatchInvariant, EditMC \/ DeleteMC
    PROVE  WatchInvariant'
<1>1. TypeOK /\ CacheFollows /\ NoMissedCluster
  BY DEF WatchInvariant
<1>2. CASE EditMC
  <2>1. /\ budget' \in [creates : 0 .. MaxCreates, edits : 0 .. MaxEdits, faults : 0 .. MaxFaults,
                        expiries : 0 .. MaxExpiries]
        /\ budget'.creates = budget.creates
    <3>1. Spend("edits") /\ budget["edits"] < MaxEdits
      BY <1>2 DEF EditMC
    <3> QED BY <1>1, <3>1, SpendFields
  <2>2. /\ mc' \in MemberCluster /\ mc'.uid = mc.uid /\ mc'.phase = mc.phase /\ mc.phase = "Live"
        /\ mc'.status = mc.status
    <3>1. mc \in MemberCluster /\ mc.phase = "Live"
      BY <1>1, <1>2 DEF EditMC, TypeOK
    <3> DEFINE e == 1 - mc.spec
               t == ~mc.tainted
    <3>2. e \in 0 .. 1 /\ t \in BOOLEAN
      BY SMTT(60), <3>1 DEF MemberCluster
    <3>3. \/ mc' = [mc EXCEPT !.spec = e, !.current = FALSE]
          \/ mc' = [mc EXCEPT !.tainted = t, !.current = FALSE]
      BY <1>2 DEF EditMC
    <3> HIDE DEF e, t
    <3> QED BY <3>1, <3>2, <3>3 DEF MemberCluster
  <2>3. UNCHANGED <<ns, rb, imc, work, waited, seen, queued, job, profile, picked, agent, readded>>
    BY <1>2 DEF EditMC
  <2>4. TypeOK'
    BY SMTT(60), <1>1, <2>1, <2>2, <2>3 DEF TypeOK
  <2>5. Written /\ JobMoves
    BY <2>2, <2>3 DEF Written, JobMoves
  <2> QED BY <2>1, <2>3, <2>4, <2>5, WriteKeeps
<1>3. CASE DeleteMC
  <2>1. /\ mc' \in MemberCluster
        /\ \/ mc' = NoMC
           \/ /\ mc'.uid = mc.uid /\ mc'.phase = "Deleting" /\ mc.phase = "Live"
              /\ mc'.status = mc.status
    BY <1>1, <1>3, NothingTypes DEF DeleteMC, TypeOK, MemberCluster
  <2>2. UNCHANGED <<ns, rb, imc, work, waited, seen, queued, job, profile, picked, agent, readded,
                    budget>>
    BY <1>3 DEF DeleteMC
  <2>3. TypeOK'
    BY SMTT(60), <1>1, <2>1, <2>2 DEF TypeOK
  <2>4. Written /\ JobMoves
    BY <2>1, <2>2 DEF Written, JobMoves
  <2> QED BY <2>2, <2>3, <2>4, WriteKeeps
<1> QED BY <1>2, <1>3

\* The heartbeats expire: no copy is eligible any more.
LEMMA ExpireStep ==
    ASSUME WatchInvariant, Expire
    PROVE  WatchInvariant'
<1>1. TypeOK /\ CacheFollows /\ NoMissedCluster
  BY DEF WatchInvariant
<1>2. /\ budget' \in [creates : 0 .. MaxCreates, edits : 0 .. MaxEdits, faults : 0 .. MaxFaults,
                      expiries : 0 .. MaxExpiries]
      /\ budget'.creates = budget.creates
  <2>1. Spend("expiries") /\ budget["expiries"] < MaxExpiries
    BY DEF Expire
  <2> QED BY <1>1, <2>1, SpendFields
<1>3. /\ mc \in MemberCluster /\ seen.mc \in MemberCluster /\ job.mc \in MemberCluster
      /\ imc \in InternalMemberCluster /\ seen.imc \in InternalMemberCluster
      /\ job.imc \in InternalMemberCluster /\ agent.imc \in InternalMemberCluster
  BY <1>1 DEF TypeOK
<1> DEFINE s == AgedMC(seen.mc)
           j == AgedMC(job.mc)
           si == AgedIMC(seen.imc)
           ji == AgedIMC(job.imc)
           ai == AgedIMC(agent.imc)
<1>4. /\ mc' = AgedMC(mc) /\ imc' = AgedIMC(imc)
      /\ seen' = [seen EXCEPT !.mc = s, !.imc = si]
      /\ job' = [job EXCEPT !.mc = j, !.imc = ji]
      /\ agent' = [agent EXCEPT !.imc = ai]
      /\ UNCHANGED <<ns, rb, work, waited, queued, profile, picked, readded>>
  BY DEF Expire
<1>5. /\ s \in MemberCluster /\ s.phase = seen.mc.phase /\ s.uid = seen.mc.uid
      /\ s.fin = seen.mc.fin /\ ~s.status.fresh
  BY <1>3, AgedFields
<1>6. j \in MemberCluster /\ j.phase = job.mc.phase /\ j.uid = job.mc.uid /\ j.fin = job.mc.fin
  BY <1>3, AgedFields
<1>7. /\ mc' \in MemberCluster /\ mc'.phase = mc.phase /\ mc'.uid = mc.uid /\ mc'.fin = mc.fin
      /\ mc'.status.joined = mc.status.joined
  BY <1>3, <1>4, AgedFields
<1>8. /\ imc' \in InternalMemberCluster /\ si \in InternalMemberCluster
      /\ ji \in InternalMemberCluster /\ ai \in InternalMemberCluster
  BY <1>3, <1>4, AgedIMCType
<1> HIDE DEF s, j, si, ji, ai
<1>9. seen'.mc = s /\ job'.mc = j /\ job'.step = job.step
  BY <1>1, <1>4 DEF TypeOK
<1>10. TypeOK'
  <2>1. seen' \in [mc : MemberCluster, imc : InternalMemberCluster]
    BY <1>1, <1>4, <1>5, <1>8 DEF TypeOK
  <2>2. job' \in [step : Steps, mc : MemberCluster, imc : InternalMemberCluster]
    BY <1>1, <1>4, <1>6, <1>8 DEF TypeOK
  <2>3. agent' \in [alive : BOOLEAN, joined : BOOLEAN, imc : InternalMemberCluster,
                    due : BOOLEAN]
    BY <1>1, <1>4, <1>8 DEF TypeOK
  <2>4. mc' \in MemberCluster /\ imc' \in InternalMemberCluster
    BY <1>7, <1>8
  <2>5. UNCHANGED <<ns, rb, work, waited, queued, profile, picked, readded>>
    BY <1>4
  <2>6. budget' \in [creates : 0 .. MaxCreates, edits : 0 .. MaxEdits, faults : 0 .. MaxFaults,
                     expiries : 0 .. MaxExpiries]
    BY <1>2
  <2> QED BY SMTT(60), <1>1, <2>1, <2>2, <2>3, <2>4, <2>5, <2>6 DEF TypeOK
<1>11. NoMissedCluster'
  BY <1>5, <1>9 DEF NoMissedCluster, IsEligible
<1>12. CacheFollows'
  BY <1>1, <1>2, <1>5, <1>6, <1>7, <1>9 DEF CacheFollows, Sensible
<1> QED BY <1>10, <1>11, <1>12 DEF WatchInvariant

----------------------------------------------------------------------------
(* The cache, the watcher and the scheduler.                               *)

\* The watcher compares the version it knew with the one that arrives.  What it
\* cannot compare is an object it did not know, and that one carries no report.
LEMMA DeliverStep ==
    ASSUME WatchInvariant, DeliverMC
    PROVE  WatchInvariant'
<1>1. TypeOK /\ CacheFollows /\ NoMissedCluster
  BY DEF WatchInvariant
<1> DEFINE wakes == WakesScheduler(seen.mc, mc)
           again == NewGeneration(seen.mc, mc)
<1>2. /\ seen' = [seen EXCEPT !.mc = mc]
      /\ queued' = [queued EXCEPT !.mc = queued.mc \/ again, !.profile = TRUE,
                                  !.sched = queued.sched \/ wakes]
      /\ UNCHANGED <<mc, ns, rb, imc, work, waited, job, profile, picked, agent, readded, budget>>
  BY DEF DeliverMC
<1>3. IsEligible(mc) /\ ~mc.tainted /\ ~picked => queued.sched \/ wakes
  <2> SUFFICES ASSUME IsEligible(mc), ~mc.tainted, ~picked, ~queued.sched
               PROVE  wakes
    OBVIOUS
  <2>1. mc.phase = "Live" /\ mc.status.joined = "True"
    BY DEF IsEligible
  <2>2. mc.uid = seen.mc.uid /\ mc.uid # 0
    BY <1>1, <2>1 DEF CacheFollows, Sensible
  <2>3. seen.mc.phase # "None"
    BY <1>1, <2>2 DEF CacheFollows, Sensible
  <2>4. ~IsEligible(seen.mc) \/ seen.mc.tainted
    BY <1>1 DEF NoMissedCluster
  <2> QED BY <2>1, <2>3, <2>4 DEF WakesScheduler
<1>4. wakes \in BOOLEAN /\ again \in BOOLEAN
  BY DEF WakesScheduler, NewGeneration, IsEligible
<1> HIDE DEF wakes, again
<1>5. seen'.mc = mc /\ queued'.sched = (queued.sched \/ wakes)
  BY <1>1, <1>2 DEF TypeOK
<1>6. TypeOK'
  <2>1. /\ seen' \in [mc : MemberCluster, imc : InternalMemberCluster]
        /\ queued' \in [mc : BOOLEAN, timer : BOOLEAN, profile : BOOLEAN, sched : BOOLEAN]
    BY <1>1, <1>2, <1>4 DEF TypeOK
  <2> QED BY SMTT(60), <1>1, <1>2, <2>1 DEF TypeOK
<1>7. NoMissedCluster'
  BY <1>2, <1>3, <1>5 DEF NoMissedCluster, IsEligible
<1>8. CacheFollows'
  BY <1>1, <1>2, <1>5 DEF CacheFollows, Sensible
<1> QED BY <1>6, <1>7, <1>8 DEF WatchInvariant

\* Other events wake the controller up, and the clock does.
LEMMA EventStep ==
    ASSUME WatchInvariant, DeliverIMC \/ WaitElapses
    PROVE  WatchInvariant'
<1>1. TypeOK
  BY DEF WatchInvariant
<1>2. UNCHANGED <<mc, ns, rb, imc, work, job, profile, picked, agent, readded, budget>>
  BY DEF DeliverIMC, WaitElapses
<1>3. /\ seen' \in [mc : MemberCluster, imc : InternalMemberCluster] /\ seen'.mc = seen.mc
      /\ queued' \in [mc : BOOLEAN, timer : BOOLEAN, profile : BOOLEAN, sched : BOOLEAN]
      /\ queued'.sched = queued.sched /\ waited' \in BOOLEAN
  <2>1. CASE DeliverIMC BY <1>1, <2>1 DEF DeliverIMC, TypeOK
  <2>2. CASE WaitElapses BY <1>1, <2>2 DEF WaitElapses, TypeOK
  <2> QED BY <2>1, <2>2
<1>4. TypeOK'
  BY SMTT(60), <1>1, <1>2, <1>3 DEF TypeOK
<1>5. Written /\ JobMoves
  BY <1>2, WatchInvariant DEF Written, JobMoves, WatchInvariant, CacheFollows, Sensible
<1> QED BY <1>2, <1>3, <1>4, <1>5, WriteKeeps

\* A scheduling cycle picks what could be picked.
LEMMA ScheduleStep ==
    ASSUME WatchInvariant, Schedule
    PROVE  WatchInvariant'
<1>1. TypeOK /\ CacheFollows /\ NoMissedCluster
  BY DEF WatchInvariant
<1>2. /\ queued' = [queued EXCEPT !.sched = FALSE]
      /\ picked' = (IsEligible(seen.mc) /\ (picked \/ ~seen.mc.tainted))
      /\ UNCHANGED <<mc, ns, rb, imc, work, waited, seen, job, profile, agent, readded, budget>>
  BY DEF Schedule
<1>3. TypeOK'
  <2>1. queued' \in [mc : BOOLEAN, timer : BOOLEAN, profile : BOOLEAN, sched : BOOLEAN]
    BY <1>1, <1>2 DEF TypeOK
  <2>2. picked' \in BOOLEAN
    BY <1>2
  <2> QED BY SMTT(60), <1>1, <1>2, <2>1, <2>2 DEF TypeOK
<1>4. NoMissedCluster'
  BY <1>2 DEF NoMissedCluster, IsEligible
<1>5. CacheFollows'
  BY <1>1, <1>2 DEF CacheFollows, Sensible
<1> QED BY <1>3, <1>4, <1>5 DEF WatchInvariant

\* After a restart the cache is filled and the scheduler woken up.
LEMMA RestartStep ==
    ASSUME WatchInvariant, HubRestarts
    PROVE  WatchInvariant'
<1>1. TypeOK /\ CacheFollows /\ NoMissedCluster
  BY DEF WatchInvariant
<1>2. /\ job' = Idle /\ seen' = [mc |-> mc, imc |-> imc]
      /\ queued' = [mc |-> TRUE, timer |-> FALSE, profile |-> TRUE, sched |-> TRUE]
      /\ Fault
      /\ UNCHANGED <<mc, ns, rb, imc, work, waited, profile, picked, agent, readded>>
  BY DEF HubRestarts
<1>3. /\ budget' \in [creates : 0 .. MaxCreates, edits : 0 .. MaxEdits, faults : 0 .. MaxFaults,
                      expiries : 0 .. MaxExpiries]
      /\ budget'.creates = budget.creates
  BY <1>1, <1>2, FaultFields
<1>4. Idle \in [step : Steps, mc : MemberCluster, imc : InternalMemberCluster]
  BY NothingTypes DEF Idle, Steps
<1>5. TypeOK'
  BY SMTT(60), <1>1, <1>2, <1>3, <1>4 DEF TypeOK
<1>6. NoMissedCluster'
  BY <1>2 DEF NoMissedCluster
<1>7. Idle.step = "idle" /\ Idle.mc.uid = 0 /\ Idle.mc.phase = "None" /\ Idle.mc.fin = {}
  BY DEF Idle, NoMC
<1>8. budget.creates \in Nat
  BY SMTT(60), <1>1, Bounds DEF TypeOK
<1>9. CacheFollows'
  BY SMTT(60), <1>1, <1>2, <1>3, <1>7, <1>8 DEF CacheFollows, Sensible
<1> QED BY <1>5, <1>6, <1>9 DEF WatchInvariant

----------------------------------------------------------------------------
(* The member cluster controller.                                          *)

\* A join writes the version it has read, or nothing.
LEMMA ReconcileStep ==
    ASSUME WatchInvariant, Reconcile
    PROVE  WatchInvariant'
<1>1. TypeOK /\ CacheFollows /\ NoMissedCluster
  BY DEF WatchInvariant
<1> DEFINE m == [seen.mc EXCEPT !.fin = @ \cup {"cluster"}, !.labels = TRUE]
           i == seen.imc
           mcFails == m # seen.mc /\ mc # seen.mc
           space == IF ns = "None" THEN "Live" ELSE ns
           rbFails == rb = 2 /\ space # "Live"
           done == ~mcFails /\ ~rbFails /\ ~SyncIMCFails(m, i, space)
           wanted == WantedIMC(m, i)
           kept == IF i.state = "None" THEN i ELSE wanted
           j == [step |-> "status", mc |-> m, imc |-> kept]
<1>2. /\ m \in MemberCluster /\ m.phase = seen.mc.phase /\ m.uid = seen.mc.uid
      /\ m.status = seen.mc.status /\ i \in InternalMemberCluster /\ m.spec \in 0 .. 1
  BY <1>1 DEF TypeOK, MemberCluster
<1>3. seen.mc.phase = "Live"
  BY DEF Reconcile
<1>4. /\ mc' = mc \/ (mc' = m /\ mc = seen.mc)
      /\ ns' \in {ns, space} /\ rb' \in {rb, m.spec} /\ imc' \in {imc, wanted}
      /\ \/ job' = j /\ queued' = [queued EXCEPT !.mc = FALSE]
         \/ UNCHANGED <<job, queued>>
      /\ UNCHANGED <<work, budget, waited, seen, profile, picked, agent, readded>>
  BY DEF Reconcile, Dequeue, Unchanged
<1>5. wanted \in InternalMemberCluster
  BY <1>2, WantedType
<1> HIDE DEF m, wanted
<1>6. kept \in InternalMemberCluster
  BY <1>2, <1>5
<1> HIDE DEF kept
<1>7. j \in [step : Steps, mc : MemberCluster, imc : InternalMemberCluster] /\ j.mc = m
  BY <1>2, <1>6 DEF Steps
<1> HIDE DEF j
<1>8. /\ queued' \in [mc : BOOLEAN, timer : BOOLEAN, profile : BOOLEAN, sched : BOOLEAN]
      /\ queued'.sched = queued.sched
  BY <1>1, <1>4 DEF TypeOK
<1>9. space \in Phases
  BY <1>1 DEF TypeOK, Phases
<1>10. TypeOK'
  <2>1. mc' \in MemberCluster /\ imc' \in InternalMemberCluster /\ ns' \in Phases /\ rb' \in 0 .. 2
    BY SMTT(60), <1>1, <1>2, <1>4, <1>5, <1>9 DEF TypeOK
  <2> QED BY SMTT(60), <1>1, <1>4, <1>7, <1>8, <2>1 DEF TypeOK
<1>11. Written
  BY <1>1, <1>2, <1>3, <1>4 DEF Written, CacheFollows, Sensible
<1>12. JobMoves
  BY <1>2, <1>3, <1>4, <1>7 DEF JobMoves
<1> QED BY <1>4, <1>8, <1>10, <1>11, <1>12, WriteKeeps

\* Only an object with the finalizer is cleaned up after, and it exists.
LEMMA HandleDeleteStep ==
    ASSUME WatchInvariant, HandleDelete
    PROVE  WatchInvariant'
<1>1. TypeOK /\ CacheFollows /\ NoMissedCluster
  BY DEF WatchInvariant
<1> DEFINE m == seen.mc
           i == seen.imc
           wanted == WantedIMC(m, i)
           gone == RemoveFinalizer(mc, "cluster")
<1>2. /\ queued' = [queued EXCEPT !.mc = FALSE]
      /\ UNCHANGED <<ns, rb, work, budget, waited, seen, profile, picked, agent, readded>>
  BY DEF HandleDelete, Dequeue, Unchanged
<1>3. /\ imc' \in {imc, wanted}
      /\ mc' = mc \/ (mc' = gone /\ mc = m)
      /\ \/ job' = job
         \/ /\ "cluster" \in m.fin
            /\ job' \in {[step |-> "works", mc |-> m, imc |-> i],
                         [step |-> "status", mc |-> m, imc |-> wanted]}
  BY DEF HandleDelete
<1>4. m \in MemberCluster /\ i \in InternalMemberCluster /\ wanted \in InternalMemberCluster
  BY <1>1, WantedType DEF TypeOK
<1>5. /\ gone \in MemberCluster
      /\ \/ gone = NoMC
         \/ /\ gone.phase = mc.phase /\ gone.uid = mc.uid /\ gone.status = mc.status
            /\ gone.fin \subseteq mc.fin
  BY <1>1, RemoveFields DEF TypeOK
<1> HIDE DEF wanted, gone
<1>6. /\ queued' \in [mc : BOOLEAN, timer : BOOLEAN, profile : BOOLEAN, sched : BOOLEAN]
      /\ queued'.sched = queued.sched
  BY <1>1, <1>2 DEF TypeOK
<1>7. job' \in [step : Steps, mc : MemberCluster, imc : InternalMemberCluster]
  BY SMTT(60), <1>1, <1>3, <1>4 DEF TypeOK, Steps
<1>8. TypeOK'
  BY SMTT(60), <1>1, <1>2, <1>3, <1>4, <1>5, <1>6, <1>7 DEF TypeOK
<1>9. Written
  BY <1>1, <1>3, <1>5 DEF Written, CacheFollows, Sensible
<1>10. JobMoves
  <2>1. CASE job' = job BY <2>1 DEF JobMoves
  <2>2. CASE "cluster" \in m.fin /\ job'.mc = m
    BY <1>1, <2>2 DEF JobMoves, CacheFollows, Sensible
  <2> QED BY SMTT(60), <1>3, <2>1, <2>2
<1> QED BY <1>2, <1>6, <1>8, <1>9, <1>10, WriteKeeps

\* The report is written on the version the reconciliation has read, which the
\* cache has seen.
LEMMA StatusStep ==
    ASSUME WatchInvariant, UpdateStatus \/ RemoveNamespace
    PROVE  WatchInvariant'
<1>1. TypeOK /\ CacheFollows /\ NoMissedCluster
  BY DEF WatchInvariant
<1> DEFINE ready == IF job.mc.phase = "Live" THEN [job.mc EXCEPT !.ready = "True"] ELSE job.mc
<1>2. job.mc \in MemberCluster /\ job.imc \in InternalMemberCluster
  BY <1>1 DEF TypeOK
<1>3. /\ ready \in MemberCluster /\ ready.phase = job.mc.phase /\ ready.uid = job.mc.uid
      /\ ready.fin = job.mc.fin
  BY <1>2 DEF MemberCluster
<1> DEFINE first == SyncStatus(ready, job.imc)
           second == SyncStatus(job.mc, job.imc)
<1>4. /\ job.step # "idle" /\ job' = Idle
      /\ mc' = mc \/ (mc = job.mc /\ mc' \in {first, second})
      /\ ns' \in {ns, "Deleting"}
      /\ UNCHANGED <<rb, imc, work, budget, waited, seen, profile, picked, agent, readded>>
  BY DEF UpdateStatus, RemoveNamespace, Finish, Unchanged
<1>5. /\ queued' \in [mc : BOOLEAN, timer : BOOLEAN, profile : BOOLEAN, sched : BOOLEAN]
      /\ queued'.sched = queued.sched
  <2>1. CASE UpdateStatus
    <3> DEFINE a == queued.mc \/ (~(mc = job.mc) /\ mc.phase # "None")
               b == queued.timer \/ (mc = job.mc /\ ComesBack(job.mc))
    <3>1. queued' = [queued EXCEPT !.mc = a, !.timer = b]
      BY <2>1 DEF UpdateStatus
    <3>2. a \in BOOLEAN /\ b \in BOOLEAN
      BY <1>1 DEF TypeOK, ComesBack
    <3> HIDE DEF a, b
    <3> QED BY <1>1, <3>1, <3>2 DEF TypeOK
  <2>2. CASE RemoveNamespace
    BY <1>1, <2>2 DEF RemoveNamespace, Finish, TypeOK
  <2> QED BY <2>1, <2>2
<1>6. /\ first \in MemberCluster /\ first.phase = job.mc.phase /\ first.uid = job.mc.uid
      /\ first.fin = job.mc.fin
  BY <1>2, <1>3, SyncFields
<1>7. /\ second \in MemberCluster /\ second.phase = job.mc.phase /\ second.uid = job.mc.uid
      /\ second.fin = job.mc.fin
  BY <1>2, SyncFields
<1> HIDE DEF first, second
<1>8. Idle \in [step : Steps, mc : MemberCluster, imc : InternalMemberCluster]
  BY NothingTypes DEF Idle, Steps
<1>9. TypeOK'
  BY SMTT(60), <1>1, <1>4, <1>5, <1>6, <1>7, <1>8 DEF TypeOK, Phases
<1>10. Written
  BY <1>1, <1>4, <1>6, <1>7 DEF Written, CacheFollows, Sensible
<1>11. JobMoves
  BY <1>4 DEF JobMoves
<1> QED BY <1>4, <1>5, <1>9, <1>10, <1>11, WriteKeeps

\* Works are stripped of their finalizers, or a call fails.
LEMMA CleanUpStep ==
    ASSUME WatchInvariant, StripWorks \/ CallFails
    PROVE  WatchInvariant'
<1>1. TypeOK /\ CacheFollows /\ NoMissedCluster
  BY DEF WatchInvariant
<1>2. UNCHANGED <<mc, ns, rb, imc, waited, seen, profile, picked, agent, readded>>
  BY DEF StripWorks, CallFails, Unchanged
<1>3. /\ work' \in [phase : {"None", "Live", "Deleting"}, fin : BOOLEAN]
      /\ job' = Idle \/ (job.step # "idle" /\ job'.mc = job.mc)
      /\ job' \in [step : Steps, mc : MemberCluster, imc : InternalMemberCluster]
      /\ queued' \in [mc : BOOLEAN, timer : BOOLEAN, profile : BOOLEAN, sched : BOOLEAN]
      /\ queued'.sched = queued.sched
  <2>1. CASE StripWorks
    BY <1>1, <2>1 DEF StripWorks, Continue, TypeOK, Steps
  <2>2. CASE CallFails
    <3>1. Idle \in [step : Steps, mc : MemberCluster, imc : InternalMemberCluster]
      BY NothingTypes DEF Idle, Steps
    <3> QED BY <1>1, <2>2, <3>1 DEF CallFails, Finish, TypeOK
  <2> QED BY <2>1, <2>2
<1>4. /\ budget' \in [creates : 0 .. MaxCreates, edits : 0 .. MaxEdits, faults : 0 .. MaxFaults,
                      expiries : 0 .. MaxExpiries]
      /\ budget'.creates = budget.creates
  BY <1>1, FaultFields DEF StripWorks, CallFails, TypeOK
<1>5. TypeOK'
  BY <1>1, <1>2, <1>3, <1>4 DEF TypeOK
<1>6. Written /\ JobMoves
  BY <1>1, <1>2, <1>3 DEF Written, JobMoves, CacheFollows, Sensible
<1> QED BY <1>2, <1>3, <1>4, <1>5, <1>6, WriteKeeps

----------------------------------------------------------------------------
(* The cluster profile controller, the namespace and the member agent.     *)

\* The controller of profiles writes finalizers only.
LEMMA ProfileStep ==
    ASSUME WatchInvariant, SyncProfile
    PROVE  WatchInvariant'
<1>1. TypeOK /\ CacheFollows /\ NoMissedCluster
  BY DEF WatchInvariant
<1> DEFINE m == seen.mc
           ready == m.phase = "Live" /\ m.joined = "True" /\ m.current
           write == IF ready THEN "profile" \notin m.fin ELSE m.phase = "Deleting"
           ok == write => mc = m
           more == [mc EXCEPT !.fin = @ \cup {"profile"}]
           gone == RemoveFinalizer(mc, "profile")
           health == Health(m.status)
<1>2. /\ mc' = mc \/ (mc = m /\ mc.phase # "None" /\ mc' \in {more, gone})
      /\ profile' \in {profile, NoProfile, [phase |-> "Live", health |-> health]}
      /\ queued' = [queued EXCEPT !.profile = ~ok]
      /\ UNCHANGED <<ns, rb, imc, work, waited, seen, job, picked, agent, readded, budget>>
  BY DEF SyncProfile, CleanupClusterProfile
<1>3. /\ more \in MemberCluster /\ more.phase = mc.phase /\ more.uid = mc.uid
      /\ more.status = mc.status
  BY <1>1 DEF TypeOK, MemberCluster
<1>4. /\ gone \in MemberCluster
      /\ \/ gone = NoMC
         \/ /\ gone.phase = mc.phase /\ gone.uid = mc.uid /\ gone.status = mc.status
            /\ gone.fin \subseteq mc.fin
  BY <1>1, RemoveFields DEF TypeOK
<1>5. ok \in BOOLEAN /\ health \in {"Unknown", "False", "True"}
  BY DEF Health
<1> HIDE DEF ok, more, gone, health
<1>6. /\ queued' \in [mc : BOOLEAN, timer : BOOLEAN, profile : BOOLEAN, sched : BOOLEAN]
      /\ queued'.sched = queued.sched
  BY <1>1, <1>2, <1>5 DEF TypeOK
<1>7. profile' \in [phase : {"None", "Live"}, health : {"None", "Unknown", "False", "True"}]
  BY SMTT(60), <1>1, <1>2, <1>5 DEF TypeOK, NoProfile
<1>8. TypeOK'
  BY SMTT(60), <1>1, <1>2, <1>3, <1>4, <1>6, <1>7 DEF TypeOK
<1>9. Written /\ JobMoves
  BY <1>1, <1>2, <1>3, <1>4 DEF Written, JobMoves, CacheFollows, Sensible
<1> QED BY <1>2, <1>6, <1>8, <1>9, WriteKeeps

\* Nothing here touches the MemberCluster.
LEMMA NamespaceStep ==
    ASSUME WatchInvariant, PlaceWork \/ EmptyNamespace
    PROVE  WatchInvariant'
<1>1. TypeOK /\ CacheFollows /\ NoMissedCluster
  BY DEF WatchInvariant
<1>2. UNCHANGED <<mc, waited, seen, queued, job, profile, picked, agent, readded, budget>>
  BY DEF PlaceWork, EmptyNamespace
<1>3. /\ work' \in [phase : {"None", "Live", "Deleting"}, fin : BOOLEAN]
      /\ ns' \in Phases /\ rb' \in 0 .. 2 /\ imc' \in InternalMemberCluster
  <2>1. CASE PlaceWork
    <3>1. /\ \/ work' = [phase |-> "Live", fin |-> FALSE]
             \/ work' = [work EXCEPT !.phase = "Deleting"]
             \/ work' = [phase |-> "None", fin |-> FALSE]
          /\ UNCHANGED <<ns, rb, imc>>
      BY <2>1 DEF PlaceWork
    <3>2. work \in [phase : {"None", "Live", "Deleting"}, fin : BOOLEAN]
      BY <1>1 DEF TypeOK
    <3>3. work' \in [phase : {"None", "Live", "Deleting"}, fin : BOOLEAN]
      <4>1. CASE work' = [phase |-> "Live", fin |-> FALSE] BY <4>1
      <4>2. CASE work' = [work EXCEPT !.phase = "Deleting"] BY <3>2, <4>2
      <4>3. CASE work' = [phase |-> "None", fin |-> FALSE] BY <4>3
      <4> QED BY <3>1, <4>1, <4>2, <4>3
    <3> QED BY <1>1, <3>1, <3>3 DEF TypeOK
  <2>2. CASE EmptyNamespace BY SMTT(60), <1>1, <2>2, NothingTypes DEF EmptyNamespace, TypeOK, Phases
  <2> QED BY <2>1, <2>2
<1>4. TypeOK'
  BY SMTT(60), <1>1, <1>2, <1>3 DEF TypeOK
<1>5. Written /\ JobMoves
  BY <1>1, <1>2 DEF Written, JobMoves, CacheFollows, Sensible
<1> QED BY <1>2, <1>4, <1>5, WriteKeeps

\* The agent writes the InternalMemberCluster and the Work.
LEMMA AgentTypes ==
    ASSUME TypeOK, DeliverAgent \/ MemberAgent \/ AgentDies \/ AgentStarts
    PROVE  /\ imc' \in InternalMemberCluster
           /\ work' \in [phase : {"None", "Live", "Deleting"}, fin : BOOLEAN]
           /\ agent' \in [alive : BOOLEAN, joined : BOOLEAN, imc : InternalMemberCluster, due : BOOLEAN]
           /\ readded' \in BOOLEAN
           /\ budget' \in [creates : 0 .. MaxCreates, edits : 0 .. MaxEdits, faults : 0 .. MaxFaults,
                           expiries : 0 .. MaxExpiries]
           /\ budget'.creates = budget.creates
<1>1. CASE DeliverAgent BY <1>1 DEF DeliverAgent, TypeOK
<1>2. CASE AgentJoins
  <2>1. PICK probe \in {"True", "Bad"} :
          LET st == agent.imc.status
              new == [joined  |-> "True",
                      fresh   |-> TRUE,
                      healthy |-> IF probe = "Bad" /\ st.healthy = "BadLong" THEN "BadLong" ELSE probe]
          IN  /\ IF probe = "Bad" THEN Fault ELSE UNCHANGED budget
              /\ agent' = [agent EXCEPT !.joined = TRUE, !.due = imc # agent.imc, !.imc = Reported(new)]
              /\ Report(new)
    BY <1>2 DEF AgentJoins
  <2> DEFINE new == [joined |-> "True", fresh |-> TRUE,
                     healthy |-> IF probe = "Bad" /\ agent.imc.status.healthy = "BadLong"
                                 THEN "BadLong" ELSE probe]
             copy == Reported(new)
             due == imc # agent.imc
  <2>2. new \in Status
    BY DEF Status, JoinStates
  <2>3. /\ agent' = [agent EXCEPT !.joined = TRUE, !.due = due, !.imc = copy] /\ Report(new)
        /\ IF probe = "Bad" THEN Fault ELSE UNCHANGED budget
    BY <2>1
  <2>4. imc' \in InternalMemberCluster /\ copy \in InternalMemberCluster /\ due \in BOOLEAN
    BY <2>2, <2>3, ReportedType
  <2> HIDE DEF new, copy, due
  <2>5. UNCHANGED <<work, readded>>
    BY <1>2 DEF AgentJoins
  <2> QED BY <2>3, <2>4, <2>5, FaultFields DEF TypeOK
<1>3. CASE AgentLeaves
  <2>1. PICK ok \in BOOLEAN :
          /\ IF ok THEN UNCHANGED budget ELSE Fault
          /\ agent' = [agent EXCEPT !.joined = FALSE, !.due = ~ok \/ imc # agent.imc,
                            !.imc = Reported(Left(ok))]
          /\ work' = IF ~ok THEN work
                     ELSE IF work.phase = "Live" THEN [work EXCEPT !.fin = FALSE]
                     ELSE [phase |-> "None", fin |-> FALSE]
          /\ Report(Left(ok))
    BY <1>3 DEF AgentLeaves
  <2> DEFINE copy == Reported(Left(ok))
             due == ~ok \/ imc # agent.imc
  <2>2. imc' \in InternalMemberCluster /\ copy \in InternalMemberCluster /\ due \in BOOLEAN
    BY <2>1, LeftType, ReportedType
  <2>3. agent' = [agent EXCEPT !.joined = FALSE, !.due = due, !.imc = copy]
    BY <2>1
  <2> HIDE DEF copy, due
  <2>4. UNCHANGED readded
    BY <1>3 DEF AgentLeaves
  <2>5. /\ agent' \in [alive : BOOLEAN, joined : BOOLEAN, imc : InternalMemberCluster,
                        due : BOOLEAN]
        /\ readded' \in BOOLEAN
    BY <2>2, <2>3, <2>4 DEF TypeOK
  <2>6. work' \in [phase : {"None", "Live", "Deleting"}, fin : BOOLEAN]
    BY <2>1 DEF TypeOK
  <2>7. CASE ok
    <3>1. UNCHANGED budget
      BY <2>1, <2>7
    <3> QED BY <2>2, <2>5, <2>6, <3>1 DEF TypeOK
  <2>8. CASE ~ok
    <3>1. Fault
      BY <2>1, <2>8
    <3> QED BY <2>2, <2>5, <2>6, <3>1, FaultFields
  <2> QED BY <2>7, <2>8
<1>4. CASE AgentHandlesWork
  <2>1. /\ work' = [work EXCEPT !.fin = TRUE] \/ work' = [phase |-> "None", fin |-> FALSE]
        /\ UNCHANGED <<imc, agent, budget>>
    BY <1>4 DEF AgentHandlesWork
  <2>2. readded' \in BOOLEAN
    BY <1>4 DEF AgentHandlesWork, TypeOK
  <2>3. work \in [phase : {"None", "Live", "Deleting"}, fin : BOOLEAN]
    BY DEF TypeOK
  <2>4. work' \in [phase : {"None", "Live", "Deleting"}, fin : BOOLEAN]
    <3>1. CASE work' = [work EXCEPT !.fin = TRUE] BY <2>3, <3>1
    <3>2. CASE work' = [phase |-> "None", fin |-> FALSE] BY <3>2
    <3> QED BY <2>1, <3>1, <3>2
  <2> QED BY <2>1, <2>2, <2>4 DEF TypeOK
<1>5. CASE AgentDies BY <1>5, FaultFields DEF AgentDies, TypeOK
<1>6. CASE AgentStarts BY <1>6 DEF AgentStarts, TypeOK
<1> QED BY <1>1, <1>2, <1>3, <1>4, <1>5, <1>6 DEF MemberAgent

\* The member agent does not touch the MemberCluster.
LEMMA AgentStep ==
    ASSUME WatchInvariant, DeliverAgent \/ MemberAgent \/ AgentDies \/ AgentStarts
    PROVE  WatchInvariant'
<1>1. TypeOK /\ CacheFollows /\ NoMissedCluster
  BY DEF WatchInvariant
<1>2. UNCHANGED <<mc, ns, rb, waited, seen, queued, job, profile, picked>>
  BY DEF DeliverAgent, MemberAgent, AgentJoins, AgentLeaves, AgentHandlesWork, AgentDies,
         AgentStarts, AtHub
<1>3. TypeOK' /\ budget'.creates = budget.creates
  BY SMTT(60), <1>1, <1>2, AgentTypes DEF TypeOK
<1>4. Written /\ JobMoves
  BY <1>1, <1>2 DEF Written, JobMoves, CacheFollows, Sensible
<1> QED BY <1>2, <1>3, <1>4, WriteKeeps

----------------------------------------------------------------------------
(* The theorems.                                                           *)

\* No MemberCluster exists at first.
LEMMA InitKeeps == Init => WatchInvariant
<1> SUFFICES ASSUME Init PROVE WatchInvariant
  OBVIOUS
<1>1. TypeOK
  <2>1. /\ mc \in MemberCluster /\ imc \in InternalMemberCluster
        /\ seen \in [mc : MemberCluster, imc : InternalMemberCluster]
        /\ job \in [step : Steps, mc : MemberCluster, imc : InternalMemberCluster]
    BY NothingTypes DEF Init, Idle, Steps
  <2>2. agent \in [alive : BOOLEAN, joined : BOOLEAN, imc : InternalMemberCluster, due : BOOLEAN]
    BY NothingTypes DEF Init
  <2>3. budget \in [creates : 0 .. MaxCreates, edits : 0 .. MaxEdits, faults : 0 .. MaxFaults,
                    expiries : 0 .. MaxExpiries]
    BY SMTT(60), Bounds DEF Init
  <2>4. ns \in Phases /\ waited \in BOOLEAN /\ picked \in BOOLEAN /\ readded \in BOOLEAN
    BY DEF Init, Phases
  <2>6. rb \in 0 .. 2
    BY SMTT(60) DEF Init
  <2>5. /\ work \in [phase : {"None", "Live", "Deleting"}, fin : BOOLEAN]
        /\ queued \in [mc : BOOLEAN, timer : BOOLEAN, profile : BOOLEAN, sched : BOOLEAN]
        /\ profile \in [phase : {"None", "Live"}, health : {"None", "Unknown", "False", "True"}]
    BY DEF Init
  <2> QED BY <2>1, <2>2, <2>3, <2>4, <2>5, <2>6 DEF TypeOK
<1>2. CacheFollows
  BY SMTT(60) DEF Init, CacheFollows, Sensible, NoMC, NoReport, Idle
<1>3. NoMissedCluster
  BY DEF Init, NoMissedCluster, IsEligible, NoMC
<1> QED BY <1>1, <1>2, <1>3 DEF WatchInvariant

\* Every step keeps the invariant.
LEMMA StepKeeps == WatchInvariant /\ [Next]_vars => WatchInvariant'
<1> SUFFICES ASSUME WatchInvariant, [Next]_vars PROVE WatchInvariant'
  OBVIOUS
<1>1. CASE UNCHANGED vars
  <2>1. TypeOK'
    BY SMTT(60), <1>1 DEF WatchInvariant, TypeOK, vars
  <2>2. Written /\ JobMoves
    BY <1>1 DEF WatchInvariant, CacheFollows, Sensible, Written, JobMoves, vars
  <2> QED BY <1>1, <2>1, <2>2, WriteKeeps DEF vars
<1>2. CASE CreateMC \/ EditMC \/ DeleteMC \/ Expire
  BY <1>2, CreateStep, UserStep, ExpireStep
<1>3. CASE DeliverMC \/ DeliverIMC \/ WaitElapses \/ Schedule \/ HubRestarts
  BY <1>3, DeliverStep, EventStep, ScheduleStep, RestartStep
<1>4. CASE MemberClusterController \/ CallFails
  BY <1>4, ReconcileStep, HandleDeleteStep, StatusStep, CleanUpStep DEF MemberClusterController
<1>5. CASE SyncProfile \/ PlaceWork \/ EmptyNamespace
  BY <1>5, ProfileStep, NamespaceStep
<1>6. CASE DeliverAgent \/ MemberAgent \/ AgentDies \/ AgentStarts
  BY <1>6, AgentStep
<1> QED BY <1>1, <1>2, <1>3, <1>4, <1>5, <1>6 DEF Next

\* The inductive invariant holds: types, the cache that follows the MemberCluster, and
\* the scheduler that is woken up.
THEOREM WatchInvariance == Spec => []WatchInvariant
BY InitKeeps, StepKeeps, PTL DEF Spec

\* Types, for every value of the bounds.
THEOREM MemberTypes == Spec => []TypeOK
<1>1. WatchInvariant => TypeOK
  BY DEF WatchInvariant
<1> QED BY <1>1, WatchInvariance, PTL

\* A cluster that could be picked, and is not, has the scheduler woken up, whatever the
\* order of events, however often the cluster is created anew, and whenever its
\* heartbeats expire (Watcher's isClusterUpdated and the eligibility checker).
THEOREM NoClusterIsMissed == Spec => []NoMissedCluster
<1>1. WatchInvariant => NoMissedCluster
  BY DEF WatchInvariant
<1> QED BY <1>1, WatchInvariance, PTL
=============================================================================
