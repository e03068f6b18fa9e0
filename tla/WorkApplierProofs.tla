-------------------------- MODULE WorkApplierProofs --------------------------
(* Proofs about the work applier, for any set of manifests, strategies and  *)
(* bounds: no object is placed twice, drifts are not overwritten, a Work    *)
(* that is gone leaves nothing behind, and what was applied is listed.      *)
EXTENDS WorkApplier, FiniteSetTheorems, TLAPS

\* Zenon proves what is not arithmetic; SMT is cited for the rest.
USE ZenonT(30)

USE DEF Owners, Peer, Orphan, Newer, User, FleetOwners

\* What the environment may still do.
Budget ==
    [edits : 0..MaxEdits, meddles : 0..MaxMeddles, errors : 0..MaxErrors,
     leaves : 0..MaxLeaves, events : Nat]

\* The types, by the part of the state they are about.
HubOK == work \in WorkObj /\ seen \in WorkObj /\ synced \in BOOLEAN
OwnerOK ==
    /\ owner \in 0..MaxOwner /\ created \in 0..MaxOwner /\ dying \in BOOLEAN
    /\ recorded \subseteq Manifest
ObjectOK == object \in [Manifest -> MemberObject]
\* ... with what the stages of a reconciliation have in hand.
JobOK ==
    /\ job \in Job
    /\ job.pc \notin {"idle", "ensure"} => job.uid \in 1..MaxOwner
    /\ job.pc \in {"remove", "takeover", "apply"} => job.cur \in Manifest
    /\ ~ReportDiffOn(job.work) => \A m \in Manifest : job.result[m] \notin DiffResult
RestOK ==
    /\ membership \in {"joined", "leaving", "left"}
    /\ leaked \subseteq Manifest
    /\ budget \in Budget

TypeInv == HubOK /\ OwnerOK /\ ObjectOK /\ JobOK /\ RestOK

\* The types as the proofs use them are those of the model.
LEMMA TypeInvOK == TypeInv => TypeOK
BY DEF TypeInv, TypeOK, HubOK, OwnerOK, ObjectOK, JobOK, RestOK, Budget

\* The empty Work, the missing object and the idle controller have their types.
LEMMA NothingOK ==
    /\ NoObject \in MemberObject
    /\ \A s \in Strategies : NoWork(s) \in WorkObj
    /\ \A s \in Strategies : /\ Idle(s) \in Job
                             /\ Idle(s).pc = "idle"
                             /\ Idle(s).uid = 0 /\ Idle(s).fresh = FALSE
                             /\ Idle(s).held = NoObject
                             /\ \A m \in Manifest : Idle(s).result[m] = "None"
<1> USE ApplierAssumption
<1>1. NoObject \in MemberObject
  BY SMTT(60) DEF NoObject, MemberObject
<1>2. ASSUME NEW s \in Strategies PROVE NoWork(s) \in WorkObj
  BY SMTT(60) DEF NoWork, WorkObj, ManifestCondition, ConditionStatus
<1>3. ASSUME NEW s \in Strategies
      PROVE /\ Idle(s) \in Job
            /\ Idle(s).pc = "idle"
            /\ Idle(s).uid = 0 /\ Idle(s).fresh = FALSE
            /\ Idle(s).held = NoObject
            /\ \A m \in Manifest : Idle(s).result[m] = "None"
  BY SMTT(60), <1>1, <1>2 DEF Idle, Job, Stage
<1> QED
  BY <1>1, <1>2, <1>3

\* Types hold at first,
LEMMA TypeInit == Init => TypeInv
<1> SUFFICES ASSUME Init PROVE TypeInv
  OBVIOUS
<1> USE ApplierAssumption
<1>1. PICK s \in Strategies, start \in Starts :
         /\ work = NewWork(start.spec, s)
         /\ object = start.object
         /\ job = Idle(s)
         /\ budget = [edits |-> MaxEdits, meddles |-> MaxMeddles, errors |-> MaxErrors,
                      leaves |-> MaxLeaves, events |-> start.events]
  BY DEF Init
<1>2. start.spec \in [Manifest -> 0..MaxVersion] /\ start.object \in [Manifest -> MemberObject]
      /\ start.events \in Nat
  BY SMTT(60)
<1>3. work \in WorkObj
  <2>1. NoWork(s) \in WorkObj
    BY NothingOK
  <2>2. work = [NoWork(s) EXCEPT !.phase = "live", !.spec = start.spec]
    BY <1>1 DEF NewWork
  <2> DEFINE w == NoWork(s)
  <2> HIDE DEF w
  <2>3. w \in WorkObj => [w EXCEPT !.phase = "live", !.spec = start.spec] \in WorkObj
    BY <1>2 DEF WorkObj
  <2> QED
    BY <2>1, <2>2, <2>3 DEF w
<1>4. HubOK
  BY <1>3 DEF Init, HubOK
<1>5. OwnerOK
  <2>1. 0 \in 0..MaxOwner
    BY SMTT(60)
  <2> QED
    BY <2>1 DEF Init, OwnerOK
<1>6. JobOK
  BY <1>1, NothingOK DEF JobOK, DiffResult
<1>7. RestOK
  BY SMTT(60), <1>1, <1>2 DEF Init, RestOK, Budget
<1> QED
  BY <1>1, <1>2, <1>4, <1>5, <1>6, <1>7 DEF TypeInv, ObjectOK

\* Returning from Reconcile leaves an idle controller.
LEMMA ReturnOK == TypeInv /\ Return => JobOK'
<1> SUFFICES ASSUME TypeInv, Return PROVE JobOK'
  OBVIOUS
<1>1. job.work.strategy \in Strategies
  BY DEF TypeInv, JobOK, Job, WorkObj
<1> QED
  BY <1>1, NothingOK DEF Return, JobOK, DiffResult

\* A manifest that is done leaves a well-typed reconciliation; only ReportDiff mode reports diffs.
LEMMA FinishOK ==
    ASSUME TypeInv, NEW m \in Manifest, NEW res \in Result, NEW details \in BOOLEAN,
           job.pc \notin {"idle", "ensure"},
           res \in DiffResult => ReportDiffOn(job.work),
           Finish(m, res, details)
    PROVE  JobOK'
<1>1. job' \in Job
  BY NothingOK DEF TypeInv, JobOK, Job, Finish, Stage
<1>2. job'.pc = "find" /\ job'.uid = job.uid /\ job'.work = job.work
      /\ job'.result = [job.result EXCEPT ![m] = res]
  BY DEF TypeInv, JobOK, Job, Finish
<1>3. job.result \in [Manifest -> Result \cup {"None"}]
  BY DEF TypeInv, JobOK, Job
<1> QED
  BY <1>1, <1>2, <1>3 DEF TypeInv, JobOK, ReportDiffOn

\* The environment spends what it has left.
LEMMA SpendOK ==
    ASSUME TypeInv, NEW what \in {"edits", "meddles", "errors", "leaves"}, Spend(what)
    PROVE  /\ budget' \in Budget
           /\ what = "leaves" => budget'.leaves < MaxLeaves
           /\ what # "leaves" => budget'.leaves = budget.leaves
<1>1. budget \in Budget
  BY DEF TypeInv, RestOK
<1>2. MaxEdits \in Nat /\ MaxMeddles \in Nat /\ MaxErrors \in Nat /\ MaxLeaves \in Nat
  BY ApplierAssumption
<1>3. CASE what = "edits"
  <2>1. budget.edits > 0 /\ budget.events > 0
        /\ budget' = [budget EXCEPT !.edits = budget.edits - 1, !.events = budget.events - 1]
    BY <1>1, <1>3 DEF Spend, Budget
  <2> DEFINE n == budget.edits - 1
             e == budget.events - 1
  <2>2. n \in 0..MaxEdits /\ n < MaxEdits /\ e \in Nat
    BY SMTT(60), <1>1, <1>2, <2>1 DEF Budget
  <2>3. budget' = [budget EXCEPT !.edits = n, !.events = e]
    BY <2>1
  <2> HIDE DEF n, e
  <2> QED
    BY <1>1, <1>3, <2>2, <2>3 DEF Budget
<1>4. CASE what = "meddles"
  <2>1. budget.meddles > 0 /\ budget.events > 0
        /\ budget' = [budget EXCEPT !.meddles = budget.meddles - 1, !.events = budget.events - 1]
    BY <1>1, <1>4 DEF Spend, Budget
  <2> DEFINE n == budget.meddles - 1
             e == budget.events - 1
  <2>2. n \in 0..MaxMeddles /\ n < MaxMeddles /\ e \in Nat
    BY SMTT(60), <1>1, <1>2, <2>1 DEF Budget
  <2>3. budget' = [budget EXCEPT !.meddles = n, !.events = e]
    BY <2>1
  <2> HIDE DEF n, e
  <2> QED
    BY <1>1, <1>4, <2>2, <2>3 DEF Budget
<1>5. CASE what = "errors"
  <2>1. budget.errors > 0 /\ budget.events > 0
        /\ budget' = [budget EXCEPT !.errors = budget.errors - 1, !.events = budget.events - 1]
    BY <1>1, <1>5 DEF Spend, Budget
  <2> DEFINE n == budget.errors - 1
             e == budget.events - 1
  <2>2. n \in 0..MaxErrors /\ n < MaxErrors /\ e \in Nat
    BY SMTT(60), <1>1, <1>2, <2>1 DEF Budget
  <2>3. budget' = [budget EXCEPT !.errors = n, !.events = e]
    BY <2>1
  <2> HIDE DEF n, e
  <2> QED
    BY <1>1, <1>5, <2>2, <2>3 DEF Budget
<1>6. CASE what = "leaves"
  <2>1. budget.leaves > 0 /\ budget.events > 0
        /\ budget' = [budget EXCEPT !.leaves = budget.leaves - 1, !.events = budget.events - 1]
    BY <1>1, <1>6 DEF Spend, Budget
  <2> DEFINE n == budget.leaves - 1
             e == budget.events - 1
  <2>2. n \in 0..MaxLeaves /\ n < MaxLeaves /\ e \in Nat
    BY SMTT(60), <1>1, <1>2, <2>1 DEF Budget
  <2>3. budget' = [budget EXCEPT !.leaves = n, !.events = e]
    BY <2>1
  <2> HIDE DEF n, e
  <2> QED
    BY <1>1, <1>6, <2>2, <2>3 DEF Budget
<1> QED
  BY <1>3, <1>4, <1>5, <1>6

\* A write by somebody else keeps the types.
LEMMA WriteOK ==
    ASSUME TypeInv, NEW m \in Manifest, NEW o \in MemberObject, Write(m, o)
    PROVE  HubOK' /\ OwnerOK' /\ ObjectOK' /\ JobOK'
<1>1. HubOK' /\ OwnerOK'
  BY DEF TypeInv, Write, hubVars, ownerVars, HubOK, OwnerOK
<1>2. ObjectOK'
  BY DEF TypeInv, Write, ObjectOK
<1>3. JobOK'
  BY DEF TypeInv, Write, JobOK, Job, ReportDiffOn
<1> QED
  BY <1>1, <1>2, <1>3

\* The work generator creates a Work.
LEMMA NewWorkOK ==
    ASSUME NEW spec \in [Manifest -> 0..1], NEW s \in Strategies
    PROVE  NewWork(spec, s) \in WorkObj
<1>1. NoWork(s) \in WorkObj
  BY NothingOK
<1>2. spec \in [Manifest -> 0..MaxVersion]
  BY SMTT(60), ApplierAssumption
<1> DEFINE w == NoWork(s)
<1>3. NewWork(spec, s) = [w EXCEPT !.phase = "live", !.spec = spec]
  BY DEF NewWork
<1> HIDE DEF w
<1>4. w \in WorkObj => [w EXCEPT !.phase = "live", !.spec = spec] \in WorkObj
  BY <1>2 DEF WorkObj
<1> QED
  BY <1>1, <1>3, <1>4 DEF w

\* A Work that lost its finalizer is a Work or gone.
LEMMA ReleasedOK == ASSUME NEW w \in WorkObj PROVE Released(w) \in WorkObj
<1>1. [w EXCEPT !.fin = FALSE] \in WorkObj /\ w.strategy \in Strategies
  BY DEF WorkObj
<1> QED
  BY <1>1, NothingOK DEF Released

\* A reconciliation whose Work was edited goes on.
LEMMA StaleOK == TypeInv /\ job' = [job EXCEPT !.fresh = FALSE] => JobOK'
BY DEF TypeInv, JobOK, Job, ReportDiffOn

\* The garbage collector drops owner references,
LEMMA CollectedOK ==
    ASSUME TypeInv, NEW m \in Manifest
    PROVE  [object[m] EXCEPT !.owners = Solid(object[m])] \in MemberObject
<1>1. object[m] \in MemberObject
  BY DEF TypeInv, ObjectOK
<1> DEFINE s == Solid(object[m])
<1>2. s \in SUBSET Owners
  BY <1>1 DEF Solid, MemberObject
<1> HIDE DEF s
<1> QED
  BY <1>1, <1>2 DEF MemberObject, s

\* and users of the member cluster change, remove or recreate objects.
LEMMA MeddledOK ==
    ASSUME TypeInv, NEW m \in Manifest
    PROVE  /\ [object[m] EXCEPT !.content = 0] \in MemberObject
           /\ [object[m] EXCEPT !.extra = TRUE] \in MemberObject
           /\ [object[m] EXCEPT !.owners = @ \cup {User}] \in MemberObject
           /\ [NoObject EXCEPT !.here = TRUE] \in MemberObject
           /\ NoObject \in MemberObject
<1>1. object[m] \in MemberObject /\ NoObject \in MemberObject
  BY NothingOK DEF TypeInv, ObjectOK
<1>2. 0 \in 0..MaxVersion /\ User \in Owners
  BY SMTT(60), ApplierAssumption
<1> DEFINE n == NoObject
<1>3. n \in MemberObject
  BY <1>1
<1> HIDE DEF n
<1>4. [n EXCEPT !.here = TRUE] \in MemberObject
  BY <1>3 DEF MemberObject
<1>5. [object[m] EXCEPT !.owners = @ \cup {User}] \in MemberObject
  BY <1>1, <1>2 DEF MemberObject
<1> QED
  BY <1>1, <1>2, <1>4, <1>5 DEF MemberObject, n

\* createManifestObject, threeWayMergePatch and serverSideApply yield objects.
LEMMA OutcomeOK ==
    ASSUME TypeInv, NEW m \in Manifest, job.uid \in 1..MaxOwner
    PROVE  Outcome(m) \in MemberObject
<1>0. Version(m) \in 0..MaxVersion /\ object[m] \in MemberObject
  BY DEF TypeInv, JobOK, Job, WorkObj, Version, ObjectOK
<1>1. job.uid \in Owners
  BY SMTT(60), ApplierAssumption
<1> DEFINE v == Version(m)
<1>2. Created(m) \in MemberObject
  <2>1. Created(m) = [here |-> TRUE, owners |-> {job.uid}, hash |-> v, content |-> v,
                      extra |-> FALSE, block |-> TRUE]
    BY DEF Created
  <2> HIDE DEF v
  <2> QED
    BY SMTT(60), <1>0, <1>1, <2>1 DEF MemberObject, v
<1>3. Patched(m) \in MemberObject
  <2> DEFINE new == [object[m] EXCEPT !.hash = v, !.content = v]
             ssa == [new EXCEPT !.owners = @ \cup {job.uid}, !.block = TRUE]
  <2>1. new \in MemberObject
    BY <1>0 DEF MemberObject
  <2>2. ssa \in MemberObject
    <3> HIDE DEF new
    <3> QED
      BY <1>1, <2>1 DEF MemberObject
  <2>3. Patched(m) \in {new, ssa}
    BY DEF Patched
  <2> HIDE DEF new, ssa
  <2> QED
    BY <2>1, <2>2, <2>3
<1> QED
  BY <1>2, <1>3 DEF Outcome

\* refreshWorkStatus yields a Work of the same strategy.
LEMMA RefreshedOK ==
    ASSUME TypeInv, NEW w \in RefreshedWorks
    PROVE  w \in WorkObj /\ w.strategy = job.work.strategy
<1>0. job.work \in WorkObj /\ job.result \in [Manifest -> Result \cup {"None"}]
  BY DEF TypeInv, JobOK, Job
<1>1. RebuiltConds \in [Manifest -> ManifestCondition]
  BY <1>0 DEF TypeInv, JobOK, RebuiltConds, ManifestCondition, Result
<1> DEFINE diffing == ReportDiffOn(job.work)
           applied == CASE diffing -> "None"
                     [] ~diffing /\ AllResults({"Applied"}) -> "True"
                     [] OTHER -> "False"
           diffed == CASE ~diffing -> "None"
                    [] diffing /\ AllResults({"FoundDiff", "NoDiffFound"}) -> "True"
                    [] OTHER -> "False"
<1>2. applied \in ConditionStatus /\ diffed \in ConditionStatus
  BY DEF ConditionStatus
<1>3. PICK a \in ConditionStatus :
        w = [job.work EXCEPT !.conds = RebuiltConds, !.applied = applied, !.available = a, !.diffed = diffed]
  <2> HIDE DEF applied, diffed
  <2> QED
    BY DEF RefreshedWorks, ConditionStatus, applied, diffed
<1> HIDE DEF applied, diffed
<1> QED
  BY <1>0, <1>1, <1>2, <1>3 DEF WorkObj

\* and every step keeps them.
LEMMA TypeStep == TypeInv /\ [Next]_vars => TypeInv'
<1> SUFFICES ASSUME TypeInv, [Next]_vars PROVE TypeInv'
  OBVIOUS
<1>0. job.work.strategy \in Strategies /\ job.work \in WorkObj /\ seen.strategy \in Strategies
      /\ work.strategy \in Strategies
  BY DEF TypeInv, HubOK, JobOK, Job, WorkObj
<1>1. CASE Start
  <2>1. Idle(seen.strategy) \in Job /\ \A m \in Manifest : Idle(seen.strategy).result[m] = "None"
    BY <1>0, NothingOK
  <2> DEFINE i == Idle(seen.strategy)
  <2>2. job' = [i EXCEPT !.pc = "ensure", !.work = seen, !.fresh = synced]
    BY <1>1 DEF Start
  <2> HIDE DEF i
  <2>3. job' \in Job /\ job'.pc = "ensure" /\ \A m \in Manifest : job'.result[m] = "None"
    BY <2>1, <2>2 DEF i, TypeInv, HubOK, Job, Stage
  <2>4. JobOK'
    BY <2>3 DEF JobOK, DiffResult
  <2> QED
    BY <1>1, <2>4 DEF Start, TypeInv, HubOK, OwnerOK, ObjectOK, RestOK, hubVars, ownerVars
<1>2. CASE AddFinalizer
  <2> DEFINE w == [job.work EXCEPT !.fin = TRUE]
  <2>1. w \in WorkObj /\ w.strategy = job.work.strategy
    BY <1>0 DEF WorkObj
  <2> HIDE DEF w
  <2>2. \/ job.fresh /\ work' = w /\ synced' = FALSE /\ UNCHANGED seen /\ job' = [job EXCEPT !.work = w]
        \/ Return /\ UNCHANGED hubVars
    BY <1>2 DEF AddFinalizer, StoreWork, w
  <2>3. HubOK'
    BY <2>1, <2>2 DEF TypeInv, HubOK, hubVars
  <2>4. JobOK'
    <3>1. CASE job' = [job EXCEPT !.work = w]
      BY <2>1, <3>1 DEF TypeInv, JobOK, Job, ReportDiffOn
    <3> QED
      BY <2>2, <3>1, ReturnOK
  <2> QED
    BY <1>2, <2>3, <2>4 DEF AddFinalizer, TypeInv, OwnerOK, ObjectOK, RestOK, ownerVars
<1>3. CASE EnsureAppliedWork
  <2>0. MaxOwner \in Nat
    BY ApplierAssumption
  <2> DEFINE n == created + 1
  <2>1. \/ owner \in 1..MaxOwner /\ UNCHANGED ownerVars
           /\ job' = [job EXCEPT !.pc = "prepare", !.uid = owner]
        \/ n \in 1..MaxOwner /\ created' = n /\ owner' = n /\ dying' = FALSE /\ recorded' = {}
           /\ job' = [job EXCEPT !.pc = "prepare", !.uid = n]
    BY SMTT(60), <1>3, <2>0 DEF EnsureAppliedWork, TypeInv, OwnerOK
  <2>2. 1..MaxOwner \subseteq 0..MaxOwner
    BY SMTT(60), <2>0
  <2> HIDE DEF n
  <2>3. OwnerOK'
    BY <2>1, <2>2 DEF TypeInv, OwnerOK, ownerVars
  <2>4. ASSUME NEW u \in 1..MaxOwner, job' = [job EXCEPT !.pc = "prepare", !.uid = u] PROVE JobOK'
    BY <2>2, <2>4 DEF TypeInv, JobOK, Job, Stage, ReportDiffOn
  <2> QED
    BY <1>3, <2>1, <2>3, <2>4 DEF EnsureAppliedWork, TypeInv, HubOK, ObjectOK, RestOK, hubVars
<1>4. CASE PreProcess
  <2>1. PICK bad \in SUBSET InWork(job.work) :
          /\ UNCHANGED budget \/ Spend("errors")
          /\ \/ Return
             \/ \E p \in {"find", "clean"}, left \in SUBSET Manifest :
                  job' = [job EXCEPT !.pc = p, !.broken = bad, !.left = left,
                             !.todo = InWork(job.work) \ bad,
                             !.result = [m \in Manifest |-> IF m \in bad THEN "DecodingErred" ELSE "None"]]
    BY <1>4 DEF PreProcess
  <2>2. RestOK'
    BY <1>4, <2>1, SpendOK DEF PreProcess, TypeInv, RestOK
  <2>3. JobOK'
    <3>1. CASE Return
      BY <3>1, ReturnOK
    <3>2. ASSUME NEW p \in {"find", "clean"}, NEW left \in SUBSET Manifest,
                  job' = [job EXCEPT !.pc = p, !.broken = bad, !.left = left,
                             !.todo = InWork(job.work) \ bad,
                             !.result = [m \in Manifest |-> IF m \in bad THEN "DecodingErred" ELSE "None"]]
          PROVE  JobOK'
      <4> DEFINE r == [m \in Manifest |-> IF m \in bad THEN "DecodingErred" ELSE "None"]
                 t == InWork(job.work) \ bad
      <4>1. r \in [Manifest -> Result \cup {"None"}] /\ \A m \in Manifest : r[m] \notin DiffResult
        BY DEF Result, ApplyResult, DiffResult
      <4>2. bad \subseteq Manifest /\ t \subseteq Manifest
        BY DEF InWork
      <4>3. job.pc = "prepare" /\ job.uid \in 1..MaxOwner
        BY <1>4 DEF PreProcess, TypeInv, JobOK
      <4> HIDE DEF r, t
      <4>4. job' = [job EXCEPT !.pc = p, !.broken = bad, !.left = left, !.todo = t, !.result = r]
        BY <3>2 DEF r, t
      <4> QED
        BY <4>1, <4>2, <4>3, <4>4 DEF TypeInv, JobOK, Job, Stage
    <3> QED
      BY <2>1, <3>1, <3>2
  <2> QED
    BY <1>4, <2>2, <2>3 DEF PreProcess, TypeInv, HubOK, OwnerOK, ObjectOK, hubVars, ownerVars
<1>5. ASSUME NEW m \in Manifest, ReadLeftOver(m) PROVE TypeInv'
  <2>1. JobOK'
    <3>1. job.pc = "clean"
      BY <1>5 DEF ReadLeftOver
    <3>2. CASE Owned(object[m])
      <4>1. job' = [job EXCEPT !.left = @ \ {m}, !.pc = "remove", !.cur = m, !.held = object[m], !.same = TRUE]
        BY <1>5, <3>2 DEF ReadLeftOver
      <4> QED
        BY <3>1, <4>1 DEF TypeInv, ObjectOK, JobOK, Job, Stage, ReportDiffOn
    <3>3. CASE ~Owned(object[m])
      <4>1. job' = [job EXCEPT !.left = @ \ {m}, !.pc = "clean", !.cur = Nothing, !.held = NoObject, !.same = FALSE]
        <5>1. Owned(object[m]) = FALSE
          BY <3>3 DEF Owned, TypeInv, ObjectOK, MemberObject
        <5> QED
          BY <1>5, <3>3, <5>1 DEF ReadLeftOver
      <4> QED
        BY <3>1, <4>1, NothingOK DEF TypeInv, JobOK, Job, Stage, ReportDiffOn
    <3> QED
      BY <3>2, <3>3
  <2> QED
    BY <1>5, <2>1 DEF ReadLeftOver, TypeInv, HubOK, OwnerOK, ObjectOK, RestOK, hubVars, ownerVars
<1>6. ASSUME NEW m \in Manifest, FindObject(m) PROVE TypeInv'
  <2>1. JobOK'
    <3>1. job.pc = "find"
      BY <1>6 DEF FindObject
    <3>2. CASE job' = [job EXCEPT !.pc = "takeover", !.cur = m, !.held = object[m], !.same = TRUE]
      BY <3>1, <3>2 DEF TypeInv, ObjectOK, JobOK, Job, Stage, ReportDiffOn
    <3>3. CASE Finish(m, "FailedToFindObjInMemberCluster", FALSE)
      BY <3>1, <3>3, FinishOK DEF Result, ApplyResult, DiffResult
    <3> QED
      BY <1>6, <3>2, <3>3 DEF FindObject
  <2>2. RestOK'
    BY <1>6, SpendOK DEF FindObject, TypeInv, RestOK
  <2> QED
    BY <1>6, <2>1, <2>2 DEF FindObject, TypeInv, HubOK, OwnerOK, ObjectOK, hubVars, ownerVars
<1>7. CASE RemoveLeftOver
  <2>0. job.pc = "remove" /\ job.cur \in Manifest
    BY <1>7 DEF RemoveLeftOver, TypeInv, JobOK
  <2>1. JobOK'
    <3>1. CASE job' = [job EXCEPT !.pc = "clean", !.cur = Nothing, !.held = NoObject, !.same = FALSE]
      BY <2>0, <3>1, NothingOK DEF TypeInv, JobOK, Job, Stage, ReportDiffOn
    <3> QED
      BY <1>7, <3>1, ReturnOK DEF RemoveLeftOver
  <2>2. ObjectOK'
    <3> DEFINE g == IF Cardinality(job.held.owners) > 1 THEN Disowned(object[job.cur]) ELSE NoObject
    <3>1. Disowned(object[job.cur]) \in MemberObject
      BY <2>0 DEF TypeInv, ObjectOK, MemberObject, Disowned
    <3>2. g \in MemberObject
      BY <3>1, NothingOK
    <3>3. \/ object' = object
          \/ object' = [object EXCEPT ![job.cur] = NoObject]
          \/ object' = [object EXCEPT ![job.cur] = g]
      BY <1>7 DEF RemoveLeftOver
    <3> HIDE DEF g
    <3> QED
      BY <2>0, <3>2, <3>3, NothingOK DEF TypeInv, ObjectOK
  <2> QED
    BY <1>7, <2>1, <2>2 DEF RemoveLeftOver, TypeInv, HubOK, OwnerOK, RestOK, hubVars, ownerVars
<1>8. CASE WriteAhead
  <2> DEFINE kept == InWork(job.work) \ job.broken
             cs == [m \in Manifest |-> IF m \notin kept THEN "None"
                       ELSE IF job.work.conds[m] = "None" THEN "PreparingToProcess" ELSE job.work.conds[m]]
             w == [job.work EXCEPT !.conds = cs]
  <2>1. \/ work' = w /\ synced' = FALSE /\ seen' = seen /\ job' = [job EXCEPT !.pc = "find", !.work = w]
           /\ leaked' = (leaked \cup Forgotten(w)) \ kept
        \/ Return /\ UNCHANGED <<hubVars, leaked>>
    BY <1>8 DEF WriteAhead, StoreWork
  <2>2. cs \in [Manifest -> ManifestCondition]
    BY <1>0 DEF WorkObj, ManifestCondition
  <2>3. Forgotten(w) \subseteq Manifest
    BY DEF Forgotten
  <2>4. w \in WorkObj /\ w.strategy = job.work.strategy
    <3> HIDE DEF cs
    <3> QED
      BY <1>0, <2>2 DEF WorkObj
  <2> HIDE DEF w, kept
  <2>5. HubOK' /\ RestOK'
    BY <1>8, <2>1, <2>3, <2>4 DEF WriteAhead, TypeInv, HubOK, RestOK, hubVars
  <2>6. JobOK'
    <3>0. job.pc = "clean" /\ job.uid \in 1..MaxOwner
      BY <1>8 DEF WriteAhead, TypeInv, JobOK
    <3>1. CASE job' = [job EXCEPT !.pc = "find", !.work = w]
      BY <3>0, <3>1, <2>4 DEF TypeInv, JobOK, Job, Stage, ReportDiffOn
    <3> QED
      BY <2>1, <3>1, ReturnOK
  <2> QED
    BY <1>8, <2>5, <2>6 DEF WriteAhead, TypeInv, OwnerOK, ObjectOK, ownerVars
<1>9. CASE TakeOver
  <2>0. job.pc = "takeover" /\ job.cur \in Manifest /\ job.uid \in 1..MaxOwner /\ job.held \in MemberObject
    BY <1>9 DEF TakeOver, TypeInv, JobOK, Job
  <2>1. TakenOver \in MemberObject
    <3>1. job.uid \in Owners
      BY SMTT(60), <2>0, ApplierAssumption
    <3>2. job.held.owners \in SUBSET Owners
      BY <2>0 DEF MemberObject
    <3> DEFINE ow == RemainingOwners(job.held) \cup {job.uid}
    <3>3. ow \in SUBSET Owners
      BY <3>1, <3>2 DEF RemainingOwners
    <3> HIDE DEF ow
    <3>4. TakenOver = [job.held EXCEPT !.owners = ow, !.block = TRUE]
      BY DEF TakenOver, ow
    <3> QED
      BY <2>0, <3>3, <3>4 DEF MemberObject
  <2>2. \/ \E res \in {"OwnedByOtherKubeFleetAPIObjects", "FailedToTakeOver"}, d \in BOOLEAN :
             Finish(job.cur, res, d) /\ UNCHANGED <<object, leaked>>
        \/ job' = [job EXCEPT !.pc = "apply"] /\ UNCHANGED <<object, leaked>>
        \/ /\ object' = [object EXCEPT ![job.cur] = TakenOver]
           /\ job' = [job EXCEPT !.pc = "apply", !.held = TakenOver]
           /\ leaked' \in {leaked, leaked \cup {job.cur}}
    BY <1>9 DEF TakeOver
  <2>3. JobOK'
    <3>1. ASSUME NEW res \in {"OwnedByOtherKubeFleetAPIObjects", "FailedToTakeOver"}, NEW d \in BOOLEAN,
                 Finish(job.cur, res, d)
          PROVE  JobOK'
      BY <2>0, <3>1, FinishOK DEF Result, ApplyResult, DiffResult
    <3>2. CASE job' = [job EXCEPT !.pc = "apply"]
      BY <2>0, <3>2 DEF TypeInv, JobOK, Job, Stage, ReportDiffOn
    <3>3. CASE job' = [job EXCEPT !.pc = "apply", !.held = TakenOver]
      BY <2>0, <2>1, <3>3 DEF TypeInv, JobOK, Job, Stage, ReportDiffOn
    <3> QED
      BY <2>2, <3>1, <3>2, <3>3
  <2>4. ObjectOK' /\ RestOK'
    BY <1>9, <2>0, <2>1, <2>2 DEF TakeOver, TypeInv, ObjectOK, RestOK
  <2> QED
    BY <1>9, <2>3, <2>4 DEF TakeOver, TypeInv, HubOK, OwnerOK, hubVars, ownerVars
<1>10. CASE ReportDiffOnly
  <2>1. JobOK'
    <3>1. job.pc = "apply" /\ job.cur \in Manifest /\ ReportDiffOn(job.work)
      BY <1>10 DEF ReportDiffOnly, TypeInv, JobOK
    <3>2. \E res \in DiffResult, d \in BOOLEAN : Finish(job.cur, res, d)
      BY <1>10 DEF ReportDiffOnly, DiffResult
    <3> QED
      BY <3>1, <3>2, FinishOK DEF Result
  <2> QED
    BY <1>10, <2>1 DEF ReportDiffOnly, TypeInv, HubOK, OwnerOK, ObjectOK, RestOK, hubVars, ownerVars
<1>11. CASE RefuseToApply
  <2>1. JobOK'
    <3>1. job.pc = "apply" /\ job.cur \in Manifest
      BY <1>11 DEF RefuseToApply, TypeInv, JobOK
    <3>2. \E res \in {"NotTakenOver", "FoundDriftsInDegradedMode", "FoundDrifts"}, d \in BOOLEAN :
             Finish(job.cur, res, d)
      BY <1>11 DEF RefuseToApply
    <3> QED
      BY <3>1, <3>2, FinishOK DEF Result, ApplyResult, DiffResult
  <2> QED
    BY <1>11, <2>1 DEF RefuseToApply, TypeInv, HubOK, OwnerOK, ObjectOK, RestOK, hubVars, ownerVars
<1>12. CASE Apply
  <2>0. job.pc = "apply" /\ job.cur \in Manifest /\ job.uid \in 1..MaxOwner
    BY <1>12 DEF Apply, TypeInv, JobOK
  <2>1. JobOK'
    <3>1. \E res \in {"FailedToApply", "Applied"}, d \in BOOLEAN : Finish(job.cur, res, d)
      <4> DEFINE d == Strategy.compare = "Full" /\ Outcome(job.cur).extra
      <4>1. d \in BOOLEAN
        OBVIOUS
      <4>2. Finish(job.cur, "FailedToApply", FALSE) \/ Finish(job.cur, "Applied", d)
        BY <1>12 DEF Apply
      <4> HIDE DEF d
      <4> QED
        BY <4>1, <4>2
    <3> QED
      BY <2>0, <3>1, FinishOK DEF Result, ApplyResult, DiffResult
  <2>2. Outcome(job.cur) \in MemberObject
    BY <2>0, OutcomeOK
  <2>3. ObjectOK'
    <3>1. object' = object \/ object' = [object EXCEPT ![job.cur] = Outcome(job.cur)]
      BY <1>12 DEF Apply
    <3> QED
      BY <2>0, <2>2, <3>1 DEF TypeInv, ObjectOK
  <2>4. RestOK'
    BY <1>12, SpendOK DEF Apply, TypeInv, RestOK
  <2> QED
    BY <1>12, <2>1, <2>3, <2>4 DEF Apply, TypeInv, HubOK, OwnerOK, hubVars, ownerVars
<1>13. CASE RefreshWorkStatus
  <2>1. PICK w \in RefreshedWorks :
          \/ job' = [job EXCEPT !.pc = "record", !.work = w] /\ UNCHANGED <<hubVars, leaked>>
          \/ /\ job' = [job EXCEPT !.pc = "record", !.work = w]
             /\ work' = w /\ synced' = FALSE /\ seen' = seen
             /\ leaked' = (leaked \cup Forgotten(w)) \ InWork(w)
          \/ Return /\ UNCHANGED <<hubVars, leaked>>
    BY <1>13 DEF RefreshWorkStatus, StoreWork
  <2>2. w \in WorkObj /\ w.strategy = job.work.strategy
    BY RefreshedOK
  <2>3. Forgotten(w) \subseteq Manifest
    BY DEF Forgotten
  <2>4. HubOK' /\ RestOK'
    BY <1>13, <2>1, <2>2, <2>3 DEF RefreshWorkStatus, TypeInv, HubOK, RestOK, hubVars
  <2>5. JobOK'
    <3>0. job.pc = "find" /\ job.uid \in 1..MaxOwner
      BY <1>13 DEF RefreshWorkStatus, TypeInv, JobOK
    <3>1. CASE job' = [job EXCEPT !.pc = "record", !.work = w]
      BY <3>0, <3>1, <2>2 DEF TypeInv, JobOK, Job, Stage, ReportDiffOn
    <3> QED
      BY <2>1, <3>1, ReturnOK
  <2> QED
    BY <1>13, <2>4, <2>5 DEF RefreshWorkStatus, TypeInv, OwnerOK, ObjectOK, ownerVars
<1>14. CASE RefreshAppliedWorkStatus
  <2>1. recorded' \subseteq Manifest
    BY <1>14 DEF RefreshAppliedWorkStatus, TypeInv, OwnerOK, InWork
  <2> QED
    BY <1>14, <2>1, ReturnOK DEF RefreshAppliedWorkStatus, TypeInv, HubOK, OwnerOK, ObjectOK, RestOK, hubVars
<1>15. CASE DeleteAppliedWork
  BY <1>15 DEF DeleteAppliedWork, TypeInv, HubOK, OwnerOK, ObjectOK, JobOK, RestOK, hubVars
<1>16. CASE UpdateOwnerReference
  <2>1. ASSUME NEW m \in Manifest
        PROVE  object'[m] \in {object[m], [object[m] EXCEPT !.block = FALSE]}
    BY <1>16 DEF UpdateOwnerReference
  <2>2. ASSUME NEW m \in Manifest PROVE object'[m] \in MemberObject
    BY <2>1, <2>2 DEF TypeInv, ObjectOK, MemberObject
  <2>3. ObjectOK'
    BY <1>16, <2>2 DEF UpdateOwnerReference, ObjectOK
  <2> QED
    BY <1>16, <2>3 DEF UpdateOwnerReference, TypeInv, HubOK, OwnerOK, JobOK, RestOK, hubVars, ownerVars
<1>17. CASE ForgetWork
  <2>1. Released(work) \in WorkObj
    BY <1>0, ReleasedOK DEF TypeInv, HubOK
  <2> QED
    BY <1>17, <2>1 DEF ForgetWork, TypeInv, HubOK, OwnerOK, ObjectOK, JobOK, RestOK, ownerVars
<1>18. CASE Leave
  BY <1>18, SpendOK DEF Leave, TypeInv, HubOK, OwnerOK, ObjectOK, JobOK, RestOK, hubVars, ownerVars
<1>19. CASE LeaveRemovesFinalizer
  <2>1. Released(work) \in WorkObj
    BY <1>0, ReleasedOK DEF TypeInv, HubOK
  <2>2. JobOK'
    BY <1>19, StaleOK DEF LeaveRemovesFinalizer
  <2>3. HubOK' /\ RestOK'
    BY <1>19, <2>1 DEF LeaveRemovesFinalizer, TypeInv, HubOK, RestOK
  <2> QED
    BY <1>19, <2>2, <2>3 DEF LeaveRemovesFinalizer, TypeInv, OwnerOK, ObjectOK, ownerVars
<1>20. CASE Left
  BY <1>20 DEF Left, TypeInv, HubOK, OwnerOK, ObjectOK, JobOK, RestOK, hubVars, ownerVars
<1>21. CASE Join
  BY <1>21 DEF Join, TypeInv, HubOK, OwnerOK, ObjectOK, JobOK, RestOK, hubVars, ownerVars
<1>22. ASSUME NEW w \in WorkObj, Generation(w) PROVE TypeInv'
  <2>1. work' \in WorkObj
    BY <1>22 DEF Generation, WorkObj, ConditionStatus
  <2>2. JobOK'
    BY <1>22, StaleOK DEF Generation
  <2>3. HubOK' /\ RestOK'
    BY <1>22, <2>1, SpendOK DEF Generation, TypeInv, HubOK, RestOK
  <2> QED
    BY <1>22, <2>2, <2>3 DEF Generation, TypeInv, OwnerOK, ObjectOK, ownerVars
<1>23. ASSUME NEW m \in Manifest, NEW v \in 0..MaxVersion, EditManifest(m, v) PROVE TypeInv'
  <2>1. [work EXCEPT !.spec[m] = v] \in WorkObj
    BY DEF TypeInv, HubOK, WorkObj
  <2> QED
    BY <1>22, <1>23, <2>1 DEF EditManifest
<1>24. ASSUME NEW s \in Strategies, EditStrategy(s) PROVE TypeInv'
  <2>1. [work EXCEPT !.strategy = s] \in WorkObj
    BY DEF TypeInv, HubOK, WorkObj
  <2> QED
    BY <1>22, <1>24, <2>1 DEF EditStrategy
<1>25. CASE DeleteWork
  <2>1. work' \in WorkObj
    <3>1. [work EXCEPT !.phase = "deleting"] \in WorkObj
      BY DEF TypeInv, HubOK, WorkObj
    <3> QED
      BY <1>0, <1>25, <3>1, NothingOK DEF DeleteWork
  <2>2. JobOK'
    BY <1>25, StaleOK DEF DeleteWork
  <2>3. HubOK' /\ RestOK'
    BY <1>25, <2>1, SpendOK DEF DeleteWork, TypeInv, HubOK, RestOK
  <2> QED
    BY <1>25, <2>2, <2>3 DEF DeleteWork, TypeInv, OwnerOK, ObjectOK, ownerVars
<1>26. ASSUME NEW spec \in [Manifest -> 0..1], RecreateWork(spec) PROVE TypeInv'
  <2>1. NewWork(spec, work.strategy) \in WorkObj
    BY <1>0, NewWorkOK
  <2>2. HubOK' /\ RestOK'
    BY <1>26, <2>1, SpendOK DEF RecreateWork, TypeInv, HubOK, RestOK
  <2> QED
    BY <1>26, <2>2 DEF RecreateWork, TypeInv, OwnerOK, ObjectOK, JobOK, ownerVars
<1>27. CASE Deliver
  BY <1>27 DEF Deliver, TypeInv, HubOK, OwnerOK, ObjectOK, JobOK, RestOK, ownerVars
<1>28. ASSUME NEW m \in Manifest, CollectObject(m) PROVE TypeInv'
  <2>1. PICK o \in MemberObject : Write(m, o)
    BY <1>28, CollectedOK, NothingOK DEF CollectObject
  <2> QED
    BY <1>28, <2>1, WriteOK DEF CollectObject, Write, TypeInv, RestOK
<1>29. CASE CollectOwner
  <2>1. OwnerOK'
    <3>1. 0 \in 0..MaxOwner
      BY SMTT(60), ApplierAssumption
    <3> QED
      BY <1>29, <3>1 DEF CollectOwner, TypeInv, OwnerOK
  <2> QED
    BY <1>29, <2>1 DEF CollectOwner, TypeInv, HubOK, ObjectOK, JobOK, RestOK, hubVars
<1>30. ASSUME NEW m \in Manifest, Meddle(m) PROVE TypeInv'
  <2>1. PICK o \in MemberObject : Write(m, o)
    BY <1>30, MeddledOK DEF Meddle
  <2> QED
    BY <1>30, <2>1, WriteOK, SpendOK DEF Meddle, Write, TypeInv, RestOK
<1>31. CASE GiveUp
  BY <1>31, SpendOK, ReturnOK DEF GiveUp, TypeInv, HubOK, OwnerOK, ObjectOK, RestOK, hubVars, ownerVars
<1>32. CASE Restart
  <2>1. RestOK'
    BY <1>32, SpendOK DEF Restart, TypeInv, RestOK
  <2> QED
    BY <1>32, <2>1, ReturnOK DEF Restart, TypeInv, HubOK, OwnerOK, ObjectOK, ownerVars
<1>33. CASE UNCHANGED vars
  BY <1>33 DEF vars, TypeInv, HubOK, OwnerOK, ObjectOK, JobOK, RestOK
<1> QED
  BY <1>1, <1>2, <1>3, <1>4, <1>5, <1>6, <1>7, <1>8, <1>9, <1>10, <1>11, <1>12, <1>13, <1>14, <1>15,
     <1>16, <1>17, <1>18, <1>19, <1>20, <1>21, <1>23, <1>24, <1>25, <1>26, <1>27, <1>28, <1>29,
     <1>30, <1>31, <1>32, <1>33
  DEF Next, Applier, Membership, Hub, GarbageCollector

\* An object that is not there has no data, and Fleet has placed it at most once.
PlacedOnce(o) ==
    /\ ~o.here => o = NoObject
    /\ \A x, y \in o.owners \cap FleetOwners : x = y

\* Whatever happens to an object between the read and the write of one manifest,
\* nobody but the applier gives it another owner of the fleet.
PlacementInv ==
    /\ \A m \in Manifest : PlacedOnce(object[m])
    /\ PlacedOnce(job.held)
    /\ job.pc \in {"takeover", "apply"} =>
         /\ object[job.cur].owners \cap FleetOwners \subseteq job.held.owners
         /\ job.same => object[job.cur] = job.held

\* Until the cluster leaves: whoever has or is about to create something on the member
\* cluster is guarded by the finalizer of the stored Work.
Guarded == work.phase # "absent" /\ work.fin
\* The finalizer, and how far a copy of the Work can be trusted.
GuardInv ==
    /\ synced => seen = work
    /\ job.fresh => job.work = work /\ job.pc # "idle"
    /\ job.pc # "idle" => job.work.phase = "live"
    /\ job.pc \notin {"idle", "ensure"} => job.work.fin
    /\ budget.leaves = MaxLeaves =>
         /\ membership # "leaving"
         /\ owner # 0 \/ (seen.phase = "live" /\ seen.fin) \/ (job.pc # "idle" /\ job.work.fin)
              => Guarded

\* A status that has an Applied condition lists exactly the manifests of the Work.
Listed(w) == w.applied # "None" => \A m \in Manifest : w.conds[m] # "None" <=> m \in InWork(w)

\* The stored status lists the manifest, or it is known to be missing there.
Known(m) == work.conds[m] # "None" \/ m \in leaked

\* ... as the shortcut of the write-ahead needs it for a Work read earlier
Covered(w) == w.applied # "None" => \A m \in InWork(w) : Known(m)

\* Left-over manifests that have been dealt with are gone from the member cluster.
CleanInv ==
    \A m \in Manifest \ (InWork(job.work) \ job.broken) :
        CountsAsApplied(job.work.conds[m]) /\ m \notin job.left /\ ~(job.pc = "remove" /\ job.cur = m)
            => ~Owned(object[m])

\* Every manifest has a result or is still to be processed.
TodoInv ==
    /\ job.todo \subseteq InWork(job.work) \ job.broken
    /\ \A m \in InWork(job.work) : m \in job.todo \/ job.result[m] # "None"

\* Manifests are processed only once the stored status lists them.
ProcessInv ==
    /\ TodoInv
    /\ job.pc # "find" => job.cur \in job.todo
    /\ ~ReportDiffOn(job.work) =>
         /\ \A m \in InWork(job.work) \ job.broken : Known(m)
         /\ \A m \in Manifest : job.work.conds[m] # "None" => m \in InWork(job.work)

\* The AppliedWorks objects refer to have been created; the one of a reconciliation is
\* the current one as long as there is one.
OwnersInv ==
    /\ owner <= created
    /\ \A m \in Manifest, x \in 1..MaxOwner : object[m].here /\ x \in object[m].owners => x <= created
    /\ \A x \in 1..MaxOwner : job.held.here /\ x \in job.held.owners => x <= created
    /\ job.pc \notin {"idle", "ensure"} => job.uid <= created /\ owner \in {0, job.uid}

\* What the copies of the Work say about the stored status.
CopiesInv ==
    /\ Listed(work) /\ Listed(seen) /\ Listed(job.work)
    /\ work.phase = "absent" => \A m \in Manifest : work.conds[m] = "None"
    /\ seen.phase = "live" => Covered(seen)
    /\ job.pc \in {"ensure", "prepare"} => Covered(job.work)
    /\ job.fresh /\ job.pc # "record" =>
         seen.spec = job.work.spec /\ seen.applied = job.work.applied

\* Where the reconciliation is.
StageInv ==
    /\ job.pc \in {"clean", "remove"} => ~SkipWriteAhead(job.work) /\ CleanInv /\ TodoInv
    /\ job.pc \in {"find", "takeover", "apply"} => ProcessInv

\* All that Tracked needs to be inductive.
TrackInv == Tracked /\ OwnersInv /\ CopiesInv /\ StageInv

\* An object that is not there is placed by nobody.
LEMMA NothingPlaced == PlacedOnce(NoObject)
BY DEF PlacedOnce, NoObject

\* removeOwnerRef adds no owner.
LEMMA DisownedPlaced ==
    ASSUME NEW o \in MemberObject, PlacedOnce(o)
    PROVE  PlacedOnce(Disowned(o))
<1>1. CASE o.here
  BY <1>1 DEF PlacedOnce, Disowned, MemberObject
<1>2. CASE ~o.here
  <2>1. Disowned(o) = NoObject
    <3>1. o = NoObject /\ NoObject.owners \ {job.uid} = {}
      BY <1>2 DEF PlacedOnce, NoObject
    <3>2. Disowned(o) = [NoObject EXCEPT !.owners = {}]
      BY <3>1 DEF Disowned
    <3> QED
      BY <3>2 DEF NoObject
  <2> QED
    BY <2>1, NothingPlaced
<1> QED
  BY <1>1, <1>2

\* Before the Work is there Fleet has placed an object for one other Work at most.
LEMMA PlacementInit == Init => PlacementInv
<1> SUFFICES ASSUME Init PROVE PlacementInv
  OBVIOUS
<1>1. PICK s \in Strategies, start \in Starts : object = start.object /\ job = Idle(s)
  BY DEF Init
<1>2. ASSUME NEW m \in Manifest PROVE PlacedOnce(object[m])
  <2>1. AtFirst(object[m])
    BY <1>1, <1>2, ApplierAssumption
  <2> QED
    BY <2>1 DEF AtFirst, PlacedOnce
<1> QED
  BY <1>1, <1>2, NothingOK, NothingPlaced DEF PlacementInv

\* A step that ends the work on a manifest, or does not touch the objects.
LEMMA PlacementQuiet ==
    ASSUME PlacementInv, UNCHANGED object,
           \/ job'.held \in {job.held, NoObject} /\ job'.pc \notin {"takeover", "apply"}
           \/ /\ job'.held = job.held /\ job'.cur = job.cur /\ job'.same = job.same
              /\ job.pc \in {"takeover", "apply"}
    PROVE  PlacementInv'
BY SMTT(60), NothingPlaced DEF PlacementInv, PlacedOnce

\* Users and the garbage collector add no owner of the fleet.
LEMMA PlacementWrite ==
    ASSUME TypeInv, PlacementInv, NEW m \in Manifest, NEW o, Write(m, o),
           PlacedOnce(o), o.owners \cap FleetOwners \subseteq object[m].owners
    PROVE  PlacementInv'
<1>1. object' = [object EXCEPT ![m] = o] /\ job'.held = job.held /\ job'.pc = job.pc
      /\ job'.cur = job.cur /\ (job'.same <=> job.same /\ job.cur # m)
  BY DEF Write, TypeInv, JobOK, Job
<1>2. object \in [Manifest -> MemberObject] /\ (job.pc \in {"takeover", "apply"} => job.cur \in Manifest)
  BY DEF TypeInv, ObjectOK, JobOK
<1>3. \A k \in Manifest : PlacedOnce(object'[k])
  BY <1>1, <1>2 DEF PlacementInv
<1>4. PlacedOnce(job'.held)
  BY <1>1 DEF PlacementInv
<1>5. ASSUME job'.pc \in {"takeover", "apply"}
      PROVE  /\ object'[job'.cur].owners \cap FleetOwners \subseteq job'.held.owners
             /\ job'.same => object'[job'.cur] = job'.held
  <2>1. CASE job.cur = m
    BY <1>1, <1>2, <1>5, <2>1 DEF PlacementInv
  <2>2. CASE job.cur # m
    BY <1>1, <1>2, <1>5, <2>2 DEF PlacementInv
  <2> QED
    BY <2>1, <2>2
<1> QED
  BY <1>3, <1>4, <1>5 DEF PlacementInv, PlacedOnce

\* One owner of the fleet at most: every step, of the applier above all, keeps it so.
LEMMA PlacementStep == TypeInv /\ PlacementInv /\ [Next]_vars => PlacementInv'
<1> SUFFICES ASSUME TypeInv, PlacementInv, [Next]_vars PROVE PlacementInv'
  OBVIOUS
<1>0. job \in Job /\ job.work.strategy \in Strategies /\ seen.strategy \in Strategies
      /\ object \in [Manifest -> MemberObject] /\ job.uid \in 0..MaxOwner
  BY DEF TypeInv, HubOK, ObjectOK, JobOK, Job, WorkObj
<1>a. ASSUME Return, UNCHANGED object PROVE PlacementInv'
  BY <1>0, <1>a, NothingOK, PlacementQuiet DEF Return
<1>b. ASSUME NEW m, NEW res, NEW d, Finish(m, res, d), UNCHANGED object PROVE PlacementInv'
  <2>1. job'.held = NoObject /\ job'.pc = "find"
    BY <1>0, <1>b DEF Finish, Job
  <2> QED
    BY <1>b, <2>1, PlacementQuiet
<1>c. ASSUME UNCHANGED object, UNCHANGED job \/ job' = [job EXCEPT !.fresh = FALSE] PROVE PlacementInv'
  <2>1. job'.held = job.held /\ job'.cur = job.cur /\ job'.same = job.same /\ job'.pc = job.pc
    BY <1>0, <1>c DEF Job
  <2> QED
    BY <1>c, <2>1, PlacementQuiet
<1>1. CASE Start
  <2>1. job'.held = NoObject /\ job'.pc = "ensure"
    BY <1>0, <1>1, NothingOK DEF Start, Job
  <2> QED
    BY <1>1, <2>1, PlacementQuiet DEF Start
<1>2. CASE AddFinalizer
  <2>1. CASE Return
    BY <1>2, <2>1, <1>a DEF AddFinalizer
  <2>2. CASE job' = [job EXCEPT !.work = [job.work EXCEPT !.fin = TRUE]]
    <3>1. job'.held = job.held /\ job'.pc = "ensure"
      BY <1>0, <1>2, <2>2 DEF AddFinalizer, Job
    <3> QED
      BY <1>2, <3>1, PlacementQuiet DEF AddFinalizer
  <2> QED
    BY <1>2, <2>1, <2>2 DEF AddFinalizer
<1>3. CASE EnsureAppliedWork
  <2>1. job'.held = job.held /\ job'.pc = "prepare"
    BY <1>0, <1>3 DEF EnsureAppliedWork, Job
  <2> QED
    BY <1>3, <2>1, PlacementQuiet DEF EnsureAppliedWork
<1>4. CASE PreProcess
  <2>1. CASE Return
    BY <1>4, <2>1, <1>a DEF PreProcess
  <2>2. CASE ~Return
    <3>1. job'.held = job.held /\ job'.pc \in {"find", "clean"}
      BY <1>0, <1>4, <2>2 DEF PreProcess, Job
    <3> QED
      BY <1>4, <3>1, PlacementQuiet DEF PreProcess
  <2> QED
    BY <2>1, <2>2
<1>5. ASSUME NEW m \in Manifest, ReadLeftOver(m) PROVE PlacementInv'
  <2>1. job'.held \in {object[m], NoObject} /\ job'.pc \in {"remove", "clean"}
    BY <1>0, <1>5 DEF ReadLeftOver, Job
  <2> QED
    BY SMTT(60), <1>5, <2>1, NothingPlaced DEF ReadLeftOver, PlacementInv, PlacedOnce
<1>6. ASSUME NEW m \in Manifest, FindObject(m) PROVE PlacementInv'
  <2>1. CASE Finish(m, "FailedToFindObjInMemberCluster", FALSE)
    BY <1>6, <2>1, <1>b DEF FindObject
  <2>2. CASE job' = [job EXCEPT !.pc = "takeover", !.cur = m, !.held = object[m], !.same = TRUE]
    <3>1. job'.held = object[m] /\ job'.cur = m
      BY <1>0, <2>2 DEF Job
    <3> QED
      BY SMTT(60), <1>6, <3>1 DEF FindObject, PlacementInv, PlacedOnce
  <2> QED
    BY <1>6, <2>1, <2>2 DEF FindObject
<1>7. CASE RemoveLeftOver
  <2>0. job.pc = "remove" /\ job.cur \in Manifest
    BY <1>7 DEF RemoveLeftOver, TypeInv, JobOK
  <2> DEFINE g == IF Cardinality(job.held.owners) > 1 THEN Disowned(object[job.cur]) ELSE NoObject
  <2>1. \/ object' = object
        \/ object' = [object EXCEPT ![job.cur] = NoObject]
        \/ object' = [object EXCEPT ![job.cur] = g]
    BY <1>7 DEF RemoveLeftOver
  <2>2. PlacedOnce(g)
    BY <1>0, <2>0, DisownedPlaced, NothingPlaced DEF PlacementInv
  <2> HIDE DEF g
  <2>3. \A m \in Manifest : PlacedOnce(object'[m])
    BY <1>0, <2>0, <2>1, <2>2, NothingPlaced DEF PlacementInv
  <2>4. job'.held = NoObject /\ job'.pc \in {"clean", "idle"}
    <3>1. CASE Return
      BY <1>0, <3>1, NothingOK DEF Return
    <3>2. CASE job' = [job EXCEPT !.pc = "clean", !.cur = Nothing, !.held = NoObject, !.same = FALSE]
      BY <1>0, <3>2 DEF Job
    <3> QED
      BY <1>7, <3>1, <3>2 DEF RemoveLeftOver
  <2> QED
    BY <2>3, <2>4, NothingPlaced DEF PlacementInv, PlacedOnce
<1>8. CASE WriteAhead
  <2>1. CASE Return
    BY <1>8, <2>1, <1>a DEF WriteAhead
  <2>2. CASE ~Return
    <3>1. job'.held = job.held /\ job'.pc = "find"
      BY <1>0, <1>8, <2>2 DEF WriteAhead, Job
    <3> QED
      BY <1>8, <3>1, PlacementQuiet DEF WriteAhead
  <2> QED
    BY <2>1, <2>2
<1>9. CASE TakeOver
  <2>0. job.pc = "takeover" /\ job.cur \in Manifest /\ job.held \in MemberObject
    BY <1>9 DEF TakeOver, TypeInv, JobOK, Job
  <2>1. \/ \E res, d : Finish(job.cur, res, d) /\ UNCHANGED object
        \/ job' = [job EXCEPT !.pc = "apply"] /\ UNCHANGED object
        \/ /\ ShouldTakeOver /\ ~TakeOverRefused
           /\ object' = [object EXCEPT ![job.cur] = TakenOver]
           /\ job' = [job EXCEPT !.pc = "apply", !.held = TakenOver]
    BY <1>9 DEF TakeOver
  <2>2. CASE job' = [job EXCEPT !.pc = "apply"] /\ UNCHANGED object
    <3>1. job'.held = job.held /\ job'.cur = job.cur /\ job'.same = job.same
      BY <1>0, <2>2 DEF Job
    <3> QED
      BY <2>0, <2>2, <3>1, PlacementQuiet
  <2>3. CASE /\ ShouldTakeOver /\ ~TakeOverRefused
             /\ object' = [object EXCEPT ![job.cur] = TakenOver]
             /\ job' = [job EXCEPT !.pc = "apply", !.held = TakenOver]
    <3>1. job'.held = TakenOver /\ job'.cur = job.cur /\ object'[job.cur] = TakenOver
      BY <1>0, <2>0, <2>3 DEF Job
    <3>2. TakenOver.here /\ TakenOver.owners = (job.held.owners \ {Orphan}) \cup {job.uid}
      BY <2>0, <2>3 DEF TakenOver, ShouldTakeOver, RemainingOwners, MemberObject
    <3>3. (job.held.owners \ {Orphan}) \cap (FleetOwners \ {job.uid}) = {}
      BY <2>3 DEF TakeOverRefused, PlacedInDuplicate, RemainingOwners
    <3>4. \A x \in TakenOver.owners \cap FleetOwners : x = job.uid
      BY <3>2, <3>3
    <3>5. PlacedOnce(TakenOver)
      BY <3>2, <3>4 DEF PlacedOnce
    <3>6. \A m \in Manifest : PlacedOnce(object'[m])
      BY <1>0, <2>0, <2>3, <3>5 DEF PlacementInv
    <3> QED
      BY <3>1, <3>5, <3>6 DEF PlacementInv, PlacedOnce
  <2> QED
    BY <1>b, <2>1, <2>2, <2>3
<1>10. CASE ReportDiffOnly
  <2>1. \E res, d : Finish(job.cur, res, d)
    BY <1>10 DEF ReportDiffOnly
  <2> QED
    BY <1>10, <1>b, <2>1 DEF ReportDiffOnly
<1>11. CASE RefuseToApply
  <2>1. \E res, d : Finish(job.cur, res, d)
    BY <1>11 DEF RefuseToApply
  <2> QED
    BY <1>11, <1>b, <2>1 DEF RefuseToApply
<1>12. CASE Apply
  <2>0. job.pc = "apply" /\ job.cur \in Manifest
    BY <1>12 DEF Apply, TypeInv, JobOK
  <2>1. \E res, d : Finish(job.cur, res, d)
    BY <1>12 DEF Apply
  <2>2. CASE UNCHANGED object
    BY <1>b, <2>1, <2>2
  <2>3. CASE Accepted(job.cur) /\ object' = [object EXCEPT ![job.cur] = Outcome(job.cur)]
    <3>1. PlacedOnce(Outcome(job.cur))
      <4>1. CASE ~object[job.cur].here
        BY <4>1 DEF Outcome, Created, PlacedOnce
      <4>2. CASE object[job.cur].here
        <5>1. job.held.here /\ OwnersValid(job.held)
          BY <2>3, <4>2 DEF Accepted
        <5>2. \A x \in object[job.cur].owners \cap FleetOwners : x = job.uid
          BY <2>0, <5>1 DEF PlacementInv, OwnersValid, PlacedInDuplicate
        <5>3. Patched(job.cur).here
              /\ Patched(job.cur).owners \subseteq object[job.cur].owners \cup {job.uid}
          BY <1>0, <2>0, <4>2 DEF Patched, MemberObject
        <5> QED
          BY <4>2, <5>2, <5>3 DEF Outcome, PlacedOnce
      <4> QED
        BY <4>1, <4>2
    <3>2. \A m \in Manifest : PlacedOnce(object'[m])
      BY <1>0, <2>0, <2>3, <3>1 DEF PlacementInv
    <3>3. job'.held = NoObject /\ job'.pc = "find"
      BY <1>0, <2>1 DEF Finish, Job
    <3> QED
      BY <3>2, <3>3, NothingPlaced DEF PlacementInv, PlacedOnce
  <2> QED
    BY <1>12, <2>2, <2>3 DEF Apply
<1>13. CASE RefreshWorkStatus
  <2>1. CASE Return
    BY <1>13, <2>1, <1>a DEF RefreshWorkStatus
  <2>2. CASE ~Return
    <3>1. job'.held = job.held /\ job'.pc = "record"
      BY <1>0, <1>13, <2>2 DEF RefreshWorkStatus, Job
    <3> QED
      BY <1>13, <3>1, PlacementQuiet DEF RefreshWorkStatus
  <2> QED
    BY <2>1, <2>2
<1>14. CASE RefreshAppliedWorkStatus \/ GiveUp \/ Restart
  BY <1>14, <1>a DEF RefreshAppliedWorkStatus, GiveUp, Restart
<1>15. CASE DeleteAppliedWork \/ ForgetWork \/ CollectOwner \/ Membership
  BY <1>15, <1>c DEF DeleteAppliedWork, ForgetWork, CollectOwner, Membership, Leave, LeaveRemovesFinalizer,
                     Left, Join
<1>16. CASE Hub
  BY <1>16, <1>c DEF Hub, EditManifest, EditStrategy, Generation, DeleteWork, RecreateWork, Deliver
<1>17. CASE UpdateOwnerReference
  <2>1. ASSUME NEW m \in Manifest PROVE PlacedOnce(object'[m])
    <3>1. \/ object'[m] = object[m]
          \/ object[m].here /\ object'[m] = [object[m] EXCEPT !.block = FALSE]
      BY <1>17, <2>1 DEF UpdateOwnerReference
    <3> QED
      BY SMTT(60), <1>0, <3>1 DEF PlacementInv, PlacedOnce, MemberObject
  <2>2. job' = job /\ job.pc = "idle"
    BY <1>17 DEF UpdateOwnerReference, CanCollect
  <2> QED
    BY <2>1, <2>2 DEF PlacementInv, PlacedOnce
<1>18. ASSUME NEW m \in Manifest, CollectObject(m) PROVE PlacementInv'
  <2>0. object[m] \in MemberObject /\ PlacedOnce(object[m]) /\ object[m].here
    BY <1>0, <1>18 DEF CollectObject, PlacementInv
  <2>1. CASE Solid(object[m]) = {}
    BY <1>18, <2>1, NothingPlaced, PlacementWrite DEF CollectObject, NoObject
  <2>2. CASE Solid(object[m]) # {}
    <3> DEFINE s == Solid(object[m])
               o == [object[m] EXCEPT !.owners = s]
    <3>1. s \subseteq object[m].owners
      BY DEF Solid
    <3> HIDE DEF s
    <3>2. o.here /\ o.owners = s
      BY <2>0 DEF MemberObject
    <3>3. PlacedOnce(o)
      BY <2>0, <3>1, <3>2 DEF PlacedOnce
    <3>4. Write(m, o)
      BY <1>18, <2>2 DEF CollectObject, s
    <3> HIDE DEF o
    <3> QED
      BY <3>1, <3>2, <3>3, <3>4, PlacementWrite
  <2> QED
    BY <2>1, <2>2
<1>19. ASSUME NEW m \in Manifest, Meddle(m) PROVE PlacementInv'
  <2>0. object[m] \in MemberObject /\ PlacedOnce(object[m])
    BY <1>0 DEF PlacementInv
  <2>1. PICK o : Write(m, o) /\ (\/ o = NoObject
                                 \/ o = [NoObject EXCEPT !.here = TRUE]
                                 \/ object[m].here /\ o = [object[m] EXCEPT !.content = 0]
                                 \/ object[m].here /\ o = [object[m] EXCEPT !.extra = TRUE]
                                 \/ object[m].here /\ o = [object[m] EXCEPT !.owners = @ \cup {User}])
    BY <1>19 DEF Meddle
  <2>2. /\ o.owners \cap FleetOwners \subseteq object[m].owners
        /\ o.here \/ o = NoObject
    BY SMTT(60), <2>0, <2>1, ApplierAssumption DEF MemberObject, NoObject
  <2>3. PlacedOnce(o)
    BY <2>0, <2>2, NothingPlaced DEF PlacedOnce
  <2> QED
    BY <2>1, <2>2, <2>3, PlacementWrite
<1>20. CASE UNCHANGED vars
  BY <1>20, <1>c DEF vars
<1> QED
  BY <1>1, <1>2, <1>3, <1>4, <1>5, <1>6, <1>7, <1>8, <1>9, <1>10, <1>11, <1>12, <1>13, <1>14, <1>15,
     <1>16, <1>17, <1>18, <1>19, <1>20
  DEF Next, Applier, GarbageCollector

\* No object is placed by two Works, nor for two AppliedWorks of the same Work, whatever
\* the users of the member cluster, the garbage collector and failures do between the
\* reads and the writes of takeOverPreExistingObject and of the apply op.
THEOREM NeverPlacedTwice == Spec => []NotPlacedTwice
<1>1. Init => TypeInv /\ PlacementInv
  BY TypeInit, PlacementInit
<1>2. TypeInv /\ PlacementInv /\ [Next]_vars => (TypeInv /\ PlacementInv)'
  BY TypeStep, PlacementStep
<1>3. TypeInv /\ PlacementInv => NotPlacedTwice
  <2> SUFFICES ASSUME TypeInv, PlacementInv, NEW m \in Manifest
               PROVE  Cardinality(object[m].owners \cap FleetOwners) <= 1
    BY DEF NotPlacedTwice
  <2> DEFINE S == object[m].owners \cap FleetOwners
  <2>1. \A x, y \in S : x = y
    BY DEF PlacementInv, PlacedOnce
  <2>2. CASE S = {}
    <3>1. Cardinality(S) = 0
      BY <2>2, FS_EmptySet
    <3> QED
      BY SMT, <3>1
  <2>3. CASE S # {}
    <3>1. PICK x : S = {x}
      BY <2>1, <2>3
    <3>2. Cardinality({x}) = 1
      BY FS_Singleton
    <3>3. Cardinality(S) = 1
      BY <3>1, <3>2
    <3> QED
      BY SMT, <3>3
  <2> QED
    BY <2>2, <2>3
<1> QED
  BY <1>1, <1>2, <1>3, PTL DEF Spec

\* With IfNotDrifted an apply never overwrites a change made to the object since its
\* current manifest was applied: the optimistic lock of shouldEnableOptimisticLock
\* closes the gap between the drift detection and the write.
THEOREM DriftIsPreserved == Spec => DriftPreserved
<1> DEFINE Kept(m) ==
      /\ object[m].here /\ object'[m].here
      /\ object'[m].content # object[m].content /\ object'[m].content > 0
      /\ job.work.strategy.apply = "IfNotDrifted"
      => object[m].hash # object'[m].hash
<1>1. TypeInv /\ PlacementInv /\ [Next]_vars => [\A m \in Manifest : Kept(m)]_vars
  <2> SUFFICES ASSUME TypeInv, PlacementInv, Next, NEW m \in Manifest PROVE Kept(m)
    OBVIOUS
  <2>0. object \in [Manifest -> MemberObject]
    BY DEF TypeInv, ObjectOK
  <2>1. CASE UNCHANGED object
    BY <2>1
  <2>2. CASE RemoveLeftOver
    <3>0. job.cur \in Manifest
      BY <2>2 DEF RemoveLeftOver, TypeInv, JobOK
    <3> DEFINE g == IF Cardinality(job.held.owners) > 1 THEN Disowned(object[job.cur]) ELSE NoObject
    <3>1. \/ object' = object
          \/ object' = [object EXCEPT ![job.cur] = NoObject]
          \/ object' = [object EXCEPT ![job.cur] = g]
      BY <2>2 DEF RemoveLeftOver
    <3>2. ~NoObject.here /\ (g.here => g.content = object[job.cur].content)
      BY <2>0, <3>0 DEF NoObject, Disowned, MemberObject
    <3> HIDE DEF g
    <3> QED
      BY <2>0, <3>0, <3>1, <3>2
  <2>3. CASE TakeOver
    <3>1. job.pc = "takeover" /\ job.cur \in Manifest /\ job.held \in MemberObject
      BY <2>3 DEF TakeOver, TypeInv, JobOK, Job
    <3>2. UNCHANGED object \/ (job.same /\ object' = [object EXCEPT ![job.cur] = TakenOver])
      BY <2>3 DEF TakeOver
    <3>3. TakenOver.content = job.held.content
      BY <3>1 DEF TakenOver, MemberObject
    <3>4. job.same => object[job.cur] = job.held
      BY <3>1 DEF PlacementInv
    <3> QED
      BY <2>0, <3>1, <3>2, <3>3, <3>4
  <2>4. CASE Apply
    <3>1. job.pc = "apply" /\ job.cur \in Manifest /\ job.held \in MemberObject
      BY <2>4 DEF Apply, TypeInv, JobOK, Job
    <3>2. CASE UNCHANGED object
      BY <3>2
    <3>3. CASE Accepted(job.cur) /\ object' = [object EXCEPT ![job.cur] = Outcome(job.cur)]
      <4> SUFFICES ASSUME m = job.cur, object[m].here, job.work.strategy.apply = "IfNotDrifted",
                          object'[m].content # object[m].content
                   PROVE  object[m].hash # object'[m].hash
        BY <2>0, <3>1, <3>3
      <4>1. job.held.here /\ job.same
        BY <3>3 DEF Accepted, Locked, Strategy
      <4>2. object[m] = job.held
        BY <3>1, <4>1 DEF PlacementInv
      <4>3. object'[m].hash = Version(m) /\ object'[m].content = Version(m)
        BY <2>0, <3>1, <3>3 DEF Outcome, Patched, MemberObject
      <4>4. ~PreApplyDrift
        BY <2>4, <4>1 DEF Apply
      <4> QED
        BY <4>1, <4>2, <4>3, <4>4 DEF PreApplyDrift, Differs, Strategy
    <3> QED
      BY <2>4, <3>2, <3>3 DEF Apply
  <2>5. CASE UpdateOwnerReference
    <3>1. object'[m] = object[m] \/ object'[m] = [object[m] EXCEPT !.block = FALSE]
      BY <2>5 DEF UpdateOwnerReference
    <3> QED
      BY <2>0, <3>1 DEF MemberObject
  <2>6. ASSUME NEW k \in Manifest, CollectObject(k) PROVE Kept(m)
    <3>1. \/ object' = [object EXCEPT ![k] = NoObject]
          \/ object' = [object EXCEPT ![k] = [object[k] EXCEPT !.owners = Solid(object[k])]]
      BY <2>6 DEF CollectObject, Write
    <3> QED
      BY SMTT(60), <2>0, <3>1 DEF NoObject, MemberObject
  <2>7. ASSUME NEW k \in Manifest, Meddle(k) PROVE Kept(m)
    <3>1. PICK o : object' = [object EXCEPT ![k] = o]
                   /\ (\/ o = NoObject
                       \/ o = [NoObject EXCEPT !.here = TRUE]
                       \/ o = [object[k] EXCEPT !.content = 0]
                       \/ o = [object[k] EXCEPT !.extra = TRUE]
                       \/ o = [object[k] EXCEPT !.owners = @ \cup {User}])
      BY <2>7 DEF Meddle, Write
    <3>2. o.content = 0 \/ o.content = object[k].content
      BY SMTT(60), <2>0, <3>1 DEF NoObject, MemberObject
    <3> QED
      BY SMTT(60), <2>0, <3>1, <3>2
  <2> QED
    BY <2>1, <2>2, <2>3, <2>4, <2>5, <2>6, <2>7
    DEF Next, Applier, Start, AddFinalizer, EnsureAppliedWork, PreProcess, ReadLeftOver, FindObject, WriteAhead,
        ReportDiffOnly, RefuseToApply, RefreshWorkStatus, RefreshAppliedWorkStatus, DeleteAppliedWork, ForgetWork,
        Membership, Leave, LeaveRemovesFinalizer, Left, Join, Hub, EditManifest, EditStrategy, Generation,
        DeleteWork, RecreateWork, Deliver, GarbageCollector, CollectOwner, GiveUp, Restart
<1>2. Init => TypeInv /\ PlacementInv
  BY TypeInit, PlacementInit
<1>3. TypeInv /\ PlacementInv /\ [Next]_vars => (TypeInv /\ PlacementInv)'
  BY TypeStep, PlacementStep
<1> QED
  BY <1>1, <1>2, <1>3, PTL DEF Spec, DriftPreserved

\* At first there is nothing to guard.
LEMMA GuardInit == Init => GuardInv
<1> SUFFICES ASSUME Init PROVE GuardInv
  OBVIOUS
<1>1. PICK s \in Strategies, start \in Starts : work = NewWork(start.spec, s) /\ job = Idle(s)
  BY DEF Init
<1>2. ~work.fin
  BY <1>1 DEF NewWork, NoWork
<1> QED
  BY <1>1, <1>2, NothingOK DEF Init, GuardInv


\* ensureAppliedWork adds the finalizer before anything else; garbageCollectAppliedWork removes it last.
LEMMA GuardStep == TypeInv /\ GuardInv /\ [Next]_vars => GuardInv'
<1> SUFFICES ASSUME TypeInv, GuardInv, [Next]_vars PROVE GuardInv'
  OBVIOUS
<1>0. job \in Job /\ job.work \in WorkObj /\ work \in WorkObj
      /\ job.work.strategy \in Strategies /\ seen.strategy \in Strategies
  BY DEF TypeInv, HubOK, JobOK, Job, WorkObj
<1>a. ASSUME Return PROVE job'.pc = "idle" /\ job'.fresh = FALSE
  BY <1>0, <1>a, NothingOK DEF Return
<1>b. ASSUME NEW m, NEW res, NEW d, Finish(m, res, d)
      PROVE  job'.pc = "find" /\ job'.fresh = job.fresh /\ job'.work = job.work
  BY <1>0, <1>b DEF Finish, Job
<1>c. ASSUME job' = [job EXCEPT !.fresh = FALSE]
      PROVE  job'.fresh = FALSE /\ job'.pc = job.pc /\ job'.work = job.work
  BY <1>0, <1>c DEF Job
<1>d. ASSUME Spend("errors") \/ Spend("edits") \/ Spend("meddles") PROVE budget'.leaves = budget.leaves
  BY <1>d, SpendOK
<1>1. CASE Start
  <2>1. job'.pc = "ensure" /\ job'.work = seen /\ job'.fresh = synced
    BY <1>0, <1>1, NothingOK DEF Start, Job
  <2> QED
    BY <1>1, <2>1 DEF Start, GuardInv, Guarded, hubVars, ownerVars
<1>2. CASE AddFinalizer
  <2> DEFINE w == [job.work EXCEPT !.fin = TRUE]
  <2>1. w.phase = job.work.phase /\ w.fin = TRUE
    BY <1>0 DEF WorkObj
  <2> HIDE DEF w
  <2>2. \/ job.fresh /\ work' = w /\ synced' = FALSE /\ UNCHANGED seen /\ job' = [job EXCEPT !.work = w]
        \/ Return /\ UNCHANGED hubVars
    BY <1>2 DEF AddFinalizer, StoreWork, w
  <2>3. CASE Return /\ UNCHANGED hubVars
    BY <1>2, <1>a, <2>3 DEF AddFinalizer, GuardInv, Guarded, hubVars, ownerVars
  <2>4. CASE job.fresh /\ work' = w /\ synced' = FALSE /\ UNCHANGED seen /\ job' = [job EXCEPT !.work = w]
    <3>1. job'.work = w /\ job'.pc = "ensure" /\ job'.fresh = job.fresh /\ job.pc = "ensure"
      BY <1>0, <1>2, <2>4 DEF AddFinalizer, Job
    <3> QED
      BY <1>2, <2>1, <2>4, <3>1 DEF AddFinalizer, GuardInv, Guarded
  <2> QED
    BY <2>2, <2>3, <2>4
<1>3. CASE EnsureAppliedWork
  <2>1. job'.pc = "prepare" /\ job'.work = job.work /\ job'.fresh = job.fresh
    BY <1>0, <1>3 DEF EnsureAppliedWork, Job
  <2> QED
    BY <1>3, <2>1 DEF EnsureAppliedWork, GuardInv, Guarded, hubVars
<1>e. ASSUME UNCHANGED <<hubVars, owner, membership>>, budget'.leaves = budget.leaves, job.pc # "idle",
             \/ job'.pc = "idle" /\ job'.fresh = FALSE
             \/ /\ job'.pc # "idle" /\ job'.work = job.work /\ job'.fresh = job.fresh
                /\ job.pc \notin {"idle", "ensure"}
      PROVE  GuardInv'
  BY <1>e DEF GuardInv, Guarded, hubVars
<1>4. CASE PreProcess
  <2>1. job.pc = "prepare" /\ budget'.leaves = budget.leaves
    BY <1>4, <1>d DEF PreProcess
  <2>2. CASE Return
    BY <1>4, <1>a, <1>e, <2>1, <2>2 DEF PreProcess, ownerVars
  <2>3. CASE ~Return
    <3>1. job'.pc \in {"find", "clean"} /\ job'.work = job.work /\ job'.fresh = job.fresh
      BY <1>0, <1>4, <2>3 DEF PreProcess, Job
    <3> QED
      BY <1>4, <1>e, <2>1, <3>1 DEF PreProcess, ownerVars
  <2> QED
    BY <2>2, <2>3
<1>5. ASSUME NEW m \in Manifest, ReadLeftOver(m) PROVE GuardInv'
  <2>1. job'.pc \in {"remove", "clean"} /\ job'.work = job.work /\ job'.fresh = job.fresh
    BY <1>0, <1>5 DEF ReadLeftOver, Job
  <2> QED
    BY <1>5, <1>e, <2>1 DEF ReadLeftOver, ownerVars
<1>6. ASSUME NEW m \in Manifest, FindObject(m) PROVE GuardInv'
  <2>1. job'.pc \in {"takeover", "find"} /\ job'.work = job.work /\ job'.fresh = job.fresh
    BY <1>0, <1>6, <1>b DEF FindObject, Job
  <2>2. budget'.leaves = budget.leaves
    BY <1>6, <1>d DEF FindObject
  <2> QED
    BY <1>6, <1>e, <2>1, <2>2 DEF FindObject, ownerVars
<1>7. CASE RemoveLeftOver
  <2>1. CASE Return
    BY <1>7, <1>a, <1>e, <2>1 DEF RemoveLeftOver, ownerVars
  <2>2. CASE job' = [job EXCEPT !.pc = "clean", !.cur = Nothing, !.held = NoObject, !.same = FALSE]
    <3>1. job'.pc = "clean" /\ job'.work = job.work /\ job'.fresh = job.fresh
      BY <1>0, <2>2 DEF Job
    <3> QED
      BY <1>7, <1>e, <3>1 DEF RemoveLeftOver, ownerVars
  <2> QED
    BY <1>7, <2>1, <2>2 DEF RemoveLeftOver
<1>f. ASSUME NEW w, w.phase = job.work.phase, w.fin = job.work.fin, job.pc \notin {"idle", "ensure"},
             job.fresh, job'.pc # "idle", job'.work = w, job'.fresh = job.fresh,
             work' = w, synced' = FALSE, UNCHANGED <<seen, owner, membership, budget>>
      PROVE  GuardInv'
  BY <1>f DEF GuardInv, Guarded
<1>8. CASE WriteAhead
  <2>1. CASE Return /\ UNCHANGED hubVars
    BY <1>8, <1>a, <1>e, <2>1 DEF WriteAhead, ownerVars
  <2>2. CASE \E cs : /\ StoreWork([job.work EXCEPT !.conds = cs])
                     /\ job' = [job EXCEPT !.pc = "find", !.work = [job.work EXCEPT !.conds = cs]]
    <3>1. PICK cs : /\ StoreWork([job.work EXCEPT !.conds = cs])
                    /\ job' = [job EXCEPT !.pc = "find", !.work = [job.work EXCEPT !.conds = cs]]
      BY <2>2
    <3> DEFINE w == [job.work EXCEPT !.conds = cs]
    <3>2. w.phase = job.work.phase /\ w.fin = job.work.fin
      BY <1>0 DEF WorkObj
    <3> HIDE DEF w
    <3>3. job'.pc = "find" /\ job'.work = w /\ job'.fresh = job.fresh
      BY <1>0, <3>1 DEF Job, w
    <3>4. job.fresh /\ work' = w /\ synced' = FALSE /\ UNCHANGED seen
      BY <3>1 DEF StoreWork, w
    <3> QED
      BY <1>8, <1>f, <3>2, <3>3, <3>4 DEF WriteAhead, ownerVars
  <2> QED
    BY <1>8, <2>1, <2>2 DEF WriteAhead
<1>9. CASE TakeOver
  <2>1. job'.pc \in {"find", "apply"} /\ job'.work = job.work /\ job'.fresh = job.fresh
    <3>1. CASE \E res, d : Finish(job.cur, res, d)
      BY <1>b, <3>1
    <3>2. CASE \/ job' = [job EXCEPT !.pc = "apply"]
               \/ job' = [job EXCEPT !.pc = "apply", !.held = TakenOver]
      BY <1>0, <3>2 DEF Job
    <3> QED
      BY <1>9, <3>1, <3>2 DEF TakeOver
  <2> QED
    BY <1>9, <1>e, <2>1 DEF TakeOver, ownerVars
<1>10. CASE ReportDiffOnly \/ RefuseToApply \/ Apply
  <2>1. \E res, d : Finish(job.cur, res, d)
    BY <1>10 DEF ReportDiffOnly, RefuseToApply, Apply
  <2>2. budget'.leaves = budget.leaves
    BY <1>10, <1>d DEF ReportDiffOnly, RefuseToApply, Apply
  <2> QED
    BY <1>10, <1>b, <1>e, <2>1, <2>2 DEF ReportDiffOnly, RefuseToApply, Apply, ownerVars
<1>11. CASE RefreshWorkStatus
  <2>1. CASE Return /\ UNCHANGED hubVars
    BY <1>11, <1>a, <1>e, <2>1 DEF RefreshWorkStatus, ownerVars
  <2>2. CASE \E w \in RefreshedWorks : /\ job' = [job EXCEPT !.pc = "record", !.work = w]
                                       /\ StoreWork(w) \/ (w = job.work /\ UNCHANGED hubVars)
    <3>1. PICK w \in RefreshedWorks : /\ job' = [job EXCEPT !.pc = "record", !.work = w]
                                      /\ StoreWork(w) \/ (w = job.work /\ UNCHANGED hubVars)
      BY <2>2
    <3>2. job'.pc = "record" /\ job'.work = w /\ job'.fresh = job.fresh
      BY <1>0, <3>1 DEF Job
    <3>3. w.phase = job.work.phase /\ w.fin = job.work.fin
      BY <1>0 DEF RefreshedWorks, WorkObj
    <3>4. CASE StoreWork(w)
      BY <1>11, <1>f, <3>2, <3>3, <3>4 DEF StoreWork, RefreshWorkStatus, ownerVars
    <3> QED
      BY <1>11, <1>e, <3>1, <3>2, <3>4 DEF RefreshWorkStatus, ownerVars
  <2> QED
    BY <1>11, <2>1, <2>2 DEF RefreshWorkStatus, SkipStatusUpdate
<1>12. CASE RefreshAppliedWorkStatus \/ GiveUp
  BY <1>12, <1>a, <1>d, <1>e DEF RefreshAppliedWorkStatus, GiveUp, ownerVars
<1>13. CASE DeleteAppliedWork \/ UpdateOwnerReference \/ CollectOwner
  BY SMTT(60), <1>13 DEF DeleteAppliedWork, UpdateOwnerReference, CollectOwner, hubVars, ownerVars, GuardInv, Guarded
<1>14. CASE ForgetWork
  BY <1>14 DEF ForgetWork, CanCollect, OwnerGone, ownerVars, GuardInv, Guarded
<1>15. CASE Leave
  <2>1. budget'.leaves < MaxLeaves
    BY <1>15, SpendOK DEF Leave
  <2>2. budget'.leaves # MaxLeaves
    BY SMTT(60), <2>1, SpendOK, <1>15, ApplierAssumption DEF Leave, Budget
  <2> QED
    BY <1>15, <2>2 DEF Leave, GuardInv, hubVars, ownerVars
<1>16. CASE LeaveRemovesFinalizer
  BY <1>16, <1>c DEF LeaveRemovesFinalizer, GuardInv, ownerVars
<1>17. CASE Left \/ Join
  BY SMTT(60), <1>17 DEF Left, Join, GuardInv, Guarded, hubVars, ownerVars
<1>18. ASSUME NEW w, w.phase = work.phase, w.fin = work.fin, work.phase = "live", Generation(w),
              w \in WorkObj
       PROVE  GuardInv'
  <2>1. work'.phase = work.phase /\ work'.fin = work.fin
    BY <1>18 DEF Generation, WorkObj
  <2>2. budget'.leaves = budget.leaves
    BY <1>18, <1>d DEF Generation
  <2> QED
    BY <1>18, <1>c, <2>1, <2>2 DEF Generation, GuardInv, Guarded, ownerVars
<1>19. ASSUME NEW m \in Manifest, NEW v \in 0..MaxVersion, EditManifest(m, v) PROVE GuardInv'
  <2> DEFINE w == [work EXCEPT !.spec[m] = v]
  <2>1. w.phase = work.phase /\ w.fin = work.fin /\ w \in WorkObj
    BY <1>0 DEF WorkObj
  <2> HIDE DEF w
  <2> QED
    BY <1>18, <1>19, <2>1 DEF EditManifest, w
<1>20. ASSUME NEW s \in Strategies, EditStrategy(s) PROVE GuardInv'
  <2> DEFINE w == [work EXCEPT !.strategy = s]
  <2>1. w.phase = work.phase /\ w.fin = work.fin /\ w \in WorkObj
    BY <1>0 DEF WorkObj
  <2> HIDE DEF w
  <2> QED
    BY <1>18, <1>20, <2>1 DEF EditStrategy, w
<1>21. CASE DeleteWork
  <2>1. work.fin => work'.phase = "deleting" /\ work'.fin
    BY <1>0, <1>21 DEF DeleteWork, WorkObj
  <2>2. budget'.leaves = budget.leaves
    BY <1>21, <1>d DEF DeleteWork
  <2> QED
    BY <1>21, <1>c, <2>1, <2>2 DEF DeleteWork, GuardInv, Guarded, ownerVars
<1>22. ASSUME NEW spec \in [Manifest -> 0..1], RecreateWork(spec) PROVE GuardInv'
  <2>1. budget'.leaves = budget.leaves
    BY <1>22, <1>d DEF RecreateWork
  <2> QED
    BY <1>22, <2>1 DEF RecreateWork, GuardInv, Guarded, ownerVars
<1>23. CASE Deliver
  BY <1>23 DEF Deliver, GuardInv, Guarded, ownerVars
<1>24. ASSUME NEW m \in Manifest, NEW o, Write(m, o), budget'.leaves = budget.leaves PROVE GuardInv'
  <2>1. job'.pc = job.pc /\ job'.work = job.work /\ job'.fresh = job.fresh
    BY <1>0, <1>24 DEF Write, Job
  <2> QED
    BY <1>24, <2>1 DEF Write, GuardInv, Guarded, hubVars, ownerVars
<1>25. ASSUME NEW m \in Manifest, CollectObject(m) \/ Meddle(m) PROVE GuardInv'
  <2>1. \E o : Write(m, o)
    BY <1>25 DEF CollectObject, Meddle
  <2>2. budget'.leaves = budget.leaves
    BY <1>25, <1>d DEF CollectObject, Meddle
  <2> QED
    BY <1>24, <2>1, <2>2
<1>26. CASE Restart
  <2>1. budget'.leaves = budget.leaves
    BY <1>26, <1>d DEF Restart
  <2> QED
    BY <1>26, <1>a, <2>1 DEF Restart, GuardInv, Guarded, ownerVars
<1>27. CASE UNCHANGED vars
  BY <1>27 DEF vars, GuardInv, Guarded
<1> QED
  BY <1>1, <1>2, <1>3, <1>4, <1>5, <1>6, <1>7, <1>8, <1>9, <1>10, <1>11, <1>12, <1>13, <1>14, <1>15,
     <1>16, <1>17, <1>19, <1>20, <1>21, <1>22, <1>23, <1>25, <1>26, <1>27
  DEF Next, Applier, Membership, Hub, GarbageCollector

\* garbageCollectAppliedWork and the finalizer ensureAppliedWork adds: as long as the
\* cluster does not leave the fleet, a Work that is gone leaves no AppliedWork behind,
\* and no reconciliation that is still under way may create objects for it.
THEOREM NothingIsLeftBehind == Spec => []NothingLeftBehind
<1>1. Init => TypeInv /\ GuardInv
  BY TypeInit, GuardInit
<1>2. TypeInv /\ GuardInv /\ [Next]_vars => (TypeInv /\ GuardInv)'
  BY TypeStep, GuardStep
<1>3. GuardInv => NothingLeftBehind
  BY DEF GuardInv, Guarded, NothingLeftBehind
<1> QED
  BY <1>1, <1>2, <1>3, PTL DEF Spec

\* What is left of a reconciliation that returned.
LEMMA ReturnFields ==
    TypeInv /\ Return => job'.pc = "idle" /\ ~job'.fresh /\ job'.work.applied = "None" /\ job'.held = NoObject
<1> SUFFICES ASSUME TypeInv, Return
             PROVE  job'.pc = "idle" /\ ~job'.fresh /\ job'.work.applied = "None" /\ job'.held = NoObject
  OBVIOUS
<1>1. job.work.strategy \in Strategies
  BY DEF TypeInv, JobOK, Job, WorkObj
<1>2. Idle(job.work.strategy).work.applied = "None"
  BY DEF Idle, NoWork
<1> QED
  BY <1>1, <1>2, NothingOK DEF Return

\* At first no object refers to an AppliedWork of the Work.
LEMMA TrackInit == Init => TrackInv
<1> SUFFICES ASSUME Init PROVE TrackInv
  OBVIOUS
<1>1. PICK s \in Strategies, start \in Starts :
         work = NewWork(start.spec, s) /\ object = start.object /\ job = Idle(s)
  BY DEF Init
<1>2. work.applied = "None" /\ job.work.applied = "None" /\ work.phase = "live" /\ seen = work
  BY <1>1 DEF NewWork, NoWork, Idle, Init
<1>3. job.pc = "idle" /\ job.held = NoObject /\ ~job.fresh
  BY <1>1, NothingOK
<1>4. ASSUME NEW m \in Manifest, NEW x \in 1..MaxOwner PROVE x \notin object[m].owners
  BY <1>1, <1>4, ApplierAssumption DEF AtFirst
<1>5. OwnersInv
  BY SMTT(60), <1>3, <1>4 DEF Init, OwnersInv, NoObject
<1>6. Tracked
  BY DEF Init, Tracked
<1>7. CopiesInv
  BY <1>2, <1>3 DEF CopiesInv, Listed, Covered
<1>8. StageInv
  BY <1>3 DEF StageInv
<1> QED
  BY <1>5, <1>6, <1>7, <1>8 DEF TrackInv

\* The references to AppliedWorks of this Work that a step adds are those of a
\* reconciliation to manifests the stored status lists.
Claims ==
    \A m \in Manifest, x \in 1..MaxOwner :
        object'[m].here /\ x \in object'[m].owners =>
            \/ object[m].here /\ x \in object[m].owners
            \/ job.pc \notin {"idle", "ensure"} /\ x = job.uid /\ Known(m)'

\* What was listed, or known to be missing, still is.
KnownKept == \A m \in Manifest : Known(m) => Known(m)'

\* Such a step keeps the objects tracked.
LEMMA TrackObjects ==
    ASSUME TypeInv, TrackInv, Claims, KnownKept, UNCHANGED created,
           UNCHANGED <<owner, dying>> \/ owner' = 0 \/ (UNCHANGED owner /\ dying')
    PROVE  /\ Tracked'
           /\ owner' <= created'
           /\ \A m \in Manifest, x \in 1..MaxOwner :
                 object'[m].here /\ x \in object'[m].owners => x <= created'
<1>0. owner \in 0..MaxOwner /\ created \in 0..MaxOwner /\ MaxOwner \in Nat
  BY ApplierAssumption DEF TypeInv, OwnerOK
<1>1. Tracked'
  <2> SUFFICES ASSUME NEW m \in Manifest,
                      owner' # 0 /\ ~dying' /\ object'[m].here /\ owner' \in object'[m].owners
               PROVE  Known(m)'
    BY DEF Tracked, Known
  <2>1. owner' = owner /\ owner \in 1..MaxOwner /\ ~dying
    BY SMTT(60), <1>0
  <2>2. CASE object[m].here /\ owner \in object[m].owners
    <3>1. Known(m)
      BY <2>1, <2>2 DEF TrackInv, Tracked, Known
    <3> QED
      BY <3>1 DEF KnownKept
  <2> QED
    BY <2>1, <2>2 DEF Claims
<1>2. owner' <= created'
  BY SMTT(60), <1>0 DEF TrackInv, OwnersInv
<1>3. ASSUME NEW m \in Manifest, NEW x \in 1..MaxOwner, object'[m].here, x \in object'[m].owners
      PROVE  x <= created'
  BY <1>3 DEF TrackInv, OwnersInv, Claims
<1> QED
  BY <1>1, <1>2, <1>3

\* A step that leaves the Work and its status alone, and ends the reconciliation or
\* leaves it where it is.
LEMMA TrackQuiet ==
    ASSUME TypeInv, TrackInv, Claims, UNCHANGED <<hubVars, leaked, created>>,
           UNCHANGED <<owner, dying>> \/ owner' = 0 \/ (UNCHANGED owner /\ dying'),
           \/ job'.pc = "idle" /\ ~job'.fresh /\ job'.work.applied = "None" /\ job'.held = NoObject
           \/ /\ job'.pc = job.pc /\ job'.work = job.work /\ job'.uid = job.uid /\ job'.broken = job.broken
              /\ job'.left = job.left /\ job'.todo = job.todo /\ job'.cur = job.cur
              /\ job'.held = job.held /\ job'.result = job.result /\ (job'.fresh => job.fresh)
              /\ \A m \in Manifest : object'[m].here /\ job.uid \in object'[m].owners => Owned(object[m])
    PROVE  TrackInv'
<1>0. KnownKept
  BY DEF KnownKept, Known, hubVars
<1>1. /\ Tracked'
      /\ owner' <= created'
      /\ \A m \in Manifest, x \in 1..MaxOwner :
            object'[m].here /\ x \in object'[m].owners => x <= created'
  BY <1>0, TrackObjects
<1>2. OwnersInv'
  BY SMTT(60), <1>1 DEF TrackInv, OwnersInv, NoObject
<1>3. CopiesInv'
  BY DEF TrackInv, CopiesInv, Listed, Covered, Known, hubVars
<1>4. StageInv'
  BY DEF TrackInv, StageInv, CleanInv, ProcessInv, TodoInv, Owned, Known, hubVars, ReportDiffOn, SkipWriteAhead
<1> QED
  BY <1>1, <1>2, <1>3, <1>4 DEF TrackInv

\* The environment changes the stored Work, and its status loses nothing unnoticed.
LEMMA TrackHub ==
    ASSUME TypeInv, TrackInv, UNCHANGED <<seen, ownerVars, object>>, KnownKept,
           job' = [job EXCEPT !.fresh = FALSE] \/ (~job.fresh /\ UNCHANGED job),
           Listed(work)', work'.phase = "absent" => \A m \in Manifest : work'.conds[m] = "None"
    PROVE  TrackInv'
<1>0. /\ job'.pc = job.pc /\ job'.work = job.work /\ job'.uid = job.uid /\ job'.broken = job.broken
      /\ job'.left = job.left /\ job'.todo = job.todo /\ job'.cur = job.cur
      /\ job'.held = job.held /\ job'.result = job.result /\ ~job'.fresh
  BY DEF TypeInv, JobOK, Job
<1>1. Claims
  BY DEF Claims
<1>2. /\ Tracked'
      /\ owner' <= created'
      /\ \A m \in Manifest, x \in 1..MaxOwner :
            object'[m].here /\ x \in object'[m].owners => x <= created'
  BY <1>1, TrackObjects DEF ownerVars
<1>3. OwnersInv'
  BY <1>0, <1>2 DEF TrackInv, OwnersInv, ownerVars
<1>4. CopiesInv'
  <2>1. Listed(work)' /\ Listed(seen)' /\ Listed(job.work)'
    BY <1>0 DEF TrackInv, CopiesInv, Listed
  <2>2. ASSUME NEW w, Covered(w) PROVE w.applied # "None" => \A m \in InWork(w) : Known(m)'
    BY <2>2 DEF Covered, KnownKept, InWork
  <2> QED
    BY <1>0, <2>1, <2>2 DEF TrackInv, CopiesInv, Covered
<1>5. StageInv'
  <2>1. job'.pc \in {"clean", "remove"} => ~SkipWriteAhead(job'.work) /\ CleanInv' /\ TodoInv'
    BY <1>0 DEF TrackInv, StageInv, CleanInv, TodoInv, Owned
  <2>2. ASSUME job'.pc \in {"find", "takeover", "apply"} PROVE ProcessInv'
    BY <1>0, <2>2 DEF TrackInv, StageInv, ProcessInv, TodoInv, KnownKept, InWork
  <2> QED
    BY <2>1, <2>2 DEF StageInv
<1> QED
  BY <1>2, <1>3, <1>4, <1>5 DEF TrackInv

\* The manifest in hand is finished, whether or not its object was written.
LEMMA TrackFinish ==
    ASSUME TypeInv, TrackInv, NEW m \in Manifest, NEW res \in Result, NEW d, Finish(m, res, d), Claims,
           job.pc \in {"find", "takeover", "apply"}, UNCHANGED <<hubVars, leaked, ownerVars>>
    PROVE  TrackInv'
<1>0. /\ job'.pc = "find" /\ job'.work = job.work /\ job'.uid = job.uid /\ job'.broken = job.broken
      /\ job'.todo = job.todo \ {m} /\ job'.held = NoObject
      /\ job'.result = [job.result EXCEPT ![m] = res] /\ job'.fresh = job.fresh
      /\ job.result \in [Manifest -> Result \cup {"None"}]
  BY DEF TypeInv, JobOK, Job, Finish
<1>1. KnownKept
  BY DEF KnownKept, Known, hubVars
<1>2. /\ Tracked'
      /\ owner' <= created'
      /\ \A k \in Manifest, x \in 1..MaxOwner :
            object'[k].here /\ x \in object'[k].owners => x <= created'
  BY <1>1, TrackObjects DEF ownerVars
<1>3. OwnersInv'
  BY SMTT(60), <1>0, <1>2 DEF TrackInv, OwnersInv, NoObject, ownerVars
<1>4. CopiesInv'
  BY <1>0 DEF TrackInv, CopiesInv, Listed, Covered, Known, hubVars
<1>5. ProcessInv'
  <2>1. ProcessInv
    BY DEF TrackInv, StageInv
  <2>2. res # "None"
    BY DEF Result, ApplyResult, DiffResult
  <2> QED
    BY <1>0, <1>1, <2>1, <2>2 DEF ProcessInv, TodoInv, InWork, KnownKept, ReportDiffOn
<1>6. StageInv'
  BY <1>0, <1>5 DEF StageInv
<1> QED
  BY <1>2, <1>3, <1>4, <1>6 DEF TrackInv

\* The reconciliation goes on with the Work it has read; nothing else changes.
LEMMA TrackGoesOn ==
    ASSUME TypeInv, TrackInv, UNCHANGED <<hubVars, leaked, owner, dying, created, object>>,
           job'.pc \notin {"idle", "ensure", "prepare"} /\ job.pc \notin {"idle", "ensure", "record"},
           job'.work = job.work /\ job'.uid = job.uid /\ job'.fresh = job.fresh,
           job'.held \in {job.held, NoObject} \/ \E m \in Manifest : job'.held = object[m],
           job'.pc # "record", StageInv'
    PROVE  TrackInv'
<1>1. Tracked'
  BY DEF TrackInv, Tracked, hubVars
<1>2. OwnersInv'
  BY SMTT(60) DEF TrackInv, OwnersInv, NoObject
<1>3. CopiesInv'
  BY DEF TrackInv, CopiesInv, Listed, Covered, Known, hubVars
<1> QED
  BY <1>1, <1>2, <1>3 DEF TrackInv

\* Reconcile: the copy in the cache may be old, but what it says was applied is still listed.
LEMMA TrackStart == TypeInv /\ GuardInv /\ TrackInv /\ Start => TrackInv'
<1> SUFFICES ASSUME TypeInv, GuardInv, TrackInv, Start PROVE TrackInv'
  OBVIOUS
<1>1. job'.pc = "ensure" /\ job'.work = seen /\ job'.fresh = synced /\ job'.held = NoObject
  BY SMTT(60), NothingOK DEF Start, Job, TypeInv, HubOK, WorkObj
<1>2. Tracked' /\ OwnersInv'
  BY SMTT(60), <1>1 DEF Start, TrackInv, Tracked, OwnersInv, NoObject, hubVars, ownerVars
<1>3. CopiesInv'
  BY <1>1 DEF Start, TrackInv, CopiesInv, Listed, Covered, Known, hubVars
<1>4. StageInv'
  BY <1>1 DEF StageInv
<1> QED
  BY <1>2, <1>3, <1>4 DEF TrackInv

\* ensureAppliedWork: the finalizer does not change the status.
LEMMA TrackAddFinalizer == TypeInv /\ GuardInv /\ TrackInv /\ AddFinalizer /\ ~Return => TrackInv'
<1> SUFFICES ASSUME TypeInv, GuardInv, TrackInv, AddFinalizer, ~Return PROVE TrackInv'
  OBVIOUS
<1> DEFINE w == [job.work EXCEPT !.fin = TRUE]
<1>0. job.pc = "ensure" /\ job.fresh /\ work' = w /\ seen' = seen /\ job' = [job EXCEPT !.work = w]
      /\ UNCHANGED <<ownerVars, object, leaked>>
  BY DEF AddFinalizer, StoreWork
<1>1. w.phase = job.work.phase /\ w.spec = job.work.spec /\ w.conds = job.work.conds
      /\ w.applied = job.work.applied
  BY DEF TypeInv, JobOK, Job, WorkObj
<1> HIDE DEF w
<1>2. job'.pc = "ensure" /\ job'.work = w /\ job'.fresh = job.fresh /\ job'.held = job.held
  BY <1>0 DEF TypeInv, JobOK, Job
<1>3. work = job.work
  BY <1>0 DEF GuardInv
<1>4. Tracked' /\ OwnersInv'
  BY <1>0, <1>1, <1>2, <1>3 DEF TrackInv, Tracked, OwnersInv, ownerVars
<1>5. CopiesInv'
  BY SMTT(60), <1>0, <1>1, <1>2, <1>3 DEF TrackInv, CopiesInv, Listed, Covered, Known, InWork
<1>6. StageInv'
  BY <1>2 DEF StageInv
<1> QED
  BY <1>4, <1>5, <1>6 DEF TrackInv

\* ensureAppliedWork: no object refers to a new AppliedWork yet.
LEMMA TrackEnsure == TypeInv /\ TrackInv /\ EnsureAppliedWork => TrackInv'
<1> SUFFICES ASSUME TypeInv, TrackInv, EnsureAppliedWork PROVE TrackInv'
  OBVIOUS
<1>0. owner \in 0..MaxOwner /\ created \in 0..MaxOwner /\ MaxOwner \in Nat
  BY ApplierAssumption DEF TypeInv, OwnerOK
<1> DEFINE n == created + 1
<1>1. job'.pc = "prepare" /\ job'.work = job.work /\ job'.fresh = job.fresh /\ job'.held = job.held
      /\ job'.uid = owner'
  BY DEF EnsureAppliedWork, TypeInv, JobOK, Job, ownerVars
<1>2. n \in Nat /\ created < n /\ \A x \in 1..MaxOwner : x <= created => x <= n /\ x # n
  BY SMTT(60), <1>0
<1> HIDE DEF n
<1>3. UNCHANGED ownerVars \/ (owner = 0 /\ created' = n /\ owner' = n /\ n \in 1..MaxOwner)
  BY SMTT(60), <1>0 DEF EnsureAppliedWork, n
<1>4. Tracked'
  BY SMTT(60), <1>2, <1>3 DEF EnsureAppliedWork, TrackInv, Tracked, OwnersInv, hubVars, ownerVars
<1>5. OwnersInv'
  BY SMTT(60), <1>0, <1>1, <1>2, <1>3 DEF EnsureAppliedWork, TrackInv, OwnersInv, ownerVars
<1>6. CopiesInv'
  BY <1>1 DEF EnsureAppliedWork, TrackInv, CopiesInv, Listed, Covered, Known, hubVars
<1>7. StageInv'
  BY <1>1 DEF StageInv
<1> QED
  BY <1>4, <1>5, <1>6, <1>7 DEF TrackInv

\* preProcessManifests: without a write-ahead the status lists the manifests already.
LEMMA TrackPreProcess == TypeInv /\ TrackInv /\ PreProcess /\ ~Return => TrackInv'
<1> SUFFICES ASSUME TypeInv, TrackInv, PreProcess, ~Return PROVE TrackInv'
  OBVIOUS
<1> DEFINE r(bad) == [m \in Manifest |-> IF m \in bad THEN "DecodingErred" ELSE "None"]
           l(bad) == {m \in Manifest \ (InWork(job.work) \ bad) : CountsAsApplied(job.work.conds[m])}
<1>1. PICK bad \in SUBSET InWork(job.work) :
        job' = [job EXCEPT !.pc = IF SkipWriteAhead(job.work) THEN "find" ELSE "clean",
                           !.broken = bad,
                           !.left = IF SkipWriteAhead(job.work) THEN {} ELSE l(bad),
                           !.todo = InWork(job.work) \ bad,
                           !.result = r(bad)]
  BY DEF PreProcess
<1>2. /\ job'.pc = IF SkipWriteAhead(job.work) THEN "find" ELSE "clean"
      /\ job'.broken = bad /\ job'.todo = InWork(job.work) \ bad /\ job'.result = r(bad)
      /\ ~SkipWriteAhead(job.work) => job'.left = l(bad)
      /\ job'.work = job.work /\ job'.uid = job.uid /\ job'.fresh = job.fresh /\ job'.held = job.held
  BY <1>1 DEF TypeInv, JobOK, Job
<1>3. job.pc = "prepare" /\ UNCHANGED <<hubVars, ownerVars, object, leaked>>
  BY DEF PreProcess
<1>4. StageInv'
  <2>1. CASE ~SkipWriteAhead(job.work)
    <3>1. CleanInv' /\ TodoInv'
      BY <1>2, <2>1 DEF CleanInv, TodoInv, InWork
    <3> QED
      BY <1>2, <2>1, <3>1 DEF StageInv
  <2>2. CASE SkipWriteAhead(job.work)
    <3>1. ASSUME ~ReportDiffOn(job.work)
          PROVE  /\ \A m \in InWork(job.work) : Known(m)'
                 /\ \A m \in Manifest : job.work.conds[m] # "None" => m \in InWork(job.work)
      <4>1. job.work.applied # "None"
        BY <2>2, <3>1 DEF SkipWriteAhead
      <4> QED
        BY <1>3, <4>1 DEF TrackInv, CopiesInv, Listed, Covered, Known, hubVars
    <3>2. \A m \in InWork(job.work) : m \in job'.todo \/ job'.result[m] # "None"
      BY <1>2 DEF InWork
    <3>3. ProcessInv'
      BY <1>2, <2>2, <3>1, <3>2 DEF ProcessInv, TodoInv
    <3> QED
      BY <1>2, <2>2, <3>3 DEF StageInv
  <2> QED
    BY <2>1, <2>2
<1> QED
  BY <1>2, <1>3, <1>4, TrackGoesOn DEF ownerVars

\* removeOneLeftOverManifest: an object that is not ours needs no removal.
LEMMA TrackReadLeftOver == ASSUME TypeInv, TrackInv, NEW m \in Manifest, ReadLeftOver(m) PROVE TrackInv'
<1>0. job.pc = "clean" /\ UNCHANGED <<hubVars, ownerVars, object, leaked>>
      /\ ~SkipWriteAhead(job.work) /\ CleanInv /\ TodoInv
  BY DEF ReadLeftOver, TrackInv, StageInv
<1>1. /\ job'.left = job.left \ {m} /\ job'.broken = job.broken /\ job'.work = job.work
      /\ job'.todo = job.todo /\ job'.result = job.result
      /\ job'.uid = job.uid /\ job'.fresh = job.fresh /\ job'.held \in {object[m], NoObject}
      /\ Owned(object[m]) => job'.pc = "remove" /\ job'.cur = m
      /\ ~Owned(object[m]) => job'.pc = "clean"
  BY DEF ReadLeftOver, TypeInv, JobOK, Job
<1>2. CleanInv' /\ TodoInv'
  BY <1>0, <1>1 DEF CleanInv, TodoInv, Owned
<1>3. StageInv'
  BY <1>0, <1>1, <1>2 DEF StageInv
<1> QED
  BY <1>0, <1>1, <1>3, TrackGoesOn DEF ownerVars

\* removeOneLeftOverManifest: an object that was given up is no longer ours.
LEMMA TrackRemoveLeftOver == TypeInv /\ TrackInv /\ RemoveLeftOver => TrackInv'
<1> SUFFICES ASSUME TypeInv, TrackInv, RemoveLeftOver PROVE TrackInv'
  OBVIOUS
<1>0. job.pc = "remove" /\ job.cur \in Manifest /\ UNCHANGED <<hubVars, ownerVars, leaked>>
      /\ ~SkipWriteAhead(job.work) /\ CleanInv /\ TodoInv /\ object \in [Manifest -> MemberObject]
  BY DEF RemoveLeftOver, TypeInv, JobOK, ObjectOK, TrackInv, StageInv
<1> DEFINE g == IF Cardinality(job.held.owners) > 1 THEN Disowned(object[job.cur]) ELSE NoObject
<1>1. /\ ~NoObject.here
      /\ g.here => object[job.cur].here /\ job.uid \notin g.owners /\ g.owners \subseteq object[job.cur].owners
  BY <1>0 DEF NoObject, Disowned, MemberObject
<1>2. \/ object' = object
      \/ object' = [object EXCEPT ![job.cur] = NoObject]
      \/ object' = [object EXCEPT ![job.cur] = g]
  BY DEF RemoveLeftOver
<1>3. \/ Return
      \/ /\ job' = [job EXCEPT !.pc = "clean", !.cur = Nothing, !.held = NoObject, !.same = FALSE]
         /\ ~object[job.cur].here \/ object' = [object EXCEPT ![job.cur] = NoObject]
                                  \/ object' = [object EXCEPT ![job.cur] = g]
  BY DEF RemoveLeftOver
<1> HIDE DEF g
<1>4. \A m \in Manifest : object'[m].here => object[m].here /\ object'[m].owners \subseteq object[m].owners
  BY <1>0, <1>1, <1>2
<1>5. Claims
  BY <1>4 DEF Claims
<1>6. CASE Return
  <2>1. job'.pc = "idle" /\ ~job'.fresh /\ job'.work.applied = "None" /\ job'.held = NoObject
    BY <1>6, ReturnFields
  <2> QED
    BY <1>0, <1>5, <2>1, TrackQuiet DEF ownerVars
<1>7. CASE ~Return
  <2>1. /\ job'.pc = "clean" /\ job'.work = job.work /\ job'.uid = job.uid /\ job'.broken = job.broken
        /\ job'.todo = job.todo /\ job'.result = job.result
        /\ job'.left = job.left /\ job'.held = NoObject /\ job'.fresh = job.fresh
    BY <1>3, <1>7 DEF TypeInv, JobOK, Job
  <2>2. ~(object'[job.cur].here /\ job.uid \in object'[job.cur].owners)
    BY <1>0, <1>1, <1>3, <1>4, <1>7
  <2>3. CleanInv' /\ TodoInv'
    BY SMTT(60), <1>0, <1>4, <2>1, <2>2 DEF CleanInv, TodoInv, Owned
  <2>4. StageInv'
    BY <1>0, <2>1, <2>3 DEF StageInv
  <2>5. KnownKept
    BY <1>0 DEF KnownKept, Known, hubVars
  <2>6. /\ Tracked'
        /\ owner' <= created'
        /\ \A m \in Manifest, x \in 1..MaxOwner :
              object'[m].here /\ x \in object'[m].owners => x <= created'
    BY <1>0, <1>5, <2>5, TrackObjects DEF ownerVars
  <2>7. OwnersInv'
    BY SMTT(60), <1>0, <2>1, <2>6 DEF TrackInv, OwnersInv, NoObject, ownerVars
  <2>8. CopiesInv'
    BY <1>0, <2>1 DEF TrackInv, CopiesInv, Listed, Covered, Known, hubVars
  <2> QED
    BY <2>4, <2>6, <2>7, <2>8 DEF TrackInv
<1> QED
  BY <1>6, <1>7

\* The status of the Work is stored: what it no longer lists is gone, or given up.
LEMMA TrackStore ==
    ASSUME TypeInv, GuardInv, TrackInv, NEW w \in WorkObj, NEW listed \in SUBSET Manifest, StoreWork(w),
           UNCHANGED <<ownerVars, object>>, leaked' = (leaked \cup Forgotten(w)) \ listed,
           job.pc \in {"clean", "find"}, w.spec = job.work.spec, w.phase = job.work.phase,
           \A m \in Manifest : m \in listed <=> w.conds[m] # "None",
           \A m \in Manifest \ listed :
              job.work.conds[m] # "None" => m \in Forgotten(w) \/ ~Owned(object[m]),
           Listed(w),
           seen.applied # "None" => InWork(job.work) \subseteq listed,
           job'.pc \in {"find", "record"}, job'.work = w, job'.uid = job.uid, job'.held = job.held,
           job'.pc = "find" => w.applied = job.work.applied /\ ProcessInv'
    PROVE  TrackInv'
<1>0. work = job.work /\ work' = w /\ seen' = seen /\ w.phase = "live" /\ job.fresh
  BY DEF StoreWork, GuardInv
<1>1. owner \in {0, job.uid}
  BY DEF TrackInv, OwnersInv
<1>2. Tracked'
  <2> SUFFICES ASSUME NEW m \in Manifest,
                      owner # 0 /\ ~dying /\ object[m].here /\ owner \in object[m].owners
               PROVE  w.conds[m] # "None" \/ m \in leaked'
    BY <1>0 DEF Tracked, ownerVars
  <2>1. work.conds[m] # "None" \/ m \in leaked
    BY DEF TrackInv, Tracked
  <2>2. Owned(object[m])
    BY <1>1 DEF Owned
  <2> QED
    BY <1>0, <2>1, <2>2
<1>3. OwnersInv'
  BY DEF TrackInv, OwnersInv, ownerVars
<1>4. CopiesInv'
  <2>1. seen.applied # "None" => \A m \in InWork(seen) : Known(m)'
    <3>1. seen.spec = job.work.spec
      BY <1>0 DEF TrackInv, CopiesInv
    <3> QED
      BY <1>0, <3>1 DEF InWork, Known
  <2>2. Listed(work)' /\ Listed(seen)' /\ Listed(job.work)'
    BY <1>0 DEF TrackInv, CopiesInv, Listed
  <2>3. job'.pc # "record" => seen.spec = w.spec /\ seen.applied = w.applied
    BY <1>0 DEF TrackInv, CopiesInv
  <2> QED
    BY <1>0, <2>1, <2>2, <2>3 DEF CopiesInv, Covered
<1>5. StageInv'
  BY SMTT(60) DEF StageInv
<1> QED
  BY <1>2, <1>3, <1>4, <1>5 DEF TrackInv

\* writeAheadManifestProcessingAttempts: the entries of the left-over manifests go, new ones come.
LEMMA TrackWriteAhead == TypeInv /\ GuardInv /\ TrackInv /\ WriteAhead /\ ~Return => TrackInv'
<1> SUFFICES ASSUME TypeInv, GuardInv, TrackInv, WriteAhead, ~Return PROVE TrackInv'
  OBVIOUS
<1> DEFINE kept == InWork(job.work) \ job.broken
           cs == [m \in Manifest |-> IF m \notin kept THEN "None"
                     ELSE IF job.work.conds[m] = "None" THEN "PreparingToProcess" ELSE job.work.conds[m]]
           w == [job.work EXCEPT !.conds = cs]
<1>0. /\ StoreWork(w) /\ job' = [job EXCEPT !.pc = "find", !.work = w]
      /\ leaked' = (leaked \cup Forgotten(w)) \ kept
      /\ job.pc = "clean" /\ job.left = {} /\ UNCHANGED <<ownerVars, object>>
  BY DEF WriteAhead
<1>1. job.work \in WorkObj /\ job.todo \subseteq Manifest
  BY DEF TypeInv, JobOK, Job
<1>2. cs \in [Manifest -> ManifestCondition]
  BY <1>1 DEF WorkObj, ManifestCondition
<1>3. kept \subseteq Manifest
  BY DEF InWork
<1>4. \A m \in Manifest : m \in kept <=> cs[m] # "None"
  OBVIOUS
<1> HIDE DEF cs
<1>5. /\ w \in WorkObj /\ w.spec = job.work.spec /\ w.phase = job.work.phase /\ w.conds = cs
      /\ w.applied = job.work.applied /\ w.strategy = job.work.strategy
  BY <1>1, <1>2 DEF WorkObj
<1> HIDE DEF w
<1>6. ~SkipWriteAhead(job.work) /\ CleanInv
  BY <1>0 DEF TrackInv, StageInv
<1>7. job.work.applied = "None" /\ ~ReportDiffOn(job.work)
  BY <1>6 DEF SkipWriteAhead
<1>8. seen.applied = "None" /\ Listed(w)
  BY <1>0, <1>5, <1>7 DEF TrackInv, CopiesInv, StoreWork, Listed
<1>9. /\ job'.pc = "find" /\ job'.work = w /\ job'.uid = job.uid /\ job'.held = job.held
      /\ job'.broken = job.broken /\ job'.todo = job.todo /\ job'.result = job.result
  BY <1>0 DEF TypeInv, JobOK, Job
<1>10. ASSUME NEW m \in Manifest \ kept, job.work.conds[m] # "None" PROVE m \in Forgotten(w) \/ ~Owned(object[m])
  <2>1. CASE CountsAsApplied(job.work.conds[m])
    BY <1>0, <1>6, <1>10, <2>1 DEF CleanInv
  <2>2. CASE ~CountsAsApplied(job.work.conds[m])
    BY <1>4, <1>5, <1>10, <2>2 DEF Forgotten
  <2> QED
    BY <2>1, <2>2
<1>11. ProcessInv'
  <2>1. \A m \in kept : Known(m)'
    BY <1>0, <1>3, <1>4, <1>5 DEF Known, StoreWork
  <2>2. \A m \in Manifest : w.conds[m] # "None" => m \in InWork(w)
    BY <1>4, <1>5 DEF InWork
  <2>3. InWork(w) = InWork(job.work)
    BY <1>5 DEF InWork
  <2>4. job.todo \subseteq kept /\ \A m \in InWork(job.work) : m \in job.todo \/ job.result[m] # "None"
    BY <1>0 DEF TrackInv, StageInv, TodoInv
  <2> QED
    BY <1>9, <2>1, <2>2, <2>3, <2>4 DEF ProcessInv, TodoInv
<1> HIDE DEF kept
<1> QED
  BY <1>0, <1>3, <1>4, <1>5, <1>8, <1>9, <1>10, <1>11, TrackStore

\* findInMemberClusterObjectFor
LEMMA TrackFindObject ==
    ASSUME TypeInv, TrackInv, NEW m \in Manifest, FindObject(m)
    PROVE  TrackInv'
<1>0. job.pc = "find" /\ m \in job.todo /\ UNCHANGED <<hubVars, ownerVars, object, leaked>> /\ ProcessInv
  BY DEF FindObject, CanProcess, TrackInv, StageInv
<1>1. CASE Finish(m, "FailedToFindObjInMemberCluster", FALSE)
  <2>1. Claims
    BY <1>0 DEF Claims
  <2> QED
    BY <1>0, <1>1, <2>1, TrackFinish DEF Result, ApplyResult
<1>2. CASE job' = [job EXCEPT !.pc = "takeover", !.cur = m, !.held = object[m], !.same = TRUE]
  <2>1. /\ job'.pc = "takeover" /\ job'.cur = m /\ job'.held = object[m] /\ job'.work = job.work
        /\ job'.uid = job.uid /\ job'.fresh = job.fresh /\ job'.broken = job.broken
        /\ job'.todo = job.todo /\ job'.result = job.result
    BY <1>2 DEF TypeInv, JobOK, Job
  <2>2. ProcessInv'
    BY <1>0, <2>1 DEF ProcessInv, TodoInv, Known, hubVars
  <2>3. StageInv'
    BY <2>1, <2>2 DEF StageInv
  <2> QED
    BY <1>0, <2>1, <2>3, TrackGoesOn DEF ownerVars
<1> QED
  BY <1>1, <1>2 DEF FindObject

\* takeOverInMemberClusterObjectIfApplicable: the object taken over is listed, or ReportDiff mode is on.
LEMMA TrackTakeOver == TypeInv /\ TrackInv /\ TakeOver => TrackInv'
<1> SUFFICES ASSUME TypeInv, TrackInv, TakeOver PROVE TrackInv'
  OBVIOUS
<1>0. /\ job.pc = "takeover" /\ job.cur \in Manifest /\ job.held \in MemberObject
      /\ object \in [Manifest -> MemberObject] /\ job.uid \in 1..MaxOwner
      /\ UNCHANGED <<hubVars, ownerVars>> /\ ProcessInv
  BY DEF TakeOver, TypeInv, ObjectOK, JobOK, Job, TrackInv, StageInv
<1>1. \/ \E res \in {"OwnedByOtherKubeFleetAPIObjects", "FailedToTakeOver"}, d \in BOOLEAN :
             Finish(job.cur, res, d) /\ UNCHANGED <<object, leaked>>
      \/ job' = [job EXCEPT !.pc = "apply"] /\ UNCHANGED <<object, leaked>>
      \/ /\ ShouldTakeOver /\ job.same
         /\ object' = [object EXCEPT ![job.cur] = TakenOver]
         /\ job' = [job EXCEPT !.pc = "apply", !.held = TakenOver]
         /\ leaked' = IF ReportDiffOn(job.work) THEN leaked \cup {job.cur} ELSE leaked
  BY DEF TakeOver
<1>2. CASE \E res \in {"OwnedByOtherKubeFleetAPIObjects", "FailedToTakeOver"}, d \in BOOLEAN :
             Finish(job.cur, res, d) /\ UNCHANGED <<object, leaked>>
  <2>1. Claims
    BY <1>2 DEF Claims
  <2> QED
    BY <1>0, <1>2, <2>1, TrackFinish DEF Result, ApplyResult
<1>3. CASE job' = [job EXCEPT !.pc = "apply"] /\ UNCHANGED <<object, leaked>>
  <2>1. /\ job'.pc = "apply" /\ job'.cur = job.cur /\ job'.held = job.held /\ job'.work = job.work
        /\ job'.uid = job.uid /\ job'.fresh = job.fresh /\ job'.broken = job.broken
        /\ job'.todo = job.todo /\ job'.result = job.result
    BY <1>3 DEF TypeInv, JobOK, Job
  <2>2. ProcessInv'
    BY <1>0, <1>3, <2>1 DEF ProcessInv, TodoInv, Known, hubVars
  <2>3. StageInv'
    BY <2>1, <2>2 DEF StageInv
  <2> QED
    BY <1>0, <1>3, <2>1, <2>3, TrackGoesOn DEF ownerVars
<1>4. CASE /\ ShouldTakeOver /\ job.same
           /\ object' = [object EXCEPT ![job.cur] = TakenOver]
           /\ job' = [job EXCEPT !.pc = "apply", !.held = TakenOver]
           /\ leaked' = IF ReportDiffOn(job.work) THEN leaked \cup {job.cur} ELSE leaked
  <2>1. /\ job'.pc = "apply" /\ job'.cur = job.cur /\ job'.held = TakenOver /\ job'.work = job.work
        /\ job'.uid = job.uid /\ job'.fresh = job.fresh /\ job'.broken = job.broken
        /\ job'.todo = job.todo /\ job'.result = job.result
    BY <1>4 DEF TypeInv, JobOK, Job
  <2>2. TakenOver.owners \subseteq job.held.owners \cup {job.uid} /\ job.held.here
    BY <1>0, <1>4 DEF TakenOver, RemainingOwners, ShouldTakeOver, MemberObject
  <2>3. KnownKept /\ leaked \subseteq leaked'
    BY <1>0, <1>4 DEF KnownKept, Known, hubVars
  <2>4. ASSUME NEW m \in Manifest, m = job.cur PROVE Known(m)'
    <3>1. CASE ReportDiffOn(job.work)
      BY <1>4, <2>4, <3>1 DEF Known
    <3>2. CASE ~ReportDiffOn(job.work)
      BY <1>0, <2>3, <2>4, <3>2 DEF ProcessInv, TodoInv, KnownKept
    <3> QED
      BY <3>1, <3>2
  <2>5. ASSUME NEW x \in 1..MaxOwner, x \in TakenOver.owners PROVE x <= created
    BY <1>0, <2>2, <2>5 DEF TrackInv, OwnersInv
  <2>6. Tracked'
    <3> SUFFICES ASSUME NEW m \in Manifest,
                        owner # 0 /\ ~dying /\ object'[m].here /\ owner \in object'[m].owners
                 PROVE  Known(m)'
      BY <1>0 DEF Tracked, Known, ownerVars
    <3>1. CASE m = job.cur
      BY <2>4, <3>1
    <3>2. CASE m # job.cur
      <4>1. object'[m] = object[m]
        BY SMTT(60), <1>4, <3>2
      <4>2. Known(m)
        BY <4>1 DEF TrackInv, Tracked, Known
      <4> QED
        BY <2>3, <4>2 DEF KnownKept
    <3> QED
      BY <3>1, <3>2
  <2>7. OwnersInv'
    <3>1. \A m \in Manifest, x \in 1..MaxOwner : object'[m].here /\ x \in object'[m].owners => x <= created
      BY <1>0, <1>4, <2>5 DEF TrackInv, OwnersInv
    <3> QED
      BY <1>0, <2>1, <2>5, <3>1 DEF TrackInv, OwnersInv, ownerVars
  <2>8. CopiesInv'
    BY <1>0, <2>1, <2>3 DEF TrackInv, CopiesInv, Listed, Covered, Known, hubVars
  <2>9. ProcessInv'
    BY <1>0, <2>1, <2>3 DEF ProcessInv, TodoInv, InWork, KnownKept
  <2>10. StageInv'
    BY <2>1, <2>9 DEF StageInv
  <2> QED
    BY <2>6, <2>7, <2>8, <2>10 DEF TrackInv
<1> QED
  BY <1>1, <1>2, <1>3, <1>4

\* apply: the object created or patched is listed, whether or not the answer gets lost.
LEMMA TrackApply == TypeInv /\ TrackInv /\ Apply => TrackInv'
<1> SUFFICES ASSUME TypeInv, TrackInv, Apply PROVE TrackInv'
  OBVIOUS
<1>0. /\ job.pc = "apply" /\ job.cur \in Manifest /\ object \in [Manifest -> MemberObject]
      /\ UNCHANGED <<hubVars, ownerVars, leaked>> /\ ProcessInv /\ ~ReportDiffOn(job.work)
  BY DEF Apply, TypeInv, ObjectOK, JobOK, TrackInv, StageInv
<1>1. \E res \in {"FailedToApply", "Applied"} : \E d : Finish(job.cur, res, d)
  BY DEF Apply
<1>2. object' = object \/ object' = [object EXCEPT ![job.cur] = Outcome(job.cur)]
  BY DEF Apply
<1>3. \A m \in Manifest : m = job.cur => Known(m)'
  BY <1>0 DEF ProcessInv, TodoInv, Known, hubVars
<1>4. ASSUME NEW x \in Outcome(job.cur).owners
      PROVE  x = job.uid \/ (object[job.cur].here /\ x \in object[job.cur].owners)
  <2>1. CASE object[job.cur].here
    <3>1. Patched(job.cur).owners \subseteq object[job.cur].owners \cup {job.uid}
      BY <1>0 DEF Patched, MemberObject
    <3> QED
      BY <1>4, <2>1, <3>1 DEF Outcome
  <2>2. CASE ~object[job.cur].here
    BY <1>4, <2>2 DEF Outcome, Created
  <2> QED
    BY <2>1, <2>2
<1>5. Claims
  BY <1>0, <1>2, <1>3, <1>4 DEF Claims
<1> QED
  BY <1>0, <1>1, <1>5, TrackFinish DEF Result, ApplyResult

\* Nothing is written when diffs are reported or the apply is refused.
LEMMA TrackRefuse == TypeInv /\ TrackInv /\ (ReportDiffOnly \/ RefuseToApply) => TrackInv'
<1> SUFFICES ASSUME TypeInv, TrackInv, ReportDiffOnly \/ RefuseToApply PROVE TrackInv'
  OBVIOUS
<1>0. job.pc = "apply" /\ job.cur \in Manifest /\ UNCHANGED <<hubVars, ownerVars, object, leaked>>
  BY DEF ReportDiffOnly, RefuseToApply, TypeInv, JobOK
<1>1. \E res \in Result : \E d : Finish(job.cur, res, d)
  BY DEF ReportDiffOnly, RefuseToApply, Result, ApplyResult, DiffResult
<1>2. Claims
  BY <1>0 DEF Claims
<1> QED
  BY <1>0, <1>1, <1>2, TrackFinish

\* refreshWorkStatus: the rebuilt status lists every manifest of the Work.
LEMMA TrackRefresh == TypeInv /\ GuardInv /\ TrackInv /\ RefreshWorkStatus /\ ~Return => TrackInv'
<1> SUFFICES ASSUME TypeInv, GuardInv, TrackInv, RefreshWorkStatus, ~Return PROVE TrackInv'
  OBVIOUS
<1>0. job.pc = "find" /\ job.todo = {} /\ UNCHANGED <<ownerVars, object>> /\ ProcessInv
  BY DEF RefreshWorkStatus, TrackInv, StageInv
<1>1. PICK w \in RefreshedWorks :
        /\ job' = [job EXCEPT !.pc = "record", !.work = w]
        /\ \/ w = job.work /\ UNCHANGED <<hubVars, leaked>>
           \/ StoreWork(w) /\ leaked' = (leaked \cup Forgotten(w)) \ InWork(w)
  BY DEF RefreshWorkStatus, SkipStatusUpdate
<1>2. /\ job'.pc = "record" /\ job'.work = w /\ job'.uid = job.uid /\ job'.held = job.held
  BY <1>1 DEF TypeInv, JobOK, Job
<1>3. CASE w = job.work /\ UNCHANGED <<hubVars, leaked>>
  <2>1. Tracked' /\ OwnersInv'
    BY <1>0, <1>2, <1>3 DEF TrackInv, Tracked, OwnersInv, hubVars, ownerVars
  <2>2. CopiesInv'
    BY <1>2, <1>3 DEF TrackInv, CopiesInv, Listed, Covered, Known, hubVars
  <2>3. StageInv'
    BY <1>2 DEF StageInv
  <2> QED
    BY <2>1, <2>2, <2>3 DEF TrackInv
<1>4. CASE StoreWork(w) /\ leaked' = (leaked \cup Forgotten(w)) \ InWork(w)
  <2>0. w \in WorkObj /\ w.strategy = job.work.strategy
    BY RefreshedOK
  <2>1. w.spec = job.work.spec /\ w.phase = job.work.phase /\ w.conds = RebuiltConds
    BY DEF RefreshedWorks, TypeInv, JobOK, Job, WorkObj
  <2>2. InWork(w) = InWork(job.work) /\ InWork(w) \subseteq Manifest
    BY <2>1 DEF InWork
  <2>3. \A m \in Manifest : m \in InWork(w) <=> w.conds[m] # "None"
    BY <1>0, <2>1, <2>2 DEF RebuiltConds, ProcessInv, TodoInv
  <2>4. ASSUME NEW m \in Manifest \ InWork(w), job.work.conds[m] # "None" PROVE m \in Forgotten(w)
    <3>1. CASE ReportDiffOn(job.work)
      BY <2>0, <2>3, <2>4, <3>1 DEF Forgotten, ReportDiffOn
    <3>2. CASE ~ReportDiffOn(job.work)
      BY <1>0, <2>2, <2>4, <3>2 DEF ProcessInv
    <3> QED
      BY <3>1, <3>2
  <2>5. Listed(w)
    BY <2>3 DEF Listed
  <2> QED
    BY <1>0, <1>2, <1>4, <2>0, <2>1, <2>2, <2>3, <2>4, <2>5, TrackStore
<1> QED
  BY <1>1, <1>3, <1>4

\* Every step keeps the objects tracked.
LEMMA TrackStep == TypeInv /\ GuardInv /\ TrackInv /\ [Next]_vars => TrackInv'
<1> SUFFICES ASSUME TypeInv, GuardInv, TrackInv, [Next]_vars PROVE TrackInv'
  OBVIOUS
<1>0. job \in Job /\ work \in WorkObj /\ object \in [Manifest -> MemberObject]
      /\ owner \in 0..MaxOwner
  BY DEF TypeInv, HubOK, OwnerOK, JobOK, ObjectOK
<1>a. ASSUME Return, UNCHANGED <<hubVars, leaked, owner, dying, created, object>> PROVE TrackInv'
  <2>1. Claims
    BY <1>a DEF Claims
  <2> QED
    BY <1>a, <2>1, ReturnFields, TrackQuiet
<1>1. CASE Start \/ EnsureAppliedWork \/ RemoveLeftOver \/ TakeOver \/ ReportDiffOnly \/ RefuseToApply \/ Apply
  BY <1>1, TrackStart, TrackEnsure, TrackRemoveLeftOver, TrackTakeOver, TrackRefuse, TrackApply
<1>2. ASSUME NEW m \in Manifest, ReadLeftOver(m) \/ FindObject(m) PROVE TrackInv'
  BY <1>2, TrackReadLeftOver, TrackFindObject
<1>3. CASE AddFinalizer
  <2>1. CASE job'.pc = "idle"
    <3>1. Return /\ UNCHANGED <<hubVars, leaked, owner, dying, created, object>>
      BY <1>0, <1>3, <2>1 DEF AddFinalizer, StoreWork, Job, ownerVars
    <3> QED
      BY <1>a, <3>1
  <2>2. CASE job'.pc # "idle"
    BY <1>3, <2>2, ReturnFields, TrackAddFinalizer
  <2> QED
    BY <2>1, <2>2
<1>4. CASE PreProcess
  BY <1>4, <1>a, TrackPreProcess DEF PreProcess, ownerVars
<1>5. CASE WriteAhead
  <2>1. CASE job'.pc = "idle"
    <3>1. Return /\ UNCHANGED <<hubVars, leaked, owner, dying, created, object>>
      BY <1>0, <1>5, <2>1 DEF WriteAhead, StoreWork, Job, ownerVars
    <3> QED
      BY <1>a, <3>1
  <2>2. CASE job'.pc # "idle"
    BY <1>5, <2>2, ReturnFields, TrackWriteAhead
  <2> QED
    BY <2>1, <2>2
<1>6. CASE RefreshWorkStatus
  <2>1. CASE job'.pc = "idle"
    <3>1. Return /\ UNCHANGED <<hubVars, leaked, owner, dying, created, object>>
      BY <1>0, <1>6, <2>1 DEF RefreshWorkStatus, StoreWork, Job, ownerVars
    <3> QED
      BY <1>a, <3>1
  <2>2. CASE job'.pc # "idle"
    BY <1>6, <2>2, ReturnFields, TrackRefresh
  <2> QED
    BY <2>1, <2>2
<1>7. CASE RefreshAppliedWorkStatus \/ GiveUp
  BY <1>7, <1>a DEF RefreshAppliedWorkStatus, GiveUp, ownerVars
<1>8. ASSUME UNCHANGED <<hubVars, leaked, created, job>>, UNCHANGED <<owner, dying>> \/ owner' = 0
               \/ (UNCHANGED owner /\ dying'),
             \A m \in Manifest : object'[m].here => object[m].here /\ object'[m].owners \subseteq object[m].owners
      PROVE  TrackInv'
  <2>1. Claims
    BY <1>8 DEF Claims
  <2>2. \A m \in Manifest : object'[m].here /\ job.uid \in object'[m].owners => Owned(object[m])
    BY <1>8 DEF Owned
  <2> QED
    BY <1>8, <2>1, <2>2, TrackQuiet
<1>9. CASE DeleteAppliedWork \/ CollectOwner \/ Leave \/ Left \/ Join \/ UNCHANGED vars
  BY <1>8, <1>9 DEF DeleteAppliedWork, CollectOwner, Leave, Left, Join, vars, hubVars, ownerVars
<1>10. CASE UpdateOwnerReference
  <2>1. ASSUME NEW m \in Manifest, object'[m].here
        PROVE  object[m].here /\ object'[m].owners \subseteq object[m].owners
    <3>1. object'[m] = object[m] \/ object'[m] = [object[m] EXCEPT !.block = FALSE]
      BY <1>10 DEF UpdateOwnerReference
    <3> QED
      BY <1>0, <2>1, <3>1 DEF MemberObject
  <2> QED
    BY <1>8, <1>10, <2>1 DEF UpdateOwnerReference, ownerVars
<1>11. ASSUME NEW m \in Manifest, NEW o, Write(m, o),
              o.here => o.owners \cap 1..MaxOwner = {} \/
                        (object[m].here /\ o.owners \cap 1..MaxOwner \subseteq object[m].owners)
       PROVE  TrackInv'
  <2>1. /\ job'.pc = job.pc /\ job'.work = job.work /\ job'.uid = job.uid /\ job'.broken = job.broken
        /\ job'.left = job.left /\ job'.todo = job.todo /\ job'.cur = job.cur
        /\ job'.held = job.held /\ job'.result = job.result /\ job'.fresh = job.fresh
    BY <1>0, <1>11 DEF Write, Job
  <2>2. \A k \in Manifest, x \in 1..MaxOwner :
           object'[k].here /\ x \in object'[k].owners => object[k].here /\ x \in object[k].owners
    BY <1>0, <1>11 DEF Write
  <2>3. Claims
    BY <2>2 DEF Claims
  <2>4. job.pc \in {"clean", "remove"} => job.uid \in 1..MaxOwner
    BY DEF TypeInv, JobOK
  <2>5. Tracked' /\ OwnersInv'
    <3>1. KnownKept
      BY <1>11 DEF Write, KnownKept, Known, hubVars
    <3>2. /\ Tracked'
          /\ owner' <= created'
          /\ \A k \in Manifest, x \in 1..MaxOwner :
                object'[k].here /\ x \in object'[k].owners => x <= created'
      BY <1>11, <2>3, <3>1, TrackObjects DEF Write, ownerVars
    <3> QED
      BY <1>11, <2>1, <3>2 DEF Write, TrackInv, OwnersInv, ownerVars
  <2>6. CopiesInv'
    BY <1>11, <2>1 DEF Write, TrackInv, CopiesInv, Listed, Covered, Known, hubVars
  <2>7. StageInv'
    <3>1. ASSUME job'.pc \in {"clean", "remove"} PROVE ~SkipWriteAhead(job'.work) /\ CleanInv' /\ TodoInv'
      BY <2>1, <2>2, <2>4, <3>1 DEF TrackInv, StageInv, CleanInv, TodoInv, Owned
    <3>2. ASSUME job'.pc \in {"find", "takeover", "apply"} PROVE ProcessInv'
      BY <1>11, <2>1, <3>2 DEF Write, TrackInv, StageInv, ProcessInv, TodoInv, Known, hubVars
    <3> QED
      BY <3>1, <3>2 DEF StageInv
  <2> QED
    BY <2>5, <2>6, <2>7 DEF TrackInv
<1>12. ASSUME NEW m \in Manifest, CollectObject(m) PROVE TrackInv'
  <2> DEFINE s == Solid(object[m])
             o == [object[m] EXCEPT !.owners = s]
  <2>1. s \subseteq object[m].owners /\ object[m].here
    BY <1>12 DEF Solid, CollectObject
  <2>2. CASE s = {}
    BY <1>11, <1>12, <2>2 DEF CollectObject, NoObject
  <2>3. CASE s # {}
    <3> HIDE DEF s
    <3>1. o.owners = s
      BY <1>0 DEF MemberObject
    <3>2. Write(m, o)
      BY <1>12, <2>3 DEF CollectObject, s
    <3> HIDE DEF o
    <3> QED
      BY <1>11, <2>1, <3>1, <3>2
  <2> QED
    BY <2>2, <2>3
<1>13. ASSUME NEW m \in Manifest, Meddle(m) PROVE TrackInv'
  <2>1. PICK o : Write(m, o) /\ (\/ o = NoObject
                                 \/ o = [NoObject EXCEPT !.here = TRUE]
                                 \/ object[m].here /\ o = [object[m] EXCEPT !.content = 0]
                                 \/ object[m].here /\ o = [object[m] EXCEPT !.extra = TRUE]
                                 \/ object[m].here /\ o = [object[m] EXCEPT !.owners = @ \cup {User}])
    BY <1>13 DEF Meddle
  <2>2. User \notin 1..MaxOwner
    BY SMTT(60), ApplierAssumption
  <2>3. o.here => o.owners \cap 1..MaxOwner = {} \/
                   (object[m].here /\ o.owners \cap 1..MaxOwner \subseteq object[m].owners)
    BY SMTT(60), <1>0, <2>1, <2>2 DEF MemberObject, NoObject
  <2> QED
    BY <1>11, <2>1, <2>3
<1>14. CASE ForgetWork
  <2>1. job.pc = "idle" /\ owner = 0 /\ seen.phase = "deleting" /\ work.phase = "deleting" /\ ~job.fresh
    BY <1>14 DEF ForgetWork, CanCollect, OwnerGone, GuardInv
  <2>2. work' = NoWork(work.strategy) /\ UNCHANGED <<seen, ownerVars, object, job, leaked>>
    BY <1>14, <2>1 DEF ForgetWork, Released
  <2>3. work'.applied = "None" /\ \A m \in Manifest : work'.conds[m] = "None"
    BY <2>2 DEF NoWork
  <2>4. Tracked' /\ OwnersInv'
    BY <2>1, <2>2 DEF TrackInv, Tracked, OwnersInv, ownerVars
  <2>5. CopiesInv'
    BY <2>1, <2>2, <2>3 DEF TrackInv, CopiesInv, Listed, Covered
  <2>6. StageInv'
    BY <2>1, <2>2 DEF StageInv
  <2> QED
    BY <2>4, <2>5, <2>6 DEF TrackInv
<1>15. CASE LeaveRemovesFinalizer
  <2>1. KnownKept /\ Listed(work)' /\ (work'.phase = "absent" => \A m \in Manifest : work'.conds[m] = "None")
    <3>1. CASE work.phase = "deleting"
      <4>1. work' = NoWork(work.strategy) /\ leaked' = leaked \cup {m \in Manifest : work.conds[m] # "None"}
        BY <1>15, <3>1 DEF LeaveRemovesFinalizer, Released
      <4>2. work'.applied = "None" /\ \A m \in Manifest : work'.conds[m] = "None"
        BY <4>1 DEF NoWork
      <4> QED
        BY <4>1, <4>2 DEF KnownKept, Known, Listed
    <3>2. CASE work.phase # "deleting"
      <4>1. work'.conds = work.conds /\ work'.spec = work.spec /\ work'.applied = work.applied
            /\ work'.phase = work.phase /\ leaked' = leaked
        BY <1>0, <1>15, <3>2 DEF LeaveRemovesFinalizer, Released, WorkObj
      <4> QED
        BY <4>1 DEF KnownKept, Known, Listed, InWork, TrackInv, CopiesInv
    <3> QED
      BY <3>1, <3>2
  <2> QED
    BY <1>15, <2>1, TrackHub DEF LeaveRemovesFinalizer
<1>16. ASSUME NEW w \in WorkObj, w.phase = work.phase, w.conds = work.conds, Generation(w) PROVE TrackInv'
  <2>1. work'.conds = work.conds /\ work'.applied = "None" /\ work'.phase = work.phase /\ leaked' = leaked
    BY <1>16 DEF Generation, WorkObj
  <2>2. KnownKept /\ Listed(work)' /\ (work'.phase = "absent" => \A m \in Manifest : work'.conds[m] = "None")
    BY <2>1 DEF KnownKept, Known, Listed, TrackInv, CopiesInv
  <2> QED
    BY <1>16, <2>2, TrackHub DEF Generation
<1>17. ASSUME NEW m \in Manifest, NEW v \in 0..MaxVersion, EditManifest(m, v) PROVE TrackInv'
  <2> DEFINE w == [work EXCEPT !.spec[m] = v]
  <2>1. w \in WorkObj /\ w.phase = work.phase /\ w.conds = work.conds
    BY <1>0 DEF WorkObj
  <2> HIDE DEF w
  <2> QED
    BY <1>16, <1>17, <2>1 DEF EditManifest, w
<1>18. ASSUME NEW s \in Strategies, EditStrategy(s) PROVE TrackInv'
  <2> DEFINE w == [work EXCEPT !.strategy = s]
  <2>1. w \in WorkObj /\ w.phase = work.phase /\ w.conds = work.conds
    BY <1>0 DEF WorkObj
  <2> HIDE DEF w
  <2> QED
    BY <1>16, <1>18, <2>1 DEF EditStrategy, w
<1>19. CASE DeleteWork
  <2>1. KnownKept /\ Listed(work)' /\ (work'.phase = "absent" => \A m \in Manifest : work'.conds[m] = "None")
    <3>1. CASE ~work.fin
      <4>1. work' = NoWork(work.strategy) /\ leaked' = leaked \cup {m \in Manifest : work.conds[m] # "None"}
        BY <1>19, <3>1 DEF DeleteWork
      <4>2. work'.applied = "None" /\ \A m \in Manifest : work'.conds[m] = "None"
        BY <4>1 DEF NoWork
      <4> QED
        BY <4>1, <4>2 DEF KnownKept, Known, Listed
    <3>2. CASE work.fin
      <4>1. work'.conds = work.conds /\ work'.spec = work.spec /\ work'.applied = work.applied
            /\ work'.phase = "deleting" /\ leaked' = leaked
        BY <1>0, <1>19, <3>2 DEF DeleteWork, WorkObj
      <4> QED
        BY <4>1 DEF KnownKept, Known, Listed, InWork, TrackInv, CopiesInv
    <3> QED
      BY <3>1, <3>2
  <2> QED
    BY <1>19, <2>1, TrackHub DEF DeleteWork
<1>20. ASSUME NEW spec \in [Manifest -> 0..1], RecreateWork(spec) PROVE TrackInv'
  <2>1. work.phase = "absent" /\ work' = NewWork(spec, work.strategy)
        /\ UNCHANGED <<seen, ownerVars, object, job, leaked>>
    BY <1>20 DEF RecreateWork
  <2>2. work'.applied = "None" /\ work'.phase = "live" /\ \A m \in Manifest : work'.conds[m] = "None"
    BY <2>1 DEF NewWork, NoWork
  <2>3. \A m \in Manifest : work.conds[m] = "None"
    BY <2>1 DEF TrackInv, CopiesInv
  <2>4. KnownKept /\ Listed(work)'
    BY <2>1, <2>2, <2>3 DEF KnownKept, Known, Listed
  <2>5. ~job.fresh
    BY <2>1 DEF GuardInv
  <2> QED
    BY <2>1, <2>2, <2>4, <2>5, TrackHub
<1>21. ASSUME seen' = work, UNCHANGED <<work, ownerVars, object, leaked>>, UNCHANGED job \/ Return PROVE TrackInv'
  <2>0. \/ job' = job
        \/ job'.pc = "idle" /\ ~job'.fresh /\ job'.work.applied = "None" /\ job'.held = NoObject
    BY <1>21, ReturnFields
  <2>1. Tracked'
    BY <1>21 DEF TrackInv, Tracked, ownerVars
  <2>2. OwnersInv'
    BY SMTT(60), <1>21, <2>0 DEF TrackInv, OwnersInv, NoObject, ownerVars
  <2>3. Covered(work)
    BY DEF TrackInv, CopiesInv, Listed, Covered, Known, InWork
  <2>4. job.fresh => job.work = work
    BY DEF GuardInv
  <2>5. CopiesInv'
    BY <1>21, <2>0, <2>3, <2>4 DEF TrackInv, CopiesInv, Listed, Covered, Known
  <2>6. StageInv'
    BY <1>21, <2>0 DEF TrackInv, StageInv, CleanInv, TodoInv, ProcessInv, Known, Owned
  <2> QED
    BY <2>1, <2>2, <2>5, <2>6 DEF TrackInv
<1>22. CASE Deliver \/ Restart
  BY <1>21, <1>22 DEF Deliver, Restart
<1> QED
  BY <1>1, <1>2, <1>3, <1>4, <1>5, <1>6, <1>7, <1>9, <1>10, <1>12, <1>13, <1>14, <1>15,
     <1>17, <1>18, <1>19, <1>20, <1>22
  DEF Next, Applier, Membership, Hub, GarbageCollector

\* writeAheadManifestProcessingAttempts does its job: whatever crashes, conflicts and
\* edits happen in between, an object that carries the reference to the current
\* AppliedWork is listed in the status of the Work, but for the entries that
\* findLeftOverManifests and ReportDiff mode give up.
THEOREM AppliedIsTracked == Spec => []Tracked
<1>1. Init => TypeInv /\ GuardInv /\ TrackInv
  BY TypeInit, GuardInit, TrackInit
<1>2. TypeInv /\ GuardInv /\ TrackInv /\ [Next]_vars => (TypeInv /\ GuardInv /\ TrackInv)'
  BY TypeStep, GuardStep, TrackStep
<1>3. TrackInv => Tracked
  BY DEF TrackInv
<1> QED
  BY <1>1, <1>2, <1>3, PTL DEF Spec

\* Types: every state of the applier and of what surrounds it has the declared shape.
THEOREM ApplierTypes == Spec => []TypeOK
<1>1. TypeInv /\ [Next]_vars => TypeInv'
  BY TypeStep
<1> QED
  BY <1>1, TypeInit, TypeInvOK, PTL DEF Spec

=============================================================================
