-------------------------- MODULE GeneratorV1Proofs --------------------------
(* Proofs about the work generator of the v1 stack.                          *)
EXTENDS GeneratorV1, TLAPS

\* Two copies of a binding that differ in nothing but the record of the processed
\* revision and the conditions.
SameSpec(b, c) ==
    /\ c \in Binding
    /\ c.gen = b.gen
    /\ c.suspended = b.suspended
    /\ c.deleting = b.deleting

\* The status writes keep everything the invariant is about.
LEMMA StatusWrites ==
    ASSUME NEW b \in Binding, NEW W
    PROVE  /\ SameSpec(b, Refreshed(b, W)) /\ Refreshed(b, W).fin = b.fin
           /\ SameSpec(b, MarkedInvalid(b)) /\ MarkedInvalid(b).fin = b.fin
           /\ SameSpec(b, Progressed(b)) /\ Progressed(b).fin = b.fin
<1>1. \A x : AsStatus(x) \in Statuses
  BY DEF AsStatus, Statuses
<1>2. SameSpec(b, Refreshed(b, W)) /\ Refreshed(b, W).fin = b.fin
  <2>1. ASSUME NEW s \in Statuses, NEW a \in Statuses
        PROVE  /\ SameSpec(b, [b EXCEPT !.sync = s, !.avail = a])
               /\ [b EXCEPT !.sync = s, !.avail = a].fin = b.fin
    BY ZenonT(30) DEF SameSpec, Binding
  <2> DEFINE reported(R) == \A i \in Present(W) : SettledReport(W[i]) /\ W[i].report \in R
             s == AsStatus(reported({"Unavailable", "Available"}))
             a == AsStatus(reported({"Available"}))
  <2>2. Refreshed(b, W) = [b EXCEPT !.sync = s, !.avail = a]
    BY DEF Refreshed
  <2>3. s \in Statuses /\ a \in Statuses
    BY ZenonT(30), <1>1
  <2> HIDE DEF s, a
  <2>4. /\ SameSpec(b, [b EXCEPT !.sync = s, !.avail = a])
        /\ [b EXCEPT !.sync = s, !.avail = a].fin = b.fin
    BY ZenonT(30), <2>1, <2>3
  <2> QED BY <2>2, <2>4
<1>3. SameSpec(b, MarkedInvalid(b)) /\ MarkedInvalid(b).fin = b.fin
  BY ZenonT(30) DEF SameSpec, MarkedInvalid, Binding, Statuses
<1>4. SameSpec(b, Progressed(b)) /\ Progressed(b).fin = b.fin
  BY ZenonT(30) DEF SameSpec, Progressed, Binding, Statuses
<1> QED BY <1>2, <1>3, <1>4

----------------------------------------------------------------------------
(* Types.                                                                    *)

Busy == {"check", "patch", "prune", "write", "report"}

\* The reconciliation in each of its states.
LEMMA PassTypes ==
    ASSUME TypeOK
    PROVE  /\ pass.pc \in {"idle", "reset", "release"} \cup Busy
           /\ pass.pc # "idle" => pass.b \in Binding
           /\ pass.pc \in {"check", "reset", "release"} =>
                 pass \in [pc : {"check", "reset", "release"}, b : Binding]
           /\ pass.pc = "patch" =>
                 pass \in [pc : {"patch"}, b : Binding, read : Works, todo : SUBSET Subs]
           /\ pass.pc \in {"prune", "write", "report"} =>
                 pass \in [pc : {"prune", "write", "report"}, b : Binding, changed : BOOLEAN,
                           owner : Nat, todo : SUBSET Subs]
BY DEF TypeOK, Passes, NoPass, Busy

\* An existing copy is a whole binding.
LEMMA BindingTypes ==
    ASSUME TypeOK
    PROVE  /\ Exists(binding) => binding \in Binding
           /\ Exists(seen) => seen \in Binding
           /\ ~Exists(NoBinding)
BY DEF TypeOK, Exists, NoBinding

\* An existing Work is a whole Work.
LEMMA WorkTypes ==
    ASSUME TypeOK, NEW i \in Subs
    PROVE  /\ Exists(works[i]) => works[i] \in Work
           /\ Exists(seenWorks[i]) => seenWorks[i] \in Work
           /\ ~Exists(NoWork)
BY DEF TypeOK, Works, Exists, NoWork

\* The sub-indices of a revision, that of the primary snapshot among them.
LEMMA PartsType ==
    ASSUME NEW r \in Revisions
    PROVE  Parts(r) \subseteq Subs /\ 0 \in Parts(r) /\ 0 \in Subs
BY GeneratorV1Assumption DEF GeneratorV1Assumption, Parts, Subs

RawWork == [linked : Nat, body : Nat, count : Nat, strategy : Nat,
            gen : Nat, report : Reports, reportGen : Nat, uid : Nat,
            owner : Nat, deleting : BOOLEAN]

\* What buildWorkObjectFor makes of a Work, or of nothing, is a Work.
LEMMA WantedType ==
    ASSUME TypeOK, pass.pc = "write", NEW i \in Subs, NEW w \in RawWork
    PROVE  Wanted(i, w) \in Work /\ Wanted(i, w).gen = w.gen /\ Wanted(i, w).uid = w.uid
<1>1. pass.b.target \in Revisions /\ pass.b.strategy \in Strategies /\ pass.owner \in Nat
  BY PassTypes DEF Binding
<1>2. ContentOf[pass.b.target] \in Nat /\ PartsOf[ContentOf[pass.b.target]] \in Nat
  BY ZenonT(30), <1>1, GeneratorV1Assumption DEF GeneratorV1Assumption
<1> QED BY ZenonT(30), <1>1, <1>2 DEF Wanted, RawWork, Work

LEMMA NewWorkType ==
    ASSUME TypeOK, pass.pc = "write", NEW i \in Subs
    PROVE  NewWork(i) \in Work
<1> DEFINE w == [linked |-> 0, body |-> 0, count |-> 0, strategy |-> 0, gen |-> 1,
                 report |-> "None", reportGen |-> 0,
                 uid |-> IF i = 0 THEN made + 1 ELSE 0, owner |-> 0, deleting |-> FALSE]
<1>1. w \in RawWork
  BY DEF RawWork, Reports, TypeOK
<1>2. NewWork(i) = Wanted(i, w)
  BY DEF NewWork
<1> QED BY <1>1, <1>2, WantedType

LEMMA RawWorks == Work \subseteq RawWork
BY ZenonT(30), GeneratorV1Assumption DEF GeneratorV1Assumption, Work, RawWork

\* Asking for the deletion of a Work.
LEMMA DeletedType ==
    ASSUME TypeOK, NEW i \in Subs
    PROVE  /\ Deleted(i) \in Works
           /\ \A j \in Subs : /\ Exists(Deleted(i)[j]) = Exists(works[j])
                              /\ Exists(works[j]) /\ works[j].deleting => Deleted(i)[j].deleting
           /\ Exists(works[i]) => Deleted(i)[i].deleting
<1>1. \A w \in Work : [w EXCEPT !.deleting = TRUE] \in Work /\ [w EXCEPT !.deleting = TRUE].deleting
                      /\ [w EXCEPT !.deleting = TRUE].gen = w.gen
  BY ZenonT(30) DEF Work
<1>2. works \in Works
  BY DEF TypeOK
<1> QED BY <1>1, <1>2, WorkTypes DEF Deleted, Works, Exists

----------------------------------------------------------------------------
(* Kinds of steps.                                                           *)

\* A step of a reconciliation that writes Works: the binding keeps the finalizer.
LEMMA WorkingStep ==
    ASSUME GuardInvariant, TypeOK', seen' = seen,
           Exists(binding)', binding'.fin, SameSpec(binding, binding'),
           pass'.pc \in Busy \cup {"idle"}
    PROVE  GuardInvariant'
<1>1. GuardedByFinalizer'
  BY DEF GuardedByFinalizer
<1>2. CopiesInOrder'
  BY DEF GuardInvariant, CopiesInOrder, Follows, SameSpec, Exists
<1>3. WritesGuarded'
  BY DEF WritesGuarded
<1>4. CleanUpGuarded'
  BY DEF CleanUpGuarded, Busy
<1> QED BY <1>1, <1>2, <1>3, <1>4 DEF GuardInvariant

\* A step that leaves the binding and its cached copy alone, at most ends the
\* reconciliation, and creates no primary Work.
LEMMA QuietStep ==
    ASSUME GuardInvariant, TypeOK', UNCHANGED bVars, pass' \in {pass, NoPass},
           0 \in Living' => 0 \in Living
    PROVE  GuardInvariant'
<1>0. binding' = binding /\ seen' = seen
  BY DEF bVars
<1>1. GuardedByFinalizer'
  BY <1>0 DEF GuardInvariant, GuardedByFinalizer, Exists
<1>2. CopiesInOrder'
  BY <1>0 DEF GuardInvariant, CopiesInOrder, Follows, Exists
<1>3. WritesGuarded'
  BY <1>0 DEF GuardInvariant, WritesGuarded, Exists, Active, NoPass
<1>4. CleanUpGuarded'
  BY <1>0 DEF GuardInvariant, CleanUpGuarded, Follows, Exists, NoPass
<1> QED BY <1>1, <1>2, <1>3, <1>4 DEF GuardInvariant

\* Users change the spec of the binding: a new generation.
LEMMA EditStep ==
    ASSUME GuardInvariant, TypeOK', UNCHANGED <<seen, works, pass>>,
           Exists(binding), binding' \in Binding, binding'.gen = binding.gen + 1,
           binding'.fin = binding.fin
    PROVE  GuardInvariant'
<1>0. Living' = Living /\ binding \in Binding
  BY BindingTypes DEF GuardInvariant, Living
<1>1. Exists(binding)'
  BY <1>0 DEF Exists, Binding
<1>2. GuardedByFinalizer'
  BY <1>0, <1>1 DEF GuardInvariant, GuardedByFinalizer
<1>3. CopiesInOrder'
  <2> SUFFICES ASSUME Exists(seen) PROVE Follows(seen, binding')
    BY DEF CopiesInOrder, Exists
  <2>1. seen.gen <= binding.gen /\ seen \in Binding
    BY BindingTypes DEF GuardInvariant, CopiesInOrder, Follows
  <2> QED BY <2>1, <1>0 DEF Follows, Binding
<1>4. WritesGuarded'
  BY <1>1 DEF GuardInvariant, WritesGuarded, Active, Exists
<1>5. CleanUpGuarded'
  BY <1>0 DEF GuardInvariant, CleanUpGuarded, Follows, Exists
<1> QED BY <1>2, <1>3, <1>4, <1>5 DEF GuardInvariant

----------------------------------------------------------------------------
(* The steps of a reconciliation that writes Works.                          *)

\* Whenever the Works are compared with the binding, the finalizer is there.
LEMMA CheckedGuard ==
    ASSUME GuardInvariant, CanCheck
    PROVE  /\ Checked \in Binding
           /\ Exists(binding) /\ binding.fin /\ binding \in Binding
<1>1. CASE pass.pc = "check"
  BY <1>1, PassTypes, BindingTypes DEF GuardInvariant, WritesGuarded, Checked
<1>2. CASE pass.pc # "check"
  <2>1. Active(seen) /\ seen.fin /\ Checked = seen
    BY <1>2 DEF CanCheck, Checked
  <2> QED BY <2>1, BindingTypes DEF GuardInvariant, WritesGuarded, Active
<1> QED BY <1>1, <1>2

LEMMA BusyGuard ==
    ASSUME GuardInvariant, pass.pc \in Busy
    PROVE  Exists(binding) /\ binding.fin /\ binding \in Binding
BY BindingTypes DEF GuardInvariant, WritesGuarded, Busy

\* A status write on the newest version keeps the binding and its finalizer.
LEMMA WriteKeeps ==
    ASSUME NEW b \in Binding, NEW new, SameSpec(b, new), new.fin = b.fin,
           Exists(binding), binding.fin, WriteBinding(b, new)
    PROVE  /\ seen' = seen /\ binding' \in Binding
           /\ Exists(binding)' /\ binding'.fin /\ SameSpec(binding, binding')
<1>1. binding = b /\ new.fin
  BY DEF WriteBinding
<1>2. binding' = new /\ seen' = seen
  BY <1>1 DEF WriteBinding
<1> QED BY <1>1, <1>2 DEF SameSpec, Exists

\* A step that leaves the binding alone keeps it.
LEMMA KeepsBinding ==
    ASSUME Exists(binding), binding.fin, binding \in Binding, UNCHANGED bVars
    PROVE  /\ seen' = seen /\ binding' \in Binding
           /\ Exists(binding)' /\ binding'.fin /\ SameSpec(binding, binding')
BY DEF bVars, SameSpec, Exists

\* Either outcome of a status write.
LEMMA StatusStep ==
    ASSUME NEW b \in Binding, NEW new, SameSpec(b, new), new.fin = b.fin,
           Exists(binding), binding.fin, binding \in Binding,
           WriteBinding(b, new) \/ UNCHANGED bVars
    PROVE  /\ seen' = seen /\ binding' \in Binding
           /\ Exists(binding)' /\ binding'.fin /\ SameSpec(binding, binding')
BY WriteKeeps, KeepsBinding

LEMMA AddFinalizerStep ==
    ASSUME GuardInvariant, AddFinalizer
    PROVE  GuardInvariant'
<1> DEFINE b == [seen EXCEPT !.fin = TRUE]
<1>1. seen \in Binding /\ Exists(seen) /\ seen = binding
  BY BindingTypes DEF GuardInvariant, AddFinalizer, Active, WriteBinding
<1>2. b \in Binding /\ b.fin /\ SameSpec(seen, b)
  BY ZenonT(30), <1>1 DEF Binding, SameSpec
<1>3. pass' = [pc |-> "check", b |-> b] /\ UNCHANGED wVars /\ visible' = visible /\ WriteBinding(seen, b)
  BY DEF AddFinalizer
<1> HIDE DEF b
<1>4. binding' = b /\ seen' = seen
  BY <1>2, <1>3 DEF WriteBinding
<1>5. TypeOK'
  BY <1>1, <1>2, <1>3, <1>4 DEF GuardInvariant, TypeOK, Passes, NoPass, wVars
<1>6. Exists(binding)'
  BY <1>1, <1>2, <1>4 DEF SameSpec, Exists
<1> QED BY <1>1, <1>2, <1>3, <1>4, <1>5, <1>6, WorkingStep DEF Busy

LEMMA RefreshStatusStep ==
    ASSUME GuardInvariant, RefreshStatus
    PROVE  GuardInvariant'
<1> DEFINE new == Refreshed(Checked, seenWorks)
<1>1. Checked \in Binding /\ Exists(binding) /\ binding.fin /\ binding \in Binding
  BY CheckedGuard DEF RefreshStatus
<1>2. SameSpec(Checked, new) /\ new.fin = Checked.fin
  BY <1>1, StatusWrites
<1>3. /\ WriteBinding(Checked, new) \/ UNCHANGED bVars
      /\ pass' = NoPass /\ UNCHANGED wVars /\ visible' = visible
  BY DEF RefreshStatus, UpdateStatus, End, Retry
<1> HIDE DEF new
<1>4. /\ seen' = seen /\ binding' \in Binding
      /\ Exists(binding)' /\ binding'.fin /\ SameSpec(binding, binding')
  BY <1>1, <1>2, <1>3, StatusStep
<1>5. TypeOK'
  BY <1>3, <1>4 DEF GuardInvariant, TypeOK, Passes, NoPass, wVars
<1> QED BY <1>3, <1>4, <1>5, WorkingStep DEF NoPass

LEMMA SnapshotsInvalidStep ==
    ASSUME GuardInvariant, SnapshotsInvalid
    PROVE  GuardInvariant'
<1> DEFINE new == MarkedInvalid(Checked)
<1>1. Checked \in Binding /\ Exists(binding) /\ binding.fin /\ binding \in Binding
  BY CheckedGuard DEF SnapshotsInvalid
<1>2. SameSpec(Checked, new) /\ new.fin = Checked.fin
  BY <1>1, StatusWrites
<1>3. /\ WriteBinding(Checked, new) \/ UNCHANGED bVars
      /\ pass' = NoPass /\ UNCHANGED wVars /\ visible' = visible
  BY DEF SnapshotsInvalid, UpdateStatus, Retry
<1> HIDE DEF new
<1>4. /\ seen' = seen /\ binding' \in Binding
      /\ Exists(binding)' /\ binding'.fin /\ SameSpec(binding, binding')
  BY <1>1, <1>2, <1>3, StatusStep
<1>5. TypeOK'
  BY <1>3, <1>4 DEF GuardInvariant, TypeOK, Passes, NoPass, wVars
<1> QED BY <1>3, <1>4, <1>5, WorkingStep DEF NoPass

LEMMA ReportProgressStep ==
    ASSUME GuardInvariant, ReportProgress
    PROVE  GuardInvariant'
<1> DEFINE new == Progressed(pass.b)
<1>1. pass.b \in Binding /\ Exists(binding) /\ binding.fin /\ binding \in Binding
  BY BusyGuard, PassTypes DEF GuardInvariant, ReportProgress, Busy
<1>2. SameSpec(pass.b, new) /\ new.fin = pass.b.fin
  BY <1>1, StatusWrites
<1>3. /\ WriteBinding(pass.b, new) \/ UNCHANGED bVars
      /\ pass' = NoPass /\ UNCHANGED wVars /\ visible' = visible
  BY DEF ReportProgress, FinishRefresh, Retry
<1> HIDE DEF new
<1>4. /\ seen' = seen /\ binding' \in Binding
      /\ Exists(binding)' /\ binding'.fin /\ SameSpec(binding, binding')
  BY <1>1, <1>2, <1>3, StatusStep
<1>5. TypeOK'
  BY <1>3, <1>4 DEF GuardInvariant, TypeOK, Passes, NoPass, wVars
<1> QED BY <1>3, <1>4, <1>5, WorkingStep DEF NoPass

LEMMA PatchStrategyStep ==
    ASSUME GuardInvariant, PatchStrategy
    PROVE  GuardInvariant'
<1>1. Checked \in Binding /\ Exists(binding) /\ binding.fin /\ binding \in Binding
  BY CheckedGuard DEF PatchStrategy
<1>2. /\ pass' = [pc |-> "patch", b |-> Checked, read |-> seenWorks,
                  todo |-> Outmoded(Checked, seenWorks)]
      /\ UNCHANGED bVars /\ UNCHANGED wVars /\ visible' = visible
  BY DEF PatchStrategy
<1>3. Outmoded(Checked, seenWorks) \subseteq Subs /\ Outmoded(Checked, seenWorks) \subseteq Present(seenWorks)
  BY DEF Outmoded, Present
<1>4. TypeOK'
  BY <1>1, <1>2, <1>3 DEF GuardInvariant, TypeOK, Passes, Present, wVars, bVars
<1> QED BY <1>1, <1>2, <1>4, KeepsBinding, WorkingStep DEF Busy

\* A Work of type Work that gets another strategy is one still.
LEMMA Patched ==
    ASSUME NEW w \in Work, NEW s \in Strategies
    PROVE  [w EXCEPT !.strategy = s, !.gen = @ + 1] \in Work
<1>1. w.gen + 1 \in Nat
  BY DEF Work
<1> DEFINE n == w.gen + 1
<1> HIDE DEF n
<1>2. [w EXCEPT !.strategy = s, !.gen = n] \in Work
  BY ZenonT(30), <1>1 DEF Work, n
<1> QED BY <1>2 DEF n

LEMMA PatchNextStep ==
    ASSUME GuardInvariant, PatchNext
    PROVE  GuardInvariant'
<1>0. /\ pass \in [pc : {"patch"}, b : Binding, read : Works, todo : SUBSET Subs]
      /\ Exists(binding) /\ binding.fin /\ binding \in Binding
  BY PassTypes, BusyGuard DEF GuardInvariant, PatchNext, Busy
<1>1. PICK i \in pass.todo :
         IF pass.read[i] = works[i]
         THEN /\ works' = [works EXCEPT ![i].strategy = pass.b.strategy, ![i].gen = @ + 1]
              /\ pass' = IF pass.todo = {i} THEN NoPass ELSE [pass EXCEPT !.todo = @ \ {i}]
         ELSE works' = works /\ pass' = NoPass
  BY DEF PatchNext, Retry
<1>2. UNCHANGED bVars /\ seenWorks' = seenWorks /\ made' = made /\ visible' = visible
  BY DEF PatchNext
<1>3. /\ pass' \in Passes /\ pass'.pc \in Busy \cup {"idle"}
      /\ pass'.pc = "patch" => pass'.todo \subseteq Present(pass'.read)
  BY <1>0, <1>1 DEF GuardInvariant, TypeOK, Passes, NoPass, Busy
<1>4. works' \in Works
  <2>1. i \in Subs /\ works \in Works
    BY <1>0 DEF GuardInvariant, TypeOK
  <2>2. CASE works' = works
    BY <2>1, <2>2
  <2>3. CASE /\ pass.read[i] = works[i]
             /\ works' = [works EXCEPT ![i].strategy = pass.b.strategy, ![i].gen = @ + 1]
    <3>1. pass.b.strategy \in Strategies
      BY <1>0 DEF Binding
    <3>2. works[i] \in Work
      BY <2>1, <2>3, <1>0, WorkTypes DEF GuardInvariant, TypeOK, Present
    <3>3. [works[i] EXCEPT !.strategy = pass.b.strategy, !.gen = @ + 1] \in Work
      BY ZenonT(30), <3>1, <3>2, Patched
    <3> QED BY <3>3, <2>1, <2>3 DEF Works
  <2> QED BY <1>1, <2>2, <2>3
<1>5. TypeOK'
  BY <1>2, <1>3, <1>4 DEF GuardInvariant, TypeOK, bVars
<1> QED BY <1>0, <1>2, <1>3, <1>5, KeepsBinding, WorkingStep

LEMMA StartRefreshStep ==
    ASSUME GuardInvariant, StartRefresh
    PROVE  GuardInvariant'
<1> DEFINE dangling == Present(seenWorks) \ Parts(Checked.target)
           pc == IF dangling = {} THEN "write" ELSE "prune"
           todo == IF dangling = {} THEN {0} ELSE dangling
<1>1. Checked \in Binding /\ Exists(binding) /\ binding.fin /\ binding \in Binding
  BY CheckedGuard DEF StartRefresh
<1>2. todo \in SUBSET Subs
  BY <1>1, PartsType DEF Present, Binding
<1>3. pc \in {"prune", "write"}
  OBVIOUS
<1>4. /\ pass' = [pc |-> pc, b |-> Checked, changed |-> FALSE, owner |-> 0, todo |-> todo]
      /\ UNCHANGED bVars /\ UNCHANGED wVars /\ visible' = visible
  BY DEF StartRefresh
<1> HIDE DEF pc, todo
<1>5. pass' \in Passes /\ pass'.pc # "patch"
  BY <1>1, <1>2, <1>3, <1>4 DEF Passes
<1>6. TypeOK'
  BY <1>4, <1>5 DEF GuardInvariant, TypeOK, wVars, bVars
<1> QED BY <1>1, <1>3, <1>4, <1>6, KeepsBinding, WorkingStep DEF Busy

LEMMA DeleteDanglingStep ==
    ASSUME GuardInvariant, DeleteDangling
    PROVE  GuardInvariant'
<1>0. /\ pass \in [pc : {"prune", "write", "report"}, b : Binding, changed : BOOLEAN,
                   owner : Nat, todo : SUBSET Subs]
      /\ Exists(binding) /\ binding.fin /\ binding \in Binding
  BY SMTT(60), PassTypes, BusyGuard DEF GuardInvariant, DeleteDangling, Busy
<1>1. PICK i \in pass.todo :
         /\ works' = Deleted(i)
         /\ pass' = [pass EXCEPT !.pc = IF pass.todo \ {i} = {} THEN "write" ELSE @,
                                 !.todo = IF pass.todo \ {i} = {} THEN {0} ELSE pass.todo \ {i}]
  BY ZenonT(30) DEF DeleteDangling
<1>2. UNCHANGED bVars /\ seenWorks' = seenWorks /\ made' = made /\ visible' = visible
      /\ pass.pc = "prune"
  BY DEF DeleteDangling
<1>3. 0 \in Subs
  BY SMTT(60), <1>0, PartsType DEF Binding
<1>4. pass' \in Passes /\ pass'.pc \in {"prune", "write"}
  BY ZenonT(30), <1>0, <1>1, <1>2, <1>3 DEF Passes
<1>5. works' \in Works
  BY <1>0, <1>1, DeletedType DEF GuardInvariant
<1>6. TypeOK'
  BY <1>2, <1>4, <1>5 DEF GuardInvariant, TypeOK, bVars
<1> QED BY <1>0, <1>2, <1>4, <1>6, KeepsBinding, WorkingStep DEF Busy

\* What a write of a Work makes of the reconciliation.
LEMMA WrittenType ==
    ASSUME GuardInvariant, NEW i \in Subs, NEW w, NEW changed \in BOOLEAN,
           pass.pc = "write", w.uid \in Nat, Written(i, w, changed)
    PROVE  pass' \in Passes /\ pass'.pc \in {"write", "report"}
<1> DEFINE rest == IF i = 0 THEN Parts(pass.b.target) \ {0} ELSE pass.todo \ {i}
           pc == IF rest = {} THEN "report" ELSE "write"
           owner == IF i = 0 THEN w.uid ELSE pass.owner
           chg == pass.changed \/ changed
<1>0. pass \in [pc : {"prune", "write", "report"}, b : Binding, changed : BOOLEAN,
                owner : Nat, todo : SUBSET Subs]
  BY PassTypes DEF GuardInvariant
<1>1. rest \in SUBSET Subs
  BY <1>0, PartsType DEF Binding
<1>2. pc \in {"write", "report"} /\ owner \in Nat
  BY <1>0
<1>3. chg \in BOOLEAN
  BY <1>0
<1>4. pass' = [pass EXCEPT !.todo = rest, !.pc = pc, !.owner = owner, !.changed = chg]
  BY DEF Written
<1> HIDE DEF rest, pc, owner, chg
<1> QED BY ZenonT(30), <1>0, <1>1, <1>2, <1>3, <1>4 DEF Passes

LEMMA WriteWorkStep ==
    ASSUME GuardInvariant, NEW i \in Subs, WriteWork(i)
    PROVE  GuardInvariant'
<1> DEFINE c == seenWorks[i]
           new == IF ~Exists(c) THEN NewWork(i)
                  ELSE [Wanted(i, c) EXCEPT !.gen = IF SpecChanged(i, c) THEN @ + 1 ELSE @]
<1>0. TypeOK /\ pass.pc = "write" /\ Exists(binding) /\ binding.fin /\ binding \in Binding
  BY BusyGuard DEF GuardInvariant, WriteWork, Busy
<1>1. new \in Work
  <2>1. CASE ~Exists(c)
    BY <1>0, <2>1, NewWorkType
  <2>2. CASE Exists(c)
    <3>1. c \in RawWork
      BY <1>0, <2>2, WorkTypes, RawWorks
    <3>2. Wanted(i, c) \in Work
      BY <1>0, <3>1, WantedType
    <3>3. \A w \in Work : \A b : [w EXCEPT !.gen = IF b THEN @ + 1 ELSE @] \in Work
      BY DEF Work
    <3>4. new = [Wanted(i, c) EXCEPT !.gen = IF SpecChanged(i, c) THEN @ + 1 ELSE @]
      BY <2>2
    <3> QED BY <3>2, <3>3, <3>4
  <2> QED BY <2>1, <2>2
<1>2. UNCHANGED bVars /\ seenWorks' = seenWorks /\ visible' = visible
  BY DEF WriteWork
<1>3. \/ Exists(c) /\ Written(i, c, FALSE) /\ works' = works /\ made' = made
      \/ /\ works' = [works EXCEPT ![i] = new]
         /\ made' \in {made, made + 1}
         /\ Written(i, new, new.gen # c.gen)
      \/ pass' = NoPass /\ works' = works /\ made' = made
  BY ZenonT(30) DEF WriteWork, Retry
<1> HIDE DEF new
<1>4. works' \in Works /\ made' \in Nat
  <2>1. works \in Works /\ made \in Nat
    BY <1>0 DEF TypeOK
  <2>2. works' \in {works, [works EXCEPT ![i] = new]} /\ made' \in {made, made + 1}
    BY ZenonT(30), <1>3
  <2>3. [works EXCEPT ![i] = new] \in Works
    BY <1>1, <2>1 DEF Works
  <2> QED BY <2>1, <2>2, <2>3
<1>5. pass' \in Passes /\ pass'.pc \in {"write", "report", "idle"}
  <2>1. CASE Exists(c) /\ Written(i, c, FALSE)
    <3>1. c.uid \in Nat
      BY <1>0, <2>1, WorkTypes DEF Work
    <3> QED BY ZenonT(30), <1>0, <2>1, <3>1, WrittenType
  <2>2. CASE Written(i, new, new.gen # c.gen)
    <3>1. new.uid \in Nat /\ (new.gen # c.gen) \in BOOLEAN
      BY <1>1 DEF Work
    <3> QED BY ZenonT(30), <1>0, <2>2, <3>1, WrittenType
  <2>3. CASE pass' = NoPass
    BY <2>3 DEF Passes, NoPass
  <2> QED BY ZenonT(30), <1>3, <2>1, <2>2, <2>3
<1>6. TypeOK'
  BY <1>0, <1>2, <1>4, <1>5 DEF TypeOK, bVars
<1> QED BY <1>0, <1>2, <1>5, <1>6, KeepsBinding, WorkingStep DEF Busy

----------------------------------------------------------------------------
(* The clean-up.                                                             *)

LEMMA CleanUpStep ==
    ASSUME GuardInvariant, CleanUp
    PROVE  GuardInvariant'
<1> DEFINE pc == IF seen.deleting THEN "release" ELSE "reset"
<1>0. TypeOK /\ seen \in Binding /\ Exists(seen) /\ seen.fin /\ (seen.deleting \/ seen.suspended)
  BY BindingTypes DEF GuardInvariant, CleanUp
<1>1. /\ works' = Deleted(0) /\ pass' = [pc |-> pc, b |-> seen] /\ UNCHANGED bVars
      /\ seenWorks' = seenWorks /\ made' = made /\ visible' = visible
  BY DEF CleanUp
<1>2. pc \in {"reset", "release"}
  OBVIOUS
<1> HIDE DEF pc
<1>3. 0 \in Subs
  BY <1>0, PartsType DEF Binding
<1>4. TypeOK'
  BY <1>0, <1>1, <1>2, <1>3, DeletedType DEF TypeOK, Passes, bVars
<1>5. 0 \notin Living'
  BY <1>0, <1>1, <1>3, DeletedType DEF Living, Exists
<1>6. binding' = binding /\ seen' = seen
  BY <1>1 DEF bVars
<1>7. GuardedByFinalizer' /\ CopiesInOrder'
  BY <1>5, <1>6 DEF GuardInvariant, GuardedByFinalizer, CopiesInOrder, Follows, Exists
<1>8. WritesGuarded'
  BY <1>1, <1>2, <1>6 DEF GuardInvariant, WritesGuarded, Active, Exists
<1>9. CleanUpGuarded'
  BY <1>0, <1>1, <1>2, <1>5, <1>6 DEF CleanUpGuarded, Follows, Exists, Binding
<1> QED BY <1>4, <1>7, <1>8, <1>9 DEF GuardInvariant

\* While a clean-up works on the newest version of the binding, the cached copy is of
\* the same generation: it asks for the clean-up as well.
LEMMA CleanUpCache ==
    ASSUME GuardInvariant, pass.pc \in {"reset", "release"}, pass.b = binding
    PROVE  /\ Exists(binding) /\ binding \in Binding /\ binding.fin
           /\ Exists(seen) /\ seen \in Binding /\ seen.gen = binding.gen
           /\ seen.deleting = binding.deleting /\ seen.suspended = binding.suspended
           /\ ~Active(seen) /\ 0 \notin Living
<1>1. Exists(binding) /\ binding \in Binding /\ binding.fin
  BY BindingTypes DEF GuardInvariant, CleanUpGuarded, Exists
<1>2. Exists(seen) /\ seen \in Binding /\ Follows(binding, seen) /\ Follows(seen, binding)
  BY <1>1, BindingTypes DEF GuardInvariant, CleanUpGuarded, CopiesInOrder
<1>3. seen.gen = binding.gen
  BY <1>1, <1>2 DEF Follows, Binding
<1> QED BY <1>1, <1>2, <1>3 DEF GuardInvariant, CleanUpGuarded, Follows, Active

LEMMA ResetProcessedStep ==
    ASSUME GuardInvariant, ResetProcessed
    PROVE  GuardInvariant'
<1> DEFINE new == [pass.b EXCEPT !.last = 0]
<1>0. pass.b \in Binding /\ pass.pc = "reset" /\ TypeOK
  BY PassTypes DEF GuardInvariant, ResetProcessed
<1>1. UNCHANGED wVars /\ visible' = visible
  BY DEF ResetProcessed
<1>2. CASE pass' = NoPass /\ UNCHANGED bVars
  <2>1. TypeOK'
    BY <1>0, <1>1, <1>2 DEF TypeOK, Passes, NoPass, wVars, bVars
  <2>2. Living' = Living
    BY <1>1 DEF Living, wVars
  <2> QED BY <1>2, <2>1, <2>2, QuietStep
<1>3. CASE WriteBinding(pass.b, new) /\ pass' = [pc |-> "release", b |-> new]
  <2>1. pass.b = binding
    BY <1>3 DEF WriteBinding
  <2>2. new \in Binding /\ SameSpec(binding, new) /\ new.fin = binding.fin
    BY <1>0, <2>1 DEF Binding, SameSpec
  <2>3. /\ Exists(binding) /\ binding \in Binding /\ binding.fin
        /\ Exists(seen) /\ seen \in Binding /\ seen.gen = binding.gen
        /\ seen.deleting = binding.deleting /\ seen.suspended = binding.suspended
        /\ ~Active(seen) /\ 0 \notin Living
    BY <1>0, <2>1, CleanUpCache
  <2>4. binding.deleting \/ binding.suspended
    BY <2>3 DEF Active
  <2> HIDE DEF new
  <2>5. binding' = new /\ seen' = seen
    BY <1>3, <2>2, <2>3 DEF WriteBinding
  <2>6. TypeOK'
    BY <1>0, <1>1, <1>3, <2>2, <2>5 DEF TypeOK, Passes, wVars
  <2>7. 0 \notin Living'
    BY <1>1, <2>3 DEF Living, wVars
  <2>8. GuardedByFinalizer' /\ WritesGuarded'
    BY <1>3, <2>3, <2>5, <2>7 DEF GuardedByFinalizer, WritesGuarded, Active, Exists
  <2>9. Follows(new, seen) /\ Follows(seen, new) /\ new.gen # 0 /\ (new.deleting \/ new.suspended)
    <3>1. new.gen = seen.gen /\ new.deleting = seen.deleting /\ new.suspended = seen.suspended
      BY <2>2, <2>3 DEF SameSpec
    <3>2. seen.gen \in Nat
      BY <2>3 DEF Binding
    <3> QED BY <2>3, <2>4, <3>1, <3>2 DEF Follows, Exists
  <2>10. CopiesInOrder'
    BY <2>5, <2>9 DEF CopiesInOrder, Follows, Exists
  <2>11. CleanUpGuarded'
    <3>1. pass'.b = new /\ pass'.b.fin /\ pass'.b.gen # 0 /\ Follows(pass'.b, seen') /\ Exists(seen)'
      BY ZenonT(30), <1>3, <2>2, <2>3, <2>5, <2>9 DEF Exists
    <3>2. Follows(pass.b, seen)'
      BY <3>1 DEF Follows
    <3> QED BY <2>7, <2>9, <3>1, <3>2 DEF CleanUpGuarded
  <2> QED BY <2>6, <2>8, <2>10, <2>11 DEF GuardInvariant
<1> QED BY <1>2, <1>3 DEF ResetProcessed, Retry

LEMMA ReleaseBindingStep ==
    ASSUME GuardInvariant, ReleaseBinding
    PROVE  GuardInvariant'
<1> DEFINE new == [pass.b EXCEPT !.fin = FALSE]
<1>0. pass.b \in Binding /\ pass.pc = "release" /\ TypeOK
  BY PassTypes DEF GuardInvariant, ReleaseBinding
<1>1. UNCHANGED wVars /\ visible' = visible /\ pass' = NoPass
  BY DEF ReleaseBinding, End, Retry
<1>2. CASE UNCHANGED bVars
  <2>1. TypeOK'
    BY <1>0, <1>1, <1>2 DEF TypeOK, Passes, NoPass, wVars, bVars
  <2>2. Living' = Living
    BY <1>1 DEF Living, wVars
  <2> QED BY <1>1, <1>2, <2>1, <2>2, QuietStep
<1>3. CASE WriteBinding(pass.b, new)
  <2>1. pass.b = binding
    BY <1>3 DEF WriteBinding
  <2>2. new \in Binding /\ SameSpec(binding, new)
    BY ZenonT(30), <1>0, <2>1 DEF Binding, SameSpec
  <2>3. /\ Exists(binding) /\ binding \in Binding /\ binding.fin
        /\ Exists(seen) /\ seen \in Binding /\ seen.gen = binding.gen
        /\ seen.deleting = binding.deleting /\ seen.suspended = binding.suspended
        /\ ~Active(seen) /\ 0 \notin Living
    BY <1>0, <2>1, CleanUpCache
  <2> HIDE DEF new
  <2>5. binding' \in {NoBinding, new} /\ seen' = seen
    BY <1>3 DEF WriteBinding
  <2>6. TypeOK'
    BY <1>0, <1>1, <2>2, <2>5 DEF TypeOK, Passes, NoPass, wVars
  <2>7. 0 \notin Living'
    BY <1>1, <2>3 DEF Living, wVars
  <2>8. GuardedByFinalizer' /\ WritesGuarded' /\ CleanUpGuarded'
    BY <1>1, <2>3, <2>5, <2>7 DEF GuardedByFinalizer, WritesGuarded, CleanUpGuarded, Active, Exists, NoPass
  <2>9. Follows(seen, new) /\ NoBinding.gen = 0
    BY <2>2, <2>3 DEF Follows, SameSpec, Binding, NoBinding
  <2>10. CopiesInOrder'
    BY <2>5, <2>9 DEF CopiesInOrder, Follows, Exists
  <2> QED BY <2>6, <2>8, <2>10 DEF GuardInvariant
<1> QED BY <1>2, <1>3 DEF ReleaseBinding

----------------------------------------------------------------------------
(* The informers, the member agent, the users and the faults.                *)

LEMMA DeliverBindingStep ==
    ASSUME GuardInvariant, seen' = binding, binding' = binding, works' = works,
           TypeOK', pass' \in {pass, NoPass}
    PROVE  GuardInvariant'
<1>1. Living' = Living
  BY DEF Living
<1>2. GuardedByFinalizer'
  BY <1>1 DEF GuardInvariant, GuardedByFinalizer, Exists
<1>3. CopiesInOrder'
  <2> SUFFICES ASSUME Exists(binding) PROVE Follows(binding, binding)
    BY DEF CopiesInOrder, Follows, Exists
  <2>1. binding \in Binding
    BY BindingTypes DEF GuardInvariant
  <2> QED BY <2>1 DEF Follows, Binding
<1>4. WritesGuarded'
  BY DEF GuardInvariant, WritesGuarded, Active, Exists, NoPass
<1>5. CleanUpGuarded'
  <2> SUFFICES ASSUME pass' = pass, pass.pc \in {"reset", "release"}, Exists(binding)
               PROVE  Follows(pass.b, binding)
    BY <1>1 DEF GuardInvariant, CleanUpGuarded, Follows, Exists, NoPass
  <2>1. /\ Exists(seen) /\ seen \in Binding /\ binding \in Binding /\ pass.b \in Binding
        /\ Follows(pass.b, seen) /\ Follows(seen, binding)
    BY BindingTypes, PassTypes DEF GuardInvariant, CleanUpGuarded, CopiesInOrder
  <2> QED BY <2>1 DEF Follows, Binding
<1> QED BY <1>2, <1>3, <1>4, <1>5 DEF GuardInvariant

\* A binding of another generation is one without conditions.
LEMMA EditedType ==
    ASSUME NEW b \in Binding
    PROVE  LET new == [b EXCEPT !.gen = @ + 1, !.sync = "None", !.avail = "None"]
           IN  new \in Binding /\ new.gen = b.gen + 1 /\ new.fin = b.fin
<1> DEFINE n == b.gen + 1
<1>1. n \in Nat
  BY DEF Binding
<1> HIDE DEF n
<1>2. /\ [b EXCEPT !.gen = n, !.sync = "None", !.avail = "None"] \in Binding
      /\ [b EXCEPT !.gen = n, !.sync = "None", !.avail = "None"].gen = n
      /\ [b EXCEPT !.gen = n, !.sync = "None", !.avail = "None"].fin = b.fin
  BY ZenonT(30), <1>1 DEF Binding, Statuses
<1> QED BY <1>2 DEF n

\* Kubernetes removes a binding without the finalizer at once, and marks another.
LEMMA DeleteBindingStep ==
    ASSUME GuardInvariant, DeleteBinding
    PROVE  GuardInvariant'
<1> DEFINE new == [binding EXCEPT !.deleting = TRUE, !.gen = @ + 1, !.sync = "None", !.avail = "None"]
<1>0. TypeOK /\ Exists(binding) /\ binding \in Binding
  BY BindingTypes DEF GuardInvariant, DeleteBinding
<1>1. new \in Binding /\ new.gen = binding.gen + 1 /\ new.fin = binding.fin
  <2> DEFINE d == [binding EXCEPT !.deleting = TRUE]
  <2>1. d \in Binding /\ d.gen = binding.gen /\ d.fin = binding.fin
    BY ZenonT(30), <1>0 DEF Binding
  <2>2. new = [d EXCEPT !.gen = @ + 1, !.sync = "None", !.avail = "None"]
    BY <1>0 DEF Binding
  <2> HIDE DEF d, new
  <2> QED BY ZenonT(30), <2>1, <2>2, EditedType
<1>2. /\ binding' = IF binding.fin THEN new ELSE NoBinding
      /\ seen' = seen /\ UNCHANGED wVars /\ visible' = visible /\ pass' = pass
  BY DEF DeleteBinding
<1> HIDE DEF new
<1>3. TypeOK'
  BY <1>0, <1>1, <1>2 DEF TypeOK, wVars
<1>4. CASE binding.fin
  <2>1. binding' = new /\ UNCHANGED <<seen, works, pass>>
    BY <1>2, <1>4 DEF wVars
  <2> QED BY <1>0, <1>1, <1>3, <2>1, EditStep
<1>5. CASE ~binding.fin
  <2>1. ~Exists(binding)' /\ seen' = seen /\ pass' = pass /\ Living' = Living
    BY <1>2, <1>5 DEF Exists, NoBinding, wVars, Living
  <2>2. /\ 0 \notin Living /\ pass.pc \notin {"check", "patch", "prune", "write", "report"}
        /\ ~(Active(seen) /\ seen.fin)
    BY <1>0, <1>5 DEF GuardInvariant, GuardedByFinalizer, WritesGuarded
  <2>3. GuardedByFinalizer' /\ CopiesInOrder' /\ WritesGuarded'
    BY <2>1, <2>2 DEF GuardedByFinalizer, CopiesInOrder, WritesGuarded, Active, Exists
  <2>4. CleanUpGuarded'
    BY <2>1 DEF GuardInvariant, CleanUpGuarded
  <2> QED BY <1>3, <2>3, <2>4 DEF GuardInvariant
<1> QED BY <1>4, <1>5

\* The rollout controller, the users and the owner of the binding change its spec.
LEMMA EditBindingStep ==
    ASSUME GuardInvariant, NEW new, new \in Binding, new.gen = binding.gen, new.fin = binding.fin,
           EditBinding(new)
    PROVE  GuardInvariant'
<1>0. TypeOK /\ Exists(binding)
  BY DEF GuardInvariant, EditBinding
<1>1. /\ binding' = [new EXCEPT !.gen = @ + 1, !.sync = "None", !.avail = "None"]
      /\ seen' = seen /\ UNCHANGED wVars /\ visible' = visible /\ pass' = pass
  BY DEF EditBinding
<1>2. binding' \in Binding /\ binding'.gen = binding.gen + 1 /\ binding'.fin = binding.fin
  BY ZenonT(30), <1>1, EditedType
<1>3. TypeOK'
  BY <1>0, <1>1, <1>2 DEF TypeOK, wVars
<1>4. UNCHANGED <<seen, works, pass>>
  BY <1>1 DEF wVars
<1> QED BY <1>0, <1>2, <1>3, <1>4, EditStep

LEMMA UsersStep ==
    ASSUME GuardInvariant, Users
    PROVE  GuardInvariant'
<1>0. Exists(binding) => binding \in Binding
  BY BindingTypes DEF GuardInvariant
<1>1. ASSUME NEW r \in Revisions, Roll(r) PROVE GuardInvariant'
  <2>1. Exists(binding) /\ EditBinding([binding EXCEPT !.target = r])
    BY <1>1 DEF Roll
  <2>2. /\ [binding EXCEPT !.target = r] \in Binding
        /\ [binding EXCEPT !.target = r].gen = binding.gen
        /\ [binding EXCEPT !.target = r].fin = binding.fin
    BY <1>0, <2>1 DEF Binding
  <2> QED BY ZenonT(30), <2>1, <2>2, EditBindingStep
<1>2. ASSUME NEW s \in Strategies, ChangeStrategy(s) PROVE GuardInvariant'
  <2>1. Exists(binding) /\ EditBinding([binding EXCEPT !.strategy = s])
    BY <1>2 DEF ChangeStrategy
  <2>2. /\ [binding EXCEPT !.strategy = s] \in Binding
        /\ [binding EXCEPT !.strategy = s].gen = binding.gen
        /\ [binding EXCEPT !.strategy = s].fin = binding.fin
    BY <1>0, <2>1 DEF Binding
  <2> QED BY ZenonT(30), <2>1, <2>2, EditBindingStep
<1>3. ASSUME NEW x \in BOOLEAN, Exists(binding), EditBinding([binding EXCEPT !.suspended = x])
      PROVE  GuardInvariant'
  <2>1. /\ [binding EXCEPT !.suspended = x] \in Binding
        /\ [binding EXCEPT !.suspended = x].gen = binding.gen
        /\ [binding EXCEPT !.suspended = x].fin = binding.fin
    BY <1>0, <1>3 DEF Binding
  <2> QED BY ZenonT(30), <1>3, <2>1, EditBindingStep
<1>4. CASE Suspend
  BY ZenonT(30), <1>3, <1>4 DEF Suspend
<1>5. CASE Resume
  BY ZenonT(30), <1>3, <1>5 DEF Resume
<1>6. CASE DeleteBinding
  BY <1>6, DeleteBindingStep
<1> QED BY <1>1, <1>2, <1>4, <1>5, <1>6 DEF Users

\* Steps that touch at most the snapshots and the queue, or end the reconciliation.
LEMMA IdleStep ==
    ASSUME GuardInvariant, UNCHANGED bVars, UNCHANGED wVars, visible' \subseteq Revisions,
           pass' \in {pass, NoPass}
    PROVE  GuardInvariant'
<1>1. TypeOK'
  BY DEF GuardInvariant, TypeOK, Passes, NoPass, bVars, wVars
<1>2. Living' = Living
  BY DEF Living, wVars
<1> QED BY <1>1, <1>2, QuietStep

\* Steps of a Work: none comes to life.
LEMMA WorkStep ==
    ASSUME GuardInvariant, NEW i \in Subs, NEW w, w \in Work \cup {NoWork},
           works' = [works EXCEPT ![i] = w],
           Exists(w) => Exists(works[i]) /\ (works[i].deleting => w.deleting),
           UNCHANGED bVars, seenWorks' = seenWorks, made' = made, visible' = visible, pass' = pass
    PROVE  GuardInvariant'
<1>1. works \in Works
  BY DEF GuardInvariant, TypeOK
<1>2. works' \in Works
  BY <1>1 DEF Works
<1>3. TypeOK'
  BY <1>2 DEF GuardInvariant, TypeOK, bVars
<1>4. Living' \subseteq Living
  BY <1>1 DEF Living, Works, Exists
<1> QED BY <1>3, <1>4, QuietStep

\* The deletion of a Work is asked for, and nothing else happens.
LEMMA DeletedStep ==
    ASSUME GuardInvariant, NEW i \in Subs, works' = Deleted(i),
           UNCHANGED bVars, seenWorks' = seenWorks, made' = made, visible' = visible, pass' = pass
    PROVE  GuardInvariant'
<1>1. /\ works' \in Works
      /\ \A j \in Subs : /\ Exists(works'[j]) = Exists(works[j])
                         /\ Exists(works[j]) /\ works[j].deleting => works'[j].deleting
  BY DeletedType DEF GuardInvariant
<1>2. TypeOK'
  BY <1>1 DEF GuardInvariant, TypeOK, bVars
<1>3. Living' \subseteq Living
  BY <1>1 DEF Living, Exists
<1> QED BY <1>2, <1>3, QuietStep

LEMMA ReportStep ==
    ASSUME GuardInvariant, NEW i \in Subs, NEW r \in Reports, Report(i, r)
    PROVE  GuardInvariant'
<1>1. works[i] \in Work /\ works \in Works
  BY WorkTypes DEF GuardInvariant, TypeOK, Report
<1> DEFINE w == [works[i] EXCEPT !.report = r, !.reportGen = works[i].gen]
<1>2. w \in Work /\ Exists(w) = Exists(works[i]) /\ w.deleting = works[i].deleting
  BY ZenonT(30), <1>1 DEF Work, Exists
<1>3. works' = [works EXCEPT ![i] = w]
  BY ZenonT(30), <1>1 DEF Report, Works, Work
<1>4. UNCHANGED bVars /\ seenWorks' = seenWorks /\ made' = made /\ visible' = visible /\ pass' = pass
  BY DEF Report
<1> HIDE DEF w
<1> QED BY ZenonT(30), <1>2, <1>3, <1>4, WorkStep

LEMMA DeliverWorkStep ==
    ASSUME GuardInvariant, NEW i \in Subs, DeliverWork(i)
    PROVE  GuardInvariant'
<1>1. /\ seenWorks' = [seenWorks EXCEPT ![i] = works[i]] /\ works' = works /\ made' = made
      /\ visible' = visible /\ pass' = pass /\ UNCHANGED bVars
  BY DEF DeliverWork
<1>2. seenWorks' \in Works
  BY <1>1 DEF GuardInvariant, TypeOK, Works
<1>3. TypeOK'
  BY <1>1, <1>2 DEF GuardInvariant, TypeOK, bVars
<1>4. Living' = Living
  BY <1>1 DEF Living
<1> QED BY <1>1, <1>3, <1>4, QuietStep

LEMMA RestartStep ==
    ASSUME GuardInvariant, Restart
    PROVE  GuardInvariant'
<1>1. /\ seen' = binding /\ binding' = binding /\ works' = works /\ seenWorks' = works
      /\ made' = made /\ visible' = visible /\ pass' = NoPass
  BY DEF Restart
<1>2. TypeOK'
  BY <1>1 DEF GuardInvariant, TypeOK, Passes, NoPass
<1> QED BY <1>1, <1>2, DeliverBindingStep

LEMMA InformersStep ==
    ASSUME GuardInvariant, Informers
    PROVE  GuardInvariant'
<1>1. CASE DeliverBinding
  <2>1. seen' = binding /\ binding' = binding /\ UNCHANGED wVars /\ visible' = visible /\ pass' = pass
    BY <1>1 DEF DeliverBinding
  <2>2. TypeOK' /\ works' = works
    BY <2>1 DEF GuardInvariant, TypeOK, wVars
  <2> QED BY <2>1, <2>2, DeliverBindingStep
<1>2. CASE Appear
  BY <1>2, IdleStep DEF Appear
<1> QED BY <1>1, <1>2, DeliverWorkStep DEF Informers

LEMMA FaultsStep ==
    ASSUME GuardInvariant, Faults
    PROVE  GuardInvariant'
<1>1. ASSUME NEW i \in Subs, NEW r \in {"Failed", "Unavailable"}, ReportTrouble(i, r)
      PROVE  GuardInvariant'
  BY <1>1, ReportStep DEF ReportTrouble, Reports
<1>2. ASSUME NEW i \in Subs, RemoveWork(i) PROVE GuardInvariant'
  BY <1>2, DeletedStep DEF RemoveWork
<1>3. ASSUME NEW r \in Revisions, Prune(r) PROVE GuardInvariant'
  <2>1. /\ visible' = visible \ {r} /\ UNCHANGED bVars /\ UNCHANGED wVars /\ pass' = pass
        /\ visible \subseteq Revisions
    BY <1>3 DEF Prune, GuardInvariant, TypeOK
  <2> QED BY <2>1, IdleStep
<1>4. CASE CallFails
  <2>1. /\ visible' = visible /\ UNCHANGED bVars /\ UNCHANGED wVars /\ pass' = NoPass
        /\ visible \subseteq Revisions
    BY <1>4 DEF CallFails, Retry, GuardInvariant, TypeOK
  <2> QED BY <2>1, IdleStep
<1> QED BY <1>1, <1>2, <1>3, <1>4, RestartStep DEF Faults

LEMMA ReconcileStep ==
    ASSUME GuardInvariant, Reconcile
    PROVE  GuardInvariant'
<1>1. CASE ReconcileNothing
  <2>1. /\ visible' = visible /\ UNCHANGED bVars /\ UNCHANGED wVars /\ pass' = pass
        /\ visible \subseteq Revisions
    BY <1>1 DEF ReconcileNothing, GuardInvariant, TypeOK
  <2> QED BY <2>1, IdleStep
<1> QED BY <1>1, AddFinalizerStep, RefreshStatusStep, PatchStrategyStep, PatchNextStep,
           SnapshotsInvalidStep, StartRefreshStep, DeleteDanglingStep, WriteWorkStep,
           ReportProgressStep, CleanUpStep, ResetProcessedStep, ReleaseBindingStep DEF Reconcile

----------------------------------------------------------------------------
(* The theorems.                                                             *)

LEMMA InitGuard ==
    ASSUME Init
    PROVE  GuardInvariant
<1>1. binding \in Binding /\ seen = NoBinding /\ pass = NoPass /\ visible \subseteq Revisions
  BY GeneratorV1Assumption DEF Init, GeneratorV1Assumption, Binding, Statuses
<1>2. works \in Works /\ seenWorks \in Works /\ made \in Nat
  BY DEF Init, Works
<1>3. TypeOK
  BY <1>1, <1>2 DEF TypeOK, Passes, NoPass
<1>4. Living = {} /\ ~Exists(seen)
  BY <1>1 DEF Init, Living, Exists, NoWork, NoBinding
<1> QED BY <1>1, <1>3, <1>4 DEF GuardInvariant, GuardedByFinalizer, CopiesInOrder, WritesGuarded,
                          CleanUpGuarded, Active, NoPass

LEMMA NextGuard ==
    ASSUME GuardInvariant, [Next]_vars
    PROVE  GuardInvariant'
<1>0. visible \subseteq Revisions
  BY DEF GuardInvariant, TypeOK
<1>1. CASE UNCHANGED vars
  BY <1>0, <1>1, IdleStep DEF vars, bVars, wVars
<1>2. CASE SecondElapses
  BY <1>0, <1>2, IdleStep DEF SecondElapses
<1>3. CASE MemberAgent
  <2>1. ASSUME NEW i \in Subs, ReportAvailable(i) PROVE GuardInvariant'
    BY <2>1, ReportStep DEF ReportAvailable, Reports
  <2>2. ASSUME NEW i \in Subs, WorkGone(i) PROVE GuardInvariant'
    <3>1. ~Exists(NoWork)
      BY DEF Exists, NoWork
    <3>2. /\ works' = [works EXCEPT ![i] = NoWork] /\ UNCHANGED bVars /\ seenWorks' = seenWorks
          /\ made' = made /\ visible' = visible /\ pass' = pass
      BY <2>2 DEF WorkGone
    <3> QED BY ZenonT(30), <3>1, <3>2, WorkStep
  <2> QED BY <1>3, <2>1, <2>2 DEF MemberAgent
<1>4. CASE KubernetesGC
  BY <1>4, DeletedStep DEF KubernetesGC, OwnerGone
<1> QED BY <1>1, <1>2, <1>3, <1>4, ReconcileStep, InformersStep, UsersStep, FaultsStep DEF Next

\* The finalizer protocol of the v1 work generator is inductive, for any revisions,
\* strategies, number of Works and of surprises.
THEOREM GuardInvariance == Spec => []GuardInvariant
BY InitGuard, NextGuard, PTL DEF Spec

\* No primary Work outlives the cleanup finalizer of its binding
\* (addPlacementBindingCleanupFinalizer, cleanupWorks).
THEOREM FinalizerGuards == Spec => []GuardedByFinalizer
BY GuardInvariance, PTL DEF GuardInvariant

\* The binding, the Works, the cached copies and the reconciliation stay well formed.
THEOREM GeneratorTypes == Spec => []TypeOK
BY GuardInvariance, PTL DEF GuardInvariant
=============================================================================
