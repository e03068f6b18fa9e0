---------------------------- MODULE WorkDelivery ----------------------------
(***************************************************************************)
(* What happens to a binding once it is bound: the work generator turns it *)
(* into Work objects in the namespace of the target cluster and folds      *)
(* their status into the conditions of the binding, and the member agent   *)
(* applies them.  This is the part of both that the scheduler and the      *)
(* rollout controller rely on; all the Works of a binding are one record.  *)
(***************************************************************************)
EXTENDS Hub

CONSTANT
    Untrackable     \* clusters whose resources' availability is unknown

VARIABLE work

NoWork == [snap |-> 0, strategy |-> None, status |-> "pending"]

\* snap, strategy: what the Works were generated from (snap 0: no Works);
\* status: what the member agent has reported for that content.
Works ==
    [snap : 0..MaxSnapshot, strategy : Strategies \cup {None},
     status : {"pending", "up", "failed"}]

WorkDeliveryTypeOK == work \in [Binding -> Works]

\* Unscheduled bindings go on being served until they are deleted.
Served(b) ==
    /\ b \in Live
    /\ binding[b].state \in {"Bound", "Unscheduled"}
    /\ binding[b].cluster \in cache.clusters

\* Mutant: a binding that was never deselected is skipped.
EnsureFinalizerDeselected(b) ==
    /\ Served(b)
    /\ ~binding[b].workFin
    /\ binding[b].prev # None
    /\ OtherWrites(b, [binding[b] EXCEPT !.workFin = TRUE])
    /\ UNCHANGED work

EnsureFinalizer(b) ==
    /\ Served(b)
    /\ ~binding[b].workFin
    /\ OtherWrites(b, [binding[b] EXCEPT !.workFin = TRUE])
    /\ UNCHANGED work

\* A bound binding is left alone until the rollout controller has stated, for
\* this generation, whether its rollout has started.
Syncs(b) ==
    /\ Served(b)
    /\ binding[b].workFin
    /\ binding[b].state = "Bound" => binding[b].started # None

Matches(b) ==
    /\ work[b].snap = binding[b].snap
    /\ work[b].strategy = binding[b].strategy

\* setBindingStatus: what the conditions become once the Works match.
ReportOf(b) ==
    CASE binding[b].strategy = "ReportDiff" ->
            IF work[b].status = "up" THEN "Diffed" ELSE "Diffing"
      [] work[b].status = "pending" -> "Progressing"
      [] work[b].status = "failed" -> "Failed"
      [] binding[b].cluster \notin Untrackable -> "Available"
      [] binding[b].report = "Settled" -> "Settled"
      [] OTHER -> "Untracked"

\* syncAllWork creates or updates the Works ...
GenerateWorks(b) ==
    /\ Syncs(b)
    /\ ~Matches(b)
    /\ binding[b].snap # 0
    /\ work' = [work EXCEPT ![b] = [snap |-> binding[b].snap,
                                    strategy |-> binding[b].strategy,
                                    status |-> "pending"]]
    /\ OtherWrites(b, [binding[b] EXCEPT
          !.report = IF binding[b].strategy = "ReportDiff"
                     THEN "Diffing" ELSE "Progressing"])

\* ... or finds them in place and reports their status; a binding without a
\* resource snapshot (deselected before it was ever bound) has failed.
ReportStatus(b) ==
    /\ Syncs(b)
    /\ binding[b].snap # 0 => Matches(b)
    /\ LET report == IF binding[b].snap = 0 THEN "Failed" ELSE ReportOf(b)
       IN  /\ report # binding[b].report
           /\ OtherWrites(b, [binding[b] EXCEPT !.report = report])
    /\ UNCHANGED work

\* handleDelete: delete the Works, then release the binding.
DeleteWorks(b) ==
    /\ b \in Deleting
    /\ binding[b].workFin
    /\ work[b] # NoWork
    /\ work' = [work EXCEPT ![b] = NoWork]
    /\ UNCHANGED hubVars

\* Mutant: the binding is released while its Works are still there.
ReleaseBindingEarly(b) ==
    /\ b \in Deleting
    /\ binding[b].workFin
    /\ OtherWrites(b, Finalize([binding[b] EXCEPT !.workFin = FALSE]))
    /\ UNCHANGED work

ReleaseBinding(b) ==
    /\ b \in Deleting
    /\ binding[b].workFin
    /\ work[b] = NoWork
    /\ OtherWrites(b, Finalize([binding[b] EXCEPT !.workFin = FALSE]))
    /\ UNCHANGED work

MemberReports(b, status) ==
    /\ work[b].snap # 0
    /\ work[b].status # status
    /\ work' = [work EXCEPT ![b].status = status]
    /\ UNCHANGED hubVars

\* unavailablePeriodSeconds have passed since the Available condition was set.
UnavailablePeriodElapses(b) ==
    /\ binding[b].report = "Untracked"
    /\ Store(b, [binding[b] EXCEPT !.report = "Settled"])
    /\ UNCHANGED <<schedFresh, rolloutFresh, hub, cache, work>>

WorkDeliveryInit == work = [b \in Binding |-> NoWork]

WorkDeliveryStep(b) ==
    \/ EnsureFinalizer(b)
    \/ GenerateWorks(b)
    \/ ReportStatus(b)
    \/ DeleteWorks(b)
    \/ ReleaseBinding(b)
    \/ MemberReports(b, "up")
    \/ UnavailablePeriodElapses(b)
============================================================================
