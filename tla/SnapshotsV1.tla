----------------------------- MODULE SnapshotsV1 -----------------------------
(***************************************************************************)
(* The resource snapshot manager of the v1 stack                           *)
(* (pkg/v1/managers/placementresourcesnapshot).  A set of selected         *)
(* resources is stored as one primary snapshot and as many secondaries as  *)
(* its size asks for, all at one index.  The objects of an index cannot be *)
(* written in one transaction: the manager creates the secondaries first   *)
(* and the primary, which carries their number, last.  It reads through an *)
(* informer's cache, which lags, and corrects the lag with quorum reads of *)
(* the primary's name and with the API server's refusal to create a name   *)
(* twice.  A garbage collection worker removes old indices concurrently.   *)
(*                                                                         *)
(* One policy name is modelled, under which policies may be created and    *)
(* deleted in turn (each has a UID of its own), with one binding.  The     *)
(* callers are the policy controller, which wants a snapshot if there is   *)
(* none, and the rollout controllers, which want an up-to-date one.        *)
(***************************************************************************)
EXTENDS Integers, Sequences, FiniteSets, FiniteSetsExt, SequencesExt

CONSTANTS
    Contents,       \* what the selected resources can hold
    PartsOf,        \* the number of snapshots each content is split into
    RevisionLimit,  \* spec.resourceRevisionHistoryLimit
    MaxPolicies,    \* bound: policies created under the name
    Surprises,      \* what may happen: "change", "failure", "restart",
                    \*   "orphan", "cascade"
    MaxSurprises    \* bound: how many of these happen

ASSUME SnapshotsV1Assumption ==
    /\ PartsOf \in [Contents -> Nat \ {0}]
    /\ RevisionLimit \in Nat \ {0}
    /\ MaxPolicies \in Nat \ {0}
    /\ MaxSurprises \in Nat

VARIABLES
    policy,      \* the UID of the living policy
    content,     \* what the selected resources hold now
    snaps,       \* the snapshots in the API server
    log,         \* changes of the snapshots the informer has not seen yet
    seen,        \* the snapshots in the informer's cache
    target,      \* spec.resourceSnapshotName of the binding
    seenTarget,  \* the same in the informer's cache
    want,        \* the callers that are due to call the manager
    pass,        \* the call that holds the policy's lock
    answer,      \* what the manager returned to each caller and is not used yet
    gcq,         \* the garbage collection queue
    gc,          \* the request the garbage collection worker handles
    surprises

snapVars == <<snaps, log, seen>>
gcVars == <<gcq, gc>>
vars == <<policy, content, snaps, log, seen, target, seenTarget, want, pass,
          answer, gcq, gc, surprises>>

Policies == 1..MaxPolicies
Indices == 0..(MaxSurprises + 1)
Subs == 0..(Max({PartsOf[c] : c \in Contents}) - 1)

\* A snapshot: the policy UID and the index that its name is made of, its
\* sub-index (0: the primary), its contents hash annotation, its count label
\* (0 on a secondary) and whether it has an owner reference to that policy.
Snapshot == [uid : Policies, idx : Indices, sub : Subs, hash : Contents,
             count : 0..Cardinality(Subs), owned : BOOLEAN]

\* uniquename: the names of the snapshots factor in the policy's UID.
SnapshotName(s) == <<s.uid, s.idx, s.sub>>

NoName == <<>>
NameOf(s) == <<s.uid, s.idx>>

\* What a caller asks for: a snapshot if none exists, or an up-to-date one.
Modes == {"missing", "stale"}

NoPass == [pc |-> "idle"]
NoGC == [pc |-> "idle"]

Primaries(S) == {s \in S : s.sub = 0}
Named(S, n) == {s \in S : SnapshotName(s) = n}
AtIndex(S, i) == {s \in S : s.idx = i}
Newest(P) == CHOOSE p \in P : \A q \in P : q.idx <= p.idx

Init ==
    /\ policy = 1
    /\ content \in Contents
    /\ snaps = {} /\ log = <<>> /\ seen = {}
    /\ target = NoName /\ seenTarget = NoName
    /\ want = Modes
    /\ pass = NoPass
    /\ answer = [m \in Modes |-> {}]
    /\ gcq = {} /\ gc = NoGC
    /\ surprises = 0

-----------------------------------------------------------------------------
(* Writes to the API server, which the informer sees later. *)

PutSnapshot(s) ==
    /\ snaps' = (snaps \ Named(snaps, SnapshotName(s))) \cup {s}
    /\ log' = Append(log, [op |-> "put", snap |-> s])
    /\ UNCHANGED seen

\* A deletion by name; nothing happens when the name does not exist.
RemoveSnapshot(n) ==
    /\ snaps' = snaps \ Named(snaps, n)
    /\ log' = IF Named(snaps, n) = {} THEN log
              ELSE Append(log, [op |-> "del",
                                snap |-> CHOOSE s \in Named(snaps, n) : TRUE])
    /\ UNCHANGED seen

-----------------------------------------------------------------------------
(* retrieveLatestSnapshot: the newest snapshot group in the cache. *)

Foreign(P) == {p \in P : p.owned /\ p.uid # policy}
LeftOver(P) == {p \in P : ~p.owned}

\* Mutant: leftovers are reported but never queued.
LeftOverRequestsNone(P) == {p \in P : FALSE}

\* checkForInconsistentResourceSnapshots queues the primaries without an owner
\* up to the first one that another policy owns.
LeftOverRequests(P) ==
    {p \in LeftOver(P) : \A o \in Foreign(P) : p.idx < o.idx}

\* enqueueOldResourceSnapshotsForGC: all but the newest RevisionLimit.
Outdated(P) ==
    {p \in P : Cardinality({q \in P : q.idx > p.idx}) >= RevisionLimit}

Requests(P) ==
    IF Foreign(P) \cup LeftOver(P) # {} THEN LeftOverRequests(P) ELSE Outdated(P)

\* The snapshots at the index of a primary, in the order of their sub-indices,
\* cut off at its count: there must be enough of them, with the primary's hash.
Complete(S, p) ==
    \/ p.count = 1
    \/ LET group == AtIndex(S, p.idx)
           rank(s) == Cardinality({t \in group : t.sub < s.sub})
       IN  /\ Cardinality(group) >= p.count
           /\ \A s \in group : rank(s) < p.count => s.hash = p.hash

Inconsistent(P) ==
    \/ Foreign(P) \cup LeftOver(P) # {}
    \/ P # {} /\ ~Complete(seen, Newest(P))

\* primaryPlacementResourceSnapshotExistsAtIdx, a quorum read.
ExistsAtIdx(u, i) == Named(snaps, <<u, i, 0>>) # {}

\* isSnapshotUpToDate, when the hashes match: the cached snapshot is the newest
\* only if the next index is free.
NewerExists(p) == ExistsAtIdx(policy, p.idx + 1)

-----------------------------------------------------------------------------
(* snapshotResources, one call at a time under the policy's lock.  A call that
   fails returns an error and its caller comes back. *)

Fail(m) ==
    /\ pass' = NoPass
    /\ want' = want \cup {m}
    /\ UNCHANGED answer

\* A caller only uses what it gets for the policy it still finds.
Return(m, u, s) ==
    /\ pass' = NoPass
    /\ answer' = IF u = policy THEN [answer EXCEPT ![m] = {s}] ELSE answer

\* The cached lists, the selected resources and their hash are read, and the
\* outcome is decided: an error, the latest snapshot, or a new one.
SnapshotResources(m) ==
    LET P == Primaries(seen)
        p == Newest(P)
    IN  /\ pass.pc = "idle" /\ m \in want
        /\ gcq' = gcq \cup Requests(P)
        /\ \/ /\ \/ Inconsistent(P)
                 \/ P # {} /\ p.hash = content /\ NewerExists(p)
              /\ Fail(m)
           \/ /\ ~Inconsistent(P)
              /\ P # {}
              /\ p.hash = content => ~NewerExists(p)
              /\ m = "missing" \/ p.hash = content
              /\ want' = want \ {m}
              /\ Return(m, policy, p)
           \/ /\ ~Inconsistent(P)
              /\ P # {} => m = "stale" /\ p.hash # content
              /\ want' = want \ {m}
              /\ pass' = [pc |-> "clean", mode |-> m, uid |-> policy,
                          idx |-> IF P = {} THEN 0 ELSE p.idx + 1,
                          hash |-> content, left |-> {}]
              /\ UNCHANGED answer
        /\ UNCHANGED <<policy, content, snapVars, target, seenTarget, gc, surprises>>

\* Mutant: the quorum read before the clean-up is forgotten.
PrimaryInTheWayCached ==
    \E s \in AtIndex(seen, pass.idx) : s.sub = 0

\* A primary at the index means that its secondaries are no orphans.
PrimaryInTheWay ==
    \/ \E s \in AtIndex(seen, pass.idx) : s.sub = 0
    \/ ExistsAtIdx(pass.uid, pass.idx)

\* cleanUpOrphanedSecondarySnapshots: what an earlier call left at the index.
FindOrphans ==
    LET found == AtIndex(seen, pass.idx)
    IN  /\ pass.pc = "clean"
        /\ \/ /\ found = {}
              /\ pass' = [pc |-> "create", mode |-> pass.mode, uid |-> pass.uid,
                          idx |-> pass.idx, hash |-> pass.hash,
                          sub |-> PartsOf[pass.hash] - 1]
              /\ UNCHANGED <<want, answer>>
           \/ /\ found # {} /\ PrimaryInTheWay
              /\ Fail(pass.mode)
           \/ /\ found # {} /\ ~PrimaryInTheWay
              /\ pass' = [pass EXCEPT !.pc = "delete", !.left = found]
              /\ UNCHANGED <<want, answer>>
        /\ UNCHANGED <<policy, content, snapVars, target, seenTarget, gcVars, surprises>>

\* The orphans are deleted one by one.  Not finding one is an error; after the
\* last one the caller is asked to come back.
DeleteOrphan ==
    /\ pass.pc = "delete"
    /\ \E s \in pass.left :
          LET done == Named(snaps, SnapshotName(s)) = {} \/ pass.left = {s}
          IN  /\ RemoveSnapshot(SnapshotName(s))
              /\ IF done THEN Fail(pass.mode)
                 ELSE /\ pass' = [pass EXCEPT !.left = @ \ {s}]
                      /\ UNCHANGED <<want, answer>>
    /\ UNCHANGED <<policy, content, target, seenTarget, gcVars, surprises>>

\* primaryPlacementResourceSnapshot, secondaryPlacementResourceSnapshot.
Built ==
    [uid |-> pass.uid, idx |-> pass.idx, sub |-> pass.sub, hash |-> pass.hash,
     count |-> IF pass.sub = 0 THEN PartsOf[pass.hash] ELSE 0, owned |-> TRUE]

\* The secondaries are created from the last one down, then the primary.  A
\* name that exists is an error.
CreateNext ==
    IF Named(snaps, SnapshotName(Built)) # {}
    THEN /\ Fail(pass.mode)
         /\ UNCHANGED snapVars
    ELSE /\ PutSnapshot(Built)
         /\ IF pass.sub = 0
            THEN /\ Return(pass.mode, pass.uid, Built)
                 /\ UNCHANGED want
            ELSE /\ pass' = [pass EXCEPT !.sub = @ - 1]
                 /\ UNCHANGED <<want, answer>>

Create ==
    /\ pass.pc = "create"
    /\ CreateNext
    /\ UNCHANGED <<policy, content, target, seenTarget, gcVars, surprises>>

-----------------------------------------------------------------------------
(* The garbage collection worker. *)

\* isSnapshotInUseByAnyPlacementBinding, on the cache; a snapshot without owner
\* is never in use.
InUse(p) == p.owned /\ seenTarget = NameOf(p)

\* The secondaries in the cache at the primary's index with the same owner.
Secondaries(p) ==
    {s \in AtIndex(seen, p.idx) :
        /\ s.sub # 0
        /\ s.owned = p.owned
        /\ p.owned => s.uid = p.uid}

\* garbageCollect, up to the list: a primary that is not in the cache, or that
\* is in use, is left alone.
CollectGarbage(r) ==
    LET found == Named(seen, SnapshotName(r))
    IN  /\ gc.pc = "idle" /\ r \in gcq
        /\ gcq' = gcq \ {r}
        /\ gc' = IF \E p \in found : ~InUse(p)
                 THEN LET p == CHOOSE p \in found : TRUE
                      IN  [pc |-> "busy", primary |-> p, left |-> Secondaries(p)]
                 ELSE NoGC
        /\ UNCHANGED <<policy, content, snapVars, target, seenTarget, want, pass,
                       answer, surprises>>

\* The secondaries are deleted first and the primary last.
NextVictim == IF gc.left = {} THEN {gc.primary} ELSE gc.left

DeleteVictim ==
    /\ gc.pc = "busy"
    /\ \E s \in NextVictim :
          /\ RemoveSnapshot(SnapshotName(s))
          /\ gc' = IF gc.left = {} THEN NoGC ELSE [gc EXCEPT !.left = @ \ {s}]
    /\ UNCHANGED <<policy, content, target, seenTarget, want, pass, answer, gcq, surprises>>

-----------------------------------------------------------------------------
(* The callers, the informers, the users and the faults. *)

\* A policy controller binds the cluster to the snapshot if it is not bound yet;
\* a rollout controller moves the binding to it.
UseAnswer(m) ==
    \E s \in answer[m] :
       /\ answer' = [answer EXCEPT ![m] = {}]
       /\ target' = IF m = "missing" /\ target # NoName THEN target ELSE NameOf(s)
       /\ UNCHANGED <<policy, content, snapVars, seenTarget, want, pass, gcVars, surprises>>

Deliver ==
    /\ log # <<>>
    /\ LET e == Head(log)
           rest == seen \ Named(seen, SnapshotName(e.snap))
       IN  seen' = IF e.op = "put" THEN rest \cup {e.snap} ELSE rest
    /\ log' = Tail(log)
    /\ UNCHANGED <<policy, content, snaps, target, seenTarget, want, pass, answer,
                   gcVars, surprises>>

DeliverBinding ==
    /\ seenTarget # target
    /\ seenTarget' = target
    /\ UNCHANGED <<policy, content, snapVars, target, want, pass, answer, gcVars, surprises>>

Surprise(k) ==
    /\ k \in Surprises /\ surprises < MaxSurprises
    /\ surprises' = surprises + 1

ChangeContent(c) ==
    /\ Surprise("change") /\ c # content
    /\ content' = c
    /\ want' = want \cup {"stale"}
    /\ UNCHANGED <<policy, snapVars, target, seenTarget, pass, answer, gcVars>>

\* The policy is deleted and created again under its name.  Its snapshots are
\* left to Kubernetes' garbage collector, or lose their owner reference.
Recreate(k) ==
    LET mine == {s \in snaps : s.uid = policy /\ s.owned}
        orphan(s) == [s EXCEPT !.owned = FALSE]
        orphaned == {orphan(s) : s \in mine}
    IN  /\ k \in {"orphan", "cascade"} /\ Surprise(k)
        /\ policy < MaxPolicies
        /\ policy' = policy + 1
        /\ IF k = "orphan"
           THEN /\ snaps' = (snaps \ mine) \cup orphaned
                /\ log' = log \o [i \in 1..Cardinality(orphaned) |->
                                    [op |-> "put", snap |-> SetToSeq(orphaned)[i]]]
           ELSE UNCHANGED <<snaps, log>>
        /\ target' = NoName
        /\ answer' = [m \in Modes |-> {}]
        /\ want' = Modes
        /\ UNCHANGED <<content, seen, seenTarget, pass, gcVars>>

\* Kubernetes removes the snapshots whose owner is gone.
OwnerGone(s) ==
    /\ s \in snaps /\ s.owned /\ s.uid # policy
    /\ RemoveSnapshot(SnapshotName(s))
    /\ UNCHANGED <<policy, content, target, seenTarget, want, pass, answer, gcVars, surprises>>

\* A write fails, or succeeds and is reported as failed.
CreateFails(done) ==
    /\ pass.pc = "create" /\ Surprise("failure")
    /\ IF done /\ Named(snaps, SnapshotName(Built)) = {}
       THEN PutSnapshot(Built) ELSE UNCHANGED snapVars
    /\ Fail(pass.mode)
    /\ UNCHANGED <<policy, content, target, seenTarget, gcVars>>

\* A failed deletion sends the request back to the queue.
CollectFails ==
    /\ gc.pc = "busy" /\ Surprise("failure")
    /\ gcq' = gcq \cup {gc.primary}
    /\ gc' = NoGC
    /\ UNCHANGED <<policy, content, snapVars, target, seenTarget, want, pass,
                   answer>>

\* The hub agent restarts: its queues are lost and its caches are filled anew.
Restart ==
    /\ Surprise("restart")
    /\ pass' = NoPass /\ gc' = NoGC /\ gcq' = {}
    /\ answer' = [m \in Modes |-> {}]
    /\ want' = Modes
    /\ seen' = snaps /\ log' = <<>> /\ seenTarget' = target
    /\ UNCHANGED <<policy, content, snaps, target>>

Manager ==
    \/ \E m \in Modes : SnapshotResources(m)
    \/ FindOrphans
    \/ DeleteOrphan
    \/ Create

Collector ==
    \/ \E r \in gcq : CollectGarbage(r)
    \/ DeleteVictim

Callers == \E m \in Modes : UseAnswer(m)
KubernetesGC == \E s \in snaps : OwnerGone(s)

Next ==
    \/ Manager
    \/ Collector
    \/ Callers
    \/ Deliver
    \/ DeliverBinding
    \/ KubernetesGC
    \/ \E c \in Contents : ChangeContent(c)
    \/ \E k \in Surprises : Recreate(k)
    \/ \E done \in BOOLEAN : CreateFails(done)
    \/ CollectFails
    \/ Restart

Spec == Init /\ [][Next]_vars

\* The controllers retry what failed, the worker empties its queue, and the
\* informers and Kubernetes' garbage collector get on.
Fairness ==
    /\ WF_vars(Manager) /\ WF_vars(Collector) /\ WF_vars(Callers)
    /\ WF_vars(Deliver \/ DeliverBinding) /\ WF_vars(KubernetesGC)

FairSpec == Spec /\ Fairness

-----------------------------------------------------------------------------
(* Properties *)

\* The snapshots, the cache and the requests are well formed.
TypeOK ==
    /\ policy \in Policies /\ content \in Contents
    /\ snaps \subseteq Snapshot /\ seen \subseteq Snapshot
    /\ gcq \subseteq Snapshot
    /\ \A s, t \in snaps : SnapshotName(s) = SnapshotName(t) => s = t
    /\ want \subseteq Modes
    /\ \A m \in Modes : answer[m] \subseteq Snapshot

Mine == {s \in snaps : s.uid = policy /\ s.owned}

\* The newest primary of the policy always has all the secondaries that its
\* count label promises, and they hold the same content: whatever the order of
\* failed creations, clean-ups on a lagging cache and garbage collections
\* (createResourceSnapshotAnyway, cleanUpOrphanedSecondarySnapshots).
NewestComplete ==
    Primaries(Mine) # {} =>
        LET p == Newest(Primaries(Mine))
        IN  \A i \in 1..(p.count - 1) :
               \E s \in Mine : s.idx = p.idx /\ s.sub = i /\ s.hash = p.hash

\* An ownerless secondary at an index at which the policy has a primary.
LeftOverAt(S) ==
    \E s \in S, p \in S :
        /\ s.sub # 0 /\ ~s.owned
        /\ p.sub = 0 /\ p.owned /\ p.uid = policy /\ p.idx = s.idx

Settled ==
    /\ want = {}
    /\ \A s \in snaps : s.uid # policy => s.sub # 0 /\ ~s.owned
    /\ Primaries(Mine) # {}
    /\ LET p == Newest(Primaries(Mine))
       IN  p.hash = content /\ target = NameOf(p)
    /\ Cardinality(Primaries(snaps)) <= RevisionLimit + 2

\* Once the users leave the resources and the policy alone, a snapshot of the
\* present content becomes the newest one, the binding uses it, what previous
\* policies left is gone (ownerless secondaries aside) and the history is bounded
\* by the limit, the snapshot being written and one that was in use when it was
\* looked at.  The exception is LeftOverAt: such a secondary can block the policy.
Settles == <>[](Settled \/ LeftOverAt(snaps))

=============================================================================
