---------------------------- MODULE MCWorkApplier ----------------------------
(* Instances of the work applier for TLC. *)
EXTENDS WorkApplier, Integers

CONSTANTS ns, app

MCManifest == {ns, app}
MCWave == [m \in MCManifest |-> IF m = ns THEN 0 ELSE 1]

S(type, takeOver, apply, compare, coOwn) ==
    [type |-> type, takeOver |-> takeOver, apply |-> apply, compare |-> compare, coOwn |-> coOwn,
     force |-> FALSE]

MCStrategies ==
    {S("ClientSideApply", "Always", "IfNotDrifted", "Full", FALSE),
     S("ServerSideApply", "IfNoDiff", "Always", "Partial", TRUE),
     S("ReportDiff", "Always", "Always", "Partial", FALSE)}

Foreign(owners, content) ==
    [NoObject EXCEPT !.here = TRUE, !.owners = owners, !.content = content]

Empty == [m \in MCManifest |-> NoObject]
OnlyApp == [m \in MCManifest |-> IF m = app THEN 1 ELSE 0]
Both == [m \in MCManifest |-> 1]
Taken(o) == [Empty EXCEPT ![app] = o]

From(spec, objects, events) == [spec |-> spec, object |-> objects, events |-> events]

MCStarts ==
    {From(Both, Empty, 2)}
        \cup {From(OnlyApp, Taken(o), 1) :
                 o \in {Foreign({Orphan}, 1), Foreign({Peer}, 1), Foreign({Newer}, 0)}}
-----------------------------------------------------------------------------
(* What the objects report, and when a Work is looked at again. *)

A == INSTANCE Availability
R == INSTANCE Requeue

Workloads ==
    [resource : {"deployments", "statefulsets", "daemonsets"}, generation : {2}, observed : 1..2,
     replicas : {A!Unset, 0, 2}, available : 0..2, updated : 0..2, unavailable : 0..1,
     current : 0..2, currentRevision : {1, 2}, updateRevision : {2}, desired : {2}]

\* A workload that serves nothing of the generation that was applied does not
\* count as available, whatever the numbers its status shows, and one that runs
\* every replica in the revision asked for does.
ASSUME WorkloadsReport ==
    \A o \in Workloads :
        LET wanted == IF o.resource = "daemonsets" THEN o.desired ELSE A!Required(o)
            rolledOut == /\ o.available = wanted
                         /\ o.updated = wanted
                         /\ o.current = wanted
                         /\ o.unavailable = 0
                         /\ o.currentRevision = o.updateRevision
            verdict == A!Track([applied |-> TRUE, readable |-> TRUE, object |-> o])
        IN /\ o.observed # o.generation => verdict = "NotYetAvailable"
           /\ verdict = "Available" => o.available = wanted
           /\ o.observed = o.generation /\ rolledOut => verdict = "Available"
           /\ A!Track([applied |-> FALSE, readable |-> TRUE, object |-> o]) = "Skipped"

Limiters ==
    {R!Normalised(c) :
        c \in [attempts : {0, 1, 3, 41}, fixed : {0, 5000, 4000000}, slowBase : {105, 150},
               fastBase : {100, 150, 400}, initial : {1000, 2000}, maxSlow : {8000, 30000},
               maxFast : {30000, 3600000}, skip : BOOLEAN]}

W(result, available) ==
    [generation |-> 1, result |-> result, available |-> available, diff |-> FALSE]

\* The trackers after 0 to n more looks at a Work whose outcome stays the same.
Looks(c, available, from, n) ==
    LET t[k \in 0..n] == IF k = 0 THEN from ELSE R!When(c, t[k - 1], W("same", available))
    IN t

\* The limiter backs off: once the fixed delays are over, no delay is shorter
\* than the one before while the outcome of the Work stays the same, whether or
\* not it is available; none is ever above the longest or, after the fixed
\* delays, below the first; and a new outcome starts from the beginning.
ASSUME BacksOff ==
    \A c \in Limiters, available \in BOOLEAN :
        LET n == c.attempts + 13
            t == Looks(c, available, R!Forget, n)
        IN /\ \A k \in 1..n : t[k].delay <= c.maxFast
           /\ \A k \in (c.attempts + 1)..n : t[k].delay >= c.initial
           /\ \A k \in (c.attempts + 2)..n : t[k].delay >= t[k - 1].delay
           /\ R!When(c, t[n], W("other", available)).delay = R!Lower(c.fixed, c.maxFast)

Slowest ==
    [attempts |-> 40, fixed |-> 2000, slowBase |-> 105, fastBase |-> 105, initial |-> 2000,
     maxSlow |-> 3600000, maxFast |-> 3600000, skip |-> FALSE]

\* n looks later, for a Work that never gets available.
Later(trackers, n) == {Looks(Slowest, FALSE, t, n)[n] : t \in trackers}

\* The limiter stops counting at a bound that even the slowest of all valid
\* configurations passes only after its delay has become the longest.
ASSUME BoundIsEnough ==
    LET quarter == R!MaxTracked \div 4
        atBound == Later(Later(Later(Later({R!Forget}, quarter), quarter), quarter), quarter - 1)
    IN /\ R!Normalised(Slowest) = Slowest
       /\ \A t \in atBound :
            /\ t.count = R!MaxTracked - 1
            /\ t.delay = Slowest.maxFast
       /\ Later(atBound, 7) = atBound

Watched ==
    [generation : {1}, reportDiff : BOOLEAN, diff : BOOLEAN, applied : BOOLEAN,
     available : BOOLEAN, minutes : {0, 5, 200}]

\* A change of a Work that has not been processed to the end goes before every
\* change of one that has, and all changes go before the periodic requeues.
ASSUME UnfinishedFirst ==
    \A u, v \in Watched, a \in {-30, 0, 2}, b \in {-5, 60, 200} :
        LET P(w) == R!Priority("update", a, b, w, [w EXCEPT !.generation = 2])
        IN /\ ~R!IsSettled(u) => P(u) >= P(v)
           /\ P(u) > R!Priority("requeue", a, b, u, u)
           /\ R!Priority("update", a, b, u, u) = R!NotQueued
=============================================================================
