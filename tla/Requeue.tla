------------------------------ MODULE Requeue ------------------------------
(***************************************************************************)
(* When and how urgently the work applier looks at a Work again: the rate  *)
(* limiter of its periodic requeues, and the priorities of its queue.      *)
(*                                                                         *)
(* A configuration of the limiter is a record with attempts, fixed,        *)
(* slowBase, initial, maxSlow, fastBase, maxFast and skip.  Delays are in  *)
(* milliseconds and the bases of the exponential stages in hundredths.  A  *)
(* tracker is what the limiter remembers of a Work.  A Work is a record    *)
(* with generation, result (the hash of the outcomes of its manifests) and *)
(* the conditions applied, available and diff, TRUE when they are True for *)
(* this generation.                                                        *)
(***************************************************************************)
EXTENDS Integers

MinAttempts == 1
MaxAttempts == 40
MaxTracked == 200
MinDelay == 2000
MaxDelay == 3600000

\* NewRequeueMultiStageWithExponentialBackoffRateLimiter: three groups of
\* settings, each replaced as a whole when it is not valid.
Normalised(c) ==
    LET bases == /\ c.slowBase >= 105
                 /\ c.slowBase <= c.fastBase
                 /\ c.fastBase <= 10000
        delays == /\ c.initial >= MinDelay
                  /\ c.initial <= c.maxSlow
                  /\ c.maxSlow <= c.maxFast
                  /\ c.maxFast <= MaxDelay
    IN [attempts |-> IF c.attempts \in MinAttempts..MaxAttempts THEN c.attempts ELSE MinAttempts,
        fixed |-> IF c.fixed < MinDelay THEN MinDelay ELSE c.fixed,
        slowBase |-> IF bases THEN c.slowBase ELSE 120,
        fastBase |-> IF bases THEN c.fastBase ELSE 120,
        initial |-> IF delays THEN c.initial ELSE 2000,
        maxSlow |-> IF delays THEN c.maxSlow ELSE 30000,
        maxFast |-> IF delays THEN c.maxFast ELSE 900000,
        skip |-> c.skip]

\* A Work the limiter has not seen, or has been told to forget.
Forget == [count |-> 0, delay |-> 0, generation |-> 0, result |-> ""]

\* The count starts again with a new generation and a new outcome.
Observed(t, w) ==
    IF t.generation = w.generation /\ t.result = w.result
    THEN t
    ELSE [count |-> 0, delay |-> 0, generation |-> w.generation, result |-> w.result]

Grown(delay, base) == (delay * base) \div 100

Lower(a, b) == IF a < b THEN a ELSE b

Backoff(c, delay, w) ==
    LET slow == Grown(delay, c.slowBase)
        fast == Grown(delay, c.fastBase)
    IN IF delay >= c.maxFast THEN c.maxFast
       ELSE IF \/ c.skip /\ (w.available \/ w.diff)
               \/ delay >= c.maxSlow
               \/ slow > c.maxSlow
       THEN fast
       ELSE slow

Delay(c, t, w) ==
    LET wanted == IF t.count < c.attempts THEN c.fixed
                  ELSE IF t.count = c.attempts THEN c.initial
                  ELSE Backoff(c, t.delay, w)
    IN Lower(wanted, c.maxFast)

\* When: the tracker afterwards; its delay is the one that is returned.
When(c, before, w) ==
    LET t == Observed(before, w)
    IN [t EXCEPT !.count = IF t.count + 1 < MaxTracked THEN t.count + 1 ELSE t.count,
                 !.delay = Delay(c, t, w)]

-----------------------------------------------------------------------------
(* The priorities of the queue. *)

Highest == 100
Default == 0
Low == -1

\* calcArgBasedPriWithLinearEquation
ByAge(a, b, minutes) ==
    LET priority == a * minutes + b
    IN IF priority < Default THEN Default ELSE Lower(priority, Highest)

\* determineUpdateEventPriority: the old Work has been processed to the end.
IsSettled(w) == IF w.reportDiff THEN w.diff ELSE w.applied /\ w.available

UpdatePriority(a, b, w) == IF IsSettled(w) THEN ByAge(a, b, w.minutes) ELSE Highest

NotQueued == -2

\* Create, Delete, Update, Generic and Requeue.  An update of nothing but the
\* status is not queued.
Priority(event, a, b, old, new) ==
    CASE event \in {"create", "delete"} -> Highest
      [] event = "update" -> IF old.generation = new.generation THEN NotQueued
                             ELSE UpdatePriority(a, b, old)
      [] event \in {"generic", "requeue"} -> Low
=============================================================================
