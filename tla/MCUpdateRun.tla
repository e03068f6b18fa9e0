---------------------------- MODULE MCUpdateRun ----------------------------
(* UpdateRun on small instances.                                           *)
EXTENDS UpdateRun

CONSTANTS r1, r2, c1, c2, c3

MCOrder == <<c1, c2, c3>>

One == [percent |-> FALSE, value |-> 1]
Third == [percent |-> TRUE, value |-> 34]

Gate(before, wait, after, max) ==
    [before |-> before, wait |-> wait, after |-> after, max |-> max]

TwoStages == <<Gate(TRUE, TRUE, FALSE, One), Gate(FALSE, FALSE, TRUE, Third)>>
TwoLabels == <<{c1, c2}, {c3}>>

Apart == [r \in Run |-> IF r = r1 THEN 2 ELSE 3]

Allow(policies, edits, errors, mishaps, lags) ==
    [policies |-> policies, edits |-> edits, errors |-> errors,
     mishaps |-> mishaps, lags |-> lags]

\* One run, with edits, a new policy and a restart; two runs which take the
\* bindings from each other; and one run, with evictions and failures.
MCStarts ==
    {[picked |-> {c1}, bound |-> {c2}, removed |-> {c3}, runs |-> {r1},
      budget |-> Allow(1, 1, 1, 0, FALSE)],
     [picked |-> {c1}, bound |-> {c3}, removed |-> {}, runs |-> {r1, r2},
      budget |-> Allow(0, 0, 0, 0, TRUE)],
     [picked |-> {c1}, bound |-> {c2}, removed |-> {c3}, runs |-> {r1},
      budget |-> Allow(0, 0, 0, 1, TRUE)]}
============================================================================
