SPECIFICATION FairSpec
CONSTANTS
  Policies = {pA, pB, pC}
  Numbers = {1, 2}
  Resources = {r1, r2}
  MaxContent = 1
  RevisionLimit = 2
  Collects = TRUE
  Reverts = FALSE
  MaxIndex = 3
  MaxEdits = 1
  MaxFaults = 1
  Present = {r1}
INVARIANTS HistoryBounded ReportIsEarned
 
CHECK_DEADLOCK FALSE
