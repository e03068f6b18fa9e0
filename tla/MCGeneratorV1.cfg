SPECIFICATION FairSpec
CONSTANTS
    Revisions = {1, 2, 3}
    ContentOf <- RevisionContents
    PartsOf <- ContentSizes
    Strategies = {1, 2}
    Rollbacks = FALSE
    LaggingStatus = FALSE
    Surprises <- Kinds
    MaxEdits = 1
    MaxFaults = 1
INVARIANTS
    GuardedByFinalizer

    
CHECK_DEADLOCK FALSE
