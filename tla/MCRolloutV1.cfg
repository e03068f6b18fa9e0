CONSTANTS
    r1 = r1
    ClusterCount = 2
    StageOf <- TwoStages
    StageCount = 2
    Runs = {r1}
    FailureLimits = {0, 1}
    Concurrency = 1
    AsksBefore = {2}
    AsksAfter = {}
    Waits = {1}
    Starts <- MCStarts
    MaxContent = 1
SPECIFICATION FairSpec
 
PROPERTIES RoleGuardsBindings Settles
CHECK_DEADLOCK FALSE
