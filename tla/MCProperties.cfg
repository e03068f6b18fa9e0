CONSTANTS
    Nodes = {n1, n2}
    Pods = {p1}
    Namespaces = {x1, x2}
    NodeShapes <- MCNodeShapes
    PodShapes <- MCPodShapes
    Tables <- MCTables
    TrackerLimit = 1
    MaxQueued = 1
    PodListLimit = 1
    MaxEvents = 3
    MaxHangs = 1
SPECIFICATION FairSpec
INVARIANT TotalsDoNotDrift
 
CHECK_DEADLOCK FALSE
