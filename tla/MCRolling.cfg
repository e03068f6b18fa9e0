SPECIFICATION Spec
CONSTANTS
    b1 = b1  b2 = b2  b3 = b3  c1 = c1  c2 = c2  c3 = c3
    Binding = {b1, b2}
    Cluster = {c1, c2}
    None = None
    MaxPolicy = 1
    MaxSnapshot = 2
    Numbers = {1, 2}
    Strategies = {"Apply", "ReportDiff"}
    PlacementType = "PickN"
    Eligible <- Steady
    BatchLimit = 1
    Untrackable <- OneCluster
    MaxUnavailable <- Half
    MaxSurge <- One
    Budgets <- RolloutBudgets
SYMMETRY BindingSymmetry
INVARIANTS NoOrphanBinding 
PROPERTIES AvailabilityFloor SnapshotsMoveForward
CHECK_DEADLOCK FALSE
