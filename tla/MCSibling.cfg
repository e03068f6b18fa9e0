SPECIFICATION FairSpec
CONSTANTS
    b1 = b1  b2 = b2  b3 = b3  c1 = c1  c2 = c2  c3 = c3
    Binding = {b1, b2, b3}
    Cluster = {c1}
    None = None
    MaxPolicy = 3
    MaxSnapshot = 1
    Numbers = {1}
    Strategies = {"Apply"}
    PlacementType = "PickAll"
    Eligible <- FlipFlop
    BatchLimit = 1
    Untrackable <- NoCluster
    MaxUnavailable <- One
    MaxSurge <- One
    Budgets <- SiblingBudgets
INVARIANTS OneLivePerCluster NoBoundBesideDeleting
PROPERTIES ImplementsLifecycle Convergence
CHECK_DEADLOCK FALSE
