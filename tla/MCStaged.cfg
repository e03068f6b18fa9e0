CONSTANTS
    r1 = r1
    r2 = r2
    c1 = c1
    c2 = c2
    c3 = c3
    None = None
    Run = {r1, r2}
    Cluster = {c1, c2, c3}
    Order <- MCOrder
    Stages <- TwoStages
    Labels <- TwoLabels
    DeleteGate = TRUE
    Target <- Apart
    Starts <- MCStarts
SPECIFICATION FairSpec
INVARIANTS  WaitHonoured
PROPERTIES StagesGated SucceedsOnTarget RunSettles
CHECK_DEADLOCK FALSE
