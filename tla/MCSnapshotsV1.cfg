SPECIFICATION FairSpec
CONSTANTS
    Contents = {1, 2, 3}
    PartsOf <- Sizes
    RevisionLimit = 1
    MaxPolicies = 2
    Surprises <- Kinds
    MaxSurprises = 2
INVARIANTS
    NewestComplete
PROPERTIES
    Settles
CHECK_DEADLOCK FALSE
