SPECIFICATION FairSpec
CONSTANTS
    Cluster <- MCCluster
    Terms <- MCTerms
    Property <- MCProperty
    Profiles <- MCProfiles
    Changes <- MCChanges
    NewProfile <- MCNewProfile
    InitFleet <- MCInitFleet
    MaxSelectors = 2
    MaxSurprises = 1
    Annotations <- MCAnnotations
    UserSpecs <- MCUserSpecs
INVARIANTS ClaimBudget 
PROPERTIES Sticky Settles
CHECK_DEADLOCK FALSE
