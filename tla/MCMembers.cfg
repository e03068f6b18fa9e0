SPECIFICATION FairSpec
CONSTANTS
    MaxCreates = 1
    MaxEdits = 1
    MaxFaults = 1
    MaxExpiries = 1
    MaxEvents = 1
INVARIANT NoMissedCluster
PROPERTIES ReleaseAfterLeave MembershipSettles
CHECK_DEADLOCK FALSE
