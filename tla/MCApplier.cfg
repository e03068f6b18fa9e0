CONSTANTS
    ns = ns
    app = app
    Manifest <- MCManifest
    Wave <- MCWave
    Immutable = {ns}
    MaxVersion = 2
    Strategies <- MCStrategies
    Starts <- MCStarts
    MaxOwner = 2
    MaxEdits = 2
    MaxMeddles = 1
    MaxErrors = 1
    MaxLeaves = 1
SPECIFICATION FairSpec
INVARIANTS Tracked  
PROPERTIES DriftPreserved Converges
CHECK_DEADLOCK FALSE
