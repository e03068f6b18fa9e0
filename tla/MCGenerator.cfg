SPECIFICATION FairSpec
CONSTANTS
    Layout <- MCLayout
    EnvelopeIn <- MCEnvelopeIn
    NoEnvelope = 9
    Content <- MCContent
    Overridden <- MCOverridden
    Overrides = {0, 1}
    Bad <- MCBad
    Strategies = {"ClientSideApply", "ReportDiff"}
    Targets <- MCTargets
    Reports = {"Available", "Diffed"}
    MaxEdits = 2
    MaxMeddles = 1
    MaxErrors = 1
    MaxEvents = 2
INVARIANTS SyncedIsCurrent ReportIsEarned
PROPERTY Converges
CHECK_DEADLOCK FALSE
