\* One dead call anywhere and a change of date, two approvals of one claim.
SPECIFICATION Spec
CONSTANTS
    Procs = {p1}
    Terminals = {t1}
    Claims = {c1}
    MetricClaims = {}
    Texts = {"w"}
    Sources = {"a"}
    RunSources = {"a"}
    Contents = {"x"}
    Keys = {k1}
    Missing = Missing
    NoClaim = NoClaim
    None = None
    CiteSets <- CiteOne
    StatusInputs = {"supported", "retracted"}
    MaxRevisions = 6
    MaxApprovals = 2
    MaxDay = 1
    MaxRevoked = 0
    Limit <- Crashes
INVARIANTS
    ApprovalSingleUse
    RowsApproved
    SavedIsRecorded
PROPERTIES
    ImplementsAuthority
    PassWithdrawsRetracted
CHECK_DEADLOCK FALSE
