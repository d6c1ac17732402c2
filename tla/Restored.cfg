\* Evidence goes and comes back; the session file, the key and the date change.
SPECIFICATION Spec
CONSTANTS
    Procs = {p1}
    Terminals = {t1}
    Claims = {c1}
    MetricClaims = {c1}
    Texts = {"w"}
    Sources = {"a"}
    RunSources = {"a"}
    Contents = {"x"}
    Keys = {k1}
    Missing = Missing
    NoClaim = NoClaim
    None = None
    CiteSets <- CiteOne
    StatusInputs = {"supported", "tested"}
    MaxRevisions = 6
    MaxApprovals = 2
    MaxDay = 1
    MaxRevoked = 1
    Limit <- Restored
PROPERTIES
    PromotionIsLive
CHECK_DEADLOCK FALSE
