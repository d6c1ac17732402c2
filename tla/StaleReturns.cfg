\* Two rows of one claim: the older one keeps the gate open after the newer goes stale.
SPECIFICATION Spec
CONSTANTS
    Procs = {p1}
    Terminals = {t1}
    Claims = {c1}
    MetricClaims = {}
    Texts = {"w"}
    Sources = {"a", "b"}
    RunSources = {}
    Contents = {"x"}
    Keys = {k1}
    Missing = Missing
    NoClaim = NoClaim
    None = None
    CiteSets <- CiteEach
    StatusInputs = {"supported"}
    MaxRevisions = 7
    MaxApprovals = 2
    MaxDay = 0
    MaxRevoked = 0
    Limit <- Calm
PROPERTIES
    StaleAlwaysNeedsRebinding
CHECK_DEADLOCK FALSE
