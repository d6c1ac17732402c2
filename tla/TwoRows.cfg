\* Two rows of one claim, both going stale: the claim does not follow the older one.
SPECIFICATION Spec
CONSTANTS
    Procs = {p1}
    Terminals = {t1}
    Claims = {c1}
    MetricClaims = {}
    Texts = {"w"}
    Sources = {"a", "b"}
    RunSources = {}
    Contents = {"x"}
    Keys = {k1}
    Missing = Missing
    NoClaim = NoClaim
    None = None
    CiteSets <- CiteEach
    StatusInputs = {"supported"}
    MaxRevisions = 8
    MaxApprovals = 2
    MaxDay = 0
    MaxRevoked = 0
    Limit <- Twice
INVARIANTS
    NeverAssertsMoreOfAny
CHECK_DEADLOCK FALSE
