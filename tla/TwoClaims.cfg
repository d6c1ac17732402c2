\* A pass over the rows of two claims that rest on the same evidence.
SPECIFICATION Spec
CONSTANTS
    Procs = {p1}
    Terminals = {t1}
    Claims = {c1, c2}
    MetricClaims = {}
    Texts = {"w"}
    Sources = {"a"}
    RunSources = {"a"}
    Contents = {"x"}
    Keys = {k1}
    Missing = Missing
    NoClaim = NoClaim
    None = None
    CiteSets <- CiteOne
    StatusInputs = {"supported"}
    MaxRevisions = 4
    MaxApprovals = 2
    MaxDay = 0
    MaxRevoked = 0
    Limit <- Calm
SYMMETRY AnyClaim
INVARIANTS
    NeverAssertsMore
    ChainIsCurrent
CHECK_DEADLOCK FALSE
