\* One claim, one promotion: retraction and staleness without dead calls.
SPECIFICATION Spec
CONSTANTS
    Procs = {p1, p2}
    Terminals = {t1}
    Claims = {c1}
    MetricClaims = {}
    Texts = {"w"}
    Sources = {"a", "b"}
    RunSources = {"a"}
    Contents = {"x"}
    Keys = {k1}
    Missing = Missing
    NoClaim = NoClaim
    None = None
    CiteSets <- CiteEach
    StatusInputs = {"supported", "retracted"}
    MaxRevisions = 6
    MaxApprovals = 1
    MaxDay = 0
    MaxRevoked = 0
    Limit <- Calm
SYMMETRY AnyProc
INVARIANTS
    TypeOK
    GuardExcludes
    WithdrawalReachesRegistry
    NeverAssertsMore
    ChainIsCurrent
PROPERTIES
    RetractedStaysRetracted
    StaleNeedsRebinding
CHECK_DEADLOCK FALSE
