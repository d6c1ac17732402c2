\* Every call comes back and every saved retraction is carried out.
SPECIFICATION FairSpec
CONSTANTS
    Procs = {p1, p2}
    Terminals = {t1}
    Claims = {c1}
    MetricClaims = {}
    Texts = {"w"}
    Sources = {"a"}
    RunSources = {"a"}
    Contents = {"x"}
    Keys = {k1}
    Missing = Missing
    NoClaim = NoClaim
    None = None
    CiteSets <- CiteOne
    StatusInputs = {"supported", "retracted"}
    MaxRevisions = 5
    MaxApprovals = 1
    MaxDay = 0
    MaxRevoked = 0
    Limit <- Calm
PROPERTIES
    CallsReturn
    RetractionCompletes
CHECK_DEADLOCK FALSE
