\* One job: the answer about a cancelled fetch.
CONSTANTS
    j1 = j1
    j2 = j2
    s1 = s1
    s2 = s2
    csi = csi
    None = None
    Jobs = {j1}
    Studies = {s1, s2}
    Scores = {csi}
    MaxDeaths = 1
    MaxChanges = 1
SPECIFICATION Spec
INVARIANTS
    FetchIsBacked
CHECK_DEADLOCK FALSE
