\* Two jobs of any kinds on one or two studies; a process may be killed and a
\* study cleared or given another watershed once.
CONSTANTS
    j1 = j1
    j2 = j2
    s1 = s1
    s2 = s2
    csi = csi
    None = None
    Jobs = {j1, j2}
    Studies = {s1, s2}
    Scores = {csi}
    MaxDeaths = 1
    MaxChanges = 1
SPECIFICATION FairSpec
INVARIANTS
    ResultIsBacked
PROPERTIES
    JobIsHeardOf
CHECK_DEADLOCK FALSE
