\* By hand, ends in a counterexample: a file edited between the two reads of
\* a call that names its run as parent.
SPECIFICATION Spec
CONSTANTS
    c1 = c1
    c2 = c2
    g1 = g1
    g2 = g2
    r1 = r1
    r2 = r2
    Calls = {c1, c2}
    Gauges = {g1, g2}
    Features = {g2}
    Periods = {"90s"}
    Revisions = {r1, r2}
    Elsewhere = Elsewhere
    None = None
    MaxCalls = 3
    MaxEdits = 1
    MaxClears = 1
INVARIANTS
    NeverUsesAChange
SYMMETRY Alike
CHECK_DEADLOCK FALSE
