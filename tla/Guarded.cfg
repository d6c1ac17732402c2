\* Ledger tools under the guard beside tools that only save.
SPECIFICATION FairSpec
CONSTANTS
    Calls = {c1, c2}
    Slots = {}
    Records = {"workspace_dir"}
    Values = {v1}
    Notes = {}
    Plans = {p1, p2}
    Points = {}
    Gauged = {}
    FirstFile <- Blank
    FirstOutline = NoBasin
    Clearable = {}
    Created = TRUE
    MaxEdits = 2
    MaxSaves = 3
    MaxCancels = 1
    NoteLimit = 3
    Absent = Absent
    Cleared = Cleared
    NoBasin = NoBasin
    Nobody = Nobody
INVARIANTS
    GuardedUndisturbed
PROPERTIES
    PlanIsFinal
    GuardComesBack
CHECK_DEADLOCK FALSE
