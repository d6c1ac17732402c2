\* The first save of an object that found no file.
SPECIFICATION Spec
CONSTANTS
    Calls = {c1, c2}
    Slots = {}
    Records = {"workspace_dir"}
    Values = {v1}
    Notes = {}
    Plans = {p1}
    Points = {}
    Gauged = {}
    FirstFile <- Blank
    FirstOutline = NoBasin
    Clearable = {}
    Created = FALSE
    MaxEdits = 2
    MaxSaves = 3
    MaxCancels = 0
    NoteLimit = 3
    Absent = Absent
    Cleared = Cleared
    NoBasin = NoBasin
    Nobody = Nobody
PROPERTIES
    PlanIsFinal
SYMMETRY AnyCall
CHECK_DEADLOCK FALSE
