\* Basins stored over a study that had none.
SPECIFICATION Spec
CONSTANTS
    Calls = {c1, c2}
    Slots = {"twi"}
    Records = {}
    Values = {}
    Notes = {}
    Plans = {}
    Points = {a, b}
    Gauged = {}
    FirstFile <- Blank
    FirstOutline = NoBasin
    Clearable = {}
    Created = TRUE
    MaxEdits = 2
    MaxSaves = 4
    MaxCancels = 0
    NoteLimit = 3
    Absent = Absent
    Cleared = Cleared
    NoBasin = NoBasin
    Nobody = Nobody
INVARIANTS
    OneBasin
SYMMETRY AnyCall
CHECK_DEADLOCK FALSE
