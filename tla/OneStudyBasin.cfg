\* Results and watersheds stored by overlapping calls.
SPECIFICATION Spec
CONSTANTS
    Calls = {c1, c2}
    Slots = {"twi", "cn"}
    Records = {}
    Values = {}
    Notes = {}
    Plans = {}
    Points = {a, b}
    Gauged = {g}
    FirstFile <- AtGauge
    FirstOutline <- Drawn
    Clearable = {"twi"}
    Created = TRUE
    MaxEdits = 2
    MaxSaves = 3
    MaxCancels = 0
    NoteLimit = 3
    Absent = Absent
    Cleared = Cleared
    NoBasin = NoBasin
    Nobody = Nobody
INVARIANTS
    OneBasin
SYMMETRY AnyCall
CHECK_DEADLOCK FALSE
