\* A result computed for another basin than it is stamped with.
SPECIFICATION Spec
CONSTANTS
    Calls = {c1, c2}
    Slots = {"twi"}
    Records = {}
    Values = {}
    Notes = {}
    Plans = {}
    Points = {}
    Gauged = {a, b}
    FirstFile <- Blank
    FirstOutline = NoBasin
    Clearable = {}
    Created = TRUE
    MaxEdits = 2
    MaxSaves = 3
    MaxCancels = 0
    NoteLimit = 3
    Absent = Absent
    Cleared = Cleared
    NoBasin = NoBasin
    Nobody = Nobody
INVARIANTS
    ServedForItsBasin
SYMMETRY AnyCall
CHECK_DEADLOCK FALSE
