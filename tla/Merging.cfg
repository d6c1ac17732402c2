\* Overlapping saves of records and notes lose nothing of each other.
SPECIFICATION Spec
CONSTANTS
    Calls = {c1, c2}
    Slots = {}
    Records = {"run_a"}
    Values = {v1, v2}
    Notes = {n1, n2}
    Plans = {}
    Points = {}
    Gauged = {}
    FirstFile <- Blank
    FirstOutline = NoBasin
    Clearable = {"run_a"}
    Created = TRUE
    MaxEdits = 2
    MaxSaves = 3
    MaxCancels = 0
    NoteLimit = 2
    Absent = Absent
    Cleared = Cleared
    NoBasin = NoBasin
    Nobody = Nobody
INVARIANTS
    TypeOK
PROPERTIES
    OwnEditsOnly
    EditsArrive
SYMMETRY AnyCall
CHECK_DEADLOCK FALSE
