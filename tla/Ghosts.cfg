\* A call cancelled while it waits for a worker stays in the table of running tools.
SPECIFICATION Spec
CONSTANTS
    Calls = {c1, c2}
    Exporter = Exporter
    NoRow = NoRow
    NoRecord = NoRecord
    NoBody = NoBody
    NoRun = NoRun
    NoSeal = NoSeal
    PendingMax = 2
    Kinds = {"tool"}
    Workers = 1
    ReservedWorkers = 1
    ClassLimit = 1
    Attempts = 3
    RetriesPerCall = 1
    MaxFaults = 1
INVARIANTS
    RunningIsInFlight
CHECK_DEADLOCK FALSE
