\* Tool calls that hang, are cancelled, time out on a lock or die with the server, beside
\* views and waiting calls, on two pools of one worker and against the run log.
SPECIFICATION FairSpec
CONSTANTS
    Calls = {c1, c2}
    Exporter = Exporter
    NoRow = NoRow
    NoRecord = NoRecord
    NoBody = NoBody
    NoRun = NoRun
    NoSeal = NoSeal
    PendingMax = 2
    Kinds = {"tool", "view", "wait"}
    Workers = 1
    ReservedWorkers = 1
    ClassLimit = 1
    Attempts = 3
    RetriesPerCall = 1
    MaxFaults = 1
INVARIANTS
    TypeOK
    UnsealedIsAccountedFor
    HandedIdIsSealed
    LayerRowExists
    LossIsDisclosed
    OneExecutionOneRow
    WaitingIsExact
PROPERTIES
    ImplementsSealedLog
    AnswersAreSealed
    ViewsAreAnswered
CHECK_DEADLOCK FALSE
