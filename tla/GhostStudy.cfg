\* Refuted: a tool that records, called in a chat whose study was never saved, saves an empty one.
SPECIFICATION Spec
CONSTANTS
    Chats = {ch1}
    Studies = {s1}
    Dirs = {d1}
    Calls = {c1}
    Hosts = {}
    Known = {}
    Kinds = {"delineate", "archive"}
    None = None
    MaxProjects = 1
    MaxBindings = 1
    MaxCalls = 2
    MaxEdits = 0
    MaxKills = 0
PROPERTY RecordingCreatesNothing
CHECK_DEADLOCK FALSE
