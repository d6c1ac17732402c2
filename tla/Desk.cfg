\* Two chats and a host of a person work side by side on two studies in two folders.
SPECIFICATION Spec
CONSTANTS
    Chats = {ch1, ch2}
    Studies = {s1, s2}
    Dirs = {d1, d2}
    Calls = {c1, c2}
    Hosts = {h1}
    Known = {}
    Kinds = {"analyse", "delineate", "archive", "start", "rebind"}
    None = None
    MaxProjects = 2
    MaxBindings = 1
    MaxCalls = 2
    MaxEdits = 1
    MaxKills = 1
SYMMETRY Symmetry
INVARIANTS OneProjectPerDir InferredIsConfirmed
PROPERTIES OthersKeepTheirs TheirDefaultStays
CHECK_DEADLOCK FALSE
