SPECIFICATION Spec
INVARIANT Dialogue
CONSTANTS
    Commands = {"client_ls", "getfile"}
    Files = {"good", "unreadable"}
    Faults = FALSE
    MaxCommands = 3
    MaxSessions = 2
CHECK_DEADLOCK FALSE
