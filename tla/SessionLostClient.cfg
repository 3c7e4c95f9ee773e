SPECIFICATION Spec
INVARIANT ServerSurvives
CONSTANTS
    Commands = {"client_ls", "client_disconnect"}
    Files = {"good"}
    Faults = FALSE
    MaxCommands = 3
    MaxSessions = 2
CHECK_DEADLOCK FALSE
