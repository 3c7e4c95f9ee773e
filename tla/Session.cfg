SPECIFICATION FairSpec
INVARIANT TypeOK
INVARIANT ReplyMatches
INVARIANT DialogueIfReadable
PROPERTY CommandEnds
PROPERTY ClientFollows
CONSTANTS
    Commands = {"client", "client_", "client_ls", "client_0", "client_5", "client_getfile", "client_disconnect", "getfile"}
    Files = {"good", "unreadable", "missing"}
    Faults = TRUE
    MaxCommands = 3
    MaxSessions = 2
CHECK_DEADLOCK FALSE
