SPECIFICATION Spec
INVARIANT SavedIsWhole
CONSTANTS
    FileSizes = {0, 1, 3}
    Percentages = {50, 100}
    PortMod = 8
    StartPorts = {1, 5}
    Deltas = {1}
    CmdPort = 3
    Occupiable = {}
    BindAttempts = 3
    Troubles = {{}, {"writing"}}
CHECK_DEADLOCK FALSE
