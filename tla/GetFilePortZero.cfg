SPECIFICATION Spec
INVARIANT ListenBeforeConnect
CONSTANTS
    FileSizes = {0, 1, 3}
    Percentages = {50, 100}
    PortMod = 6
    StartPorts = {1, 5}
    Deltas = {1, 5}
    CmdPort = 3
    Occupiable = {}
    BindAttempts = 3
    Troubles = {{}}
CHECK_DEADLOCK FALSE
