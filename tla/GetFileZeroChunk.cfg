SPECIFICATION Spec
INVARIANT NoMutualWait
CONSTANTS
    FileSizes = {1, 3}
    Percentages = {0, 10}
    PortMod = 6
    StartPorts = {1, 5}
    Deltas = {1}
    CmdPort = 3
    Occupiable = {}
    BindAttempts = 3
    Troubles = {{}}
CHECK_DEADLOCK FALSE
