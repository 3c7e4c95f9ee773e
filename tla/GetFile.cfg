SPECIFICATION FairSpec
INVARIANT TypeOK
INVARIANT ListensWhereTold
INVARIANT ConnectionIsAccepted
INVARIANT WrittenIsWhole
PROPERTY WholeTransfer
PROPERTY Completes
PROPERTY OnlyAcceptHangs
CONSTANTS
    FileSizes = {0, 1, 3, 4}
    Percentages = {0, 34, 50, 100}
    PortMod = 12
    StartPorts = {0, 1, 3, 7}
    Deltas = {0, 1, 2, 11}
    CmdPort = 3
    Occupiable = {4, 5}
    BindAttempts = 3
    Troubles = {{}, {"peers"}, {"peers", "reading"}, {"peers", "writing"}}
CHECK_DEADLOCK FALSE
