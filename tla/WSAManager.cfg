SPECIFICATION WSpec
INVARIANT OneOwner
INVARIANT NothingLost
INVARIANT FlagsAgree
INVARIANT WinsockUp
SYMMETRY Symmetry
CONSTANTS
    Objects = {o1, o2, o3}
    Impls = {p1, p2, p3}
    Fds = {d1, d2}
    ClientsMod = 8
    MaxStarts = 4
    MaxFrees = 6
CHECK_DEADLOCK FALSE
