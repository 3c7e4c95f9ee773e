SPECIFICATION FairSpec
INVARIANT TypeOK
INVARIANT EachByteOnce
INVARIANT ModeKnown
PROPERTY CallsEnd
CONSTANTS
    Platforms = {"posix", "windows"}
    Times = {0, 1, 4}
    Ms = 2
    Second = 4
    Size = 3
    Wants = {1, 2}
    Room = 2
CHECK_DEADLOCK FALSE
