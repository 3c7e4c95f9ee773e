SPECIFICATION FairSpec
PROPERTY Termination
PROPERTY BothReturn
PROPERTY AbstractTransfer
CONSTANTS
    Calls <- AllCalls
    PackSize = 2
    Attempts = 2
    Bodies <- MCBodies
    ZeroBody = "zero"
    TailOf <- MCTailOf
    Vanishers = {"sender", "receiver"}
    StreamsFail = FALSE
    MaxDamage = 2
    MaxChanged = 1
    MaxShort = 1
CHECK_DEADLOCK FALSE
