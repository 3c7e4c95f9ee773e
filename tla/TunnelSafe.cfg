SPECIFICATION Spec
INVARIANT TypeOK
INVARIANT PrefixDelivered
INVARIANT ReceiverVerdictSound
INVARIANT SenderVerdictSound
INVARIANT GiveUpTogether
INVARIANT CleanReturn
INVARIANT DriftBounded
CONSTANTS
    Calls <- TimedCalls
    PackSize = 2
    Attempts = 2
    Bodies <- MCBodies
    ZeroBody = "zero"
    TailOf <- MCTailOf
    Vanishers = {"sender", "receiver"}
    StreamsFail = TRUE
    MaxDamage = 2
    MaxChanged = 1
    MaxShort = 2
CHECK_DEADLOCK FALSE
