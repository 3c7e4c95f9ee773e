SPECIFICATION Spec
INVARIANT TypeOK
INVARIANT VerdictRight
CONSTANTS
    ByteBits = 8
    Poly <- Ethernet
    Top = 26
    Bytes <- SomeBytes
    MaxBytes = 5
CHECK_DEADLOCK FALSE
