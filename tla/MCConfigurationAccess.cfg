\* Ranges that end inside a byte, as fe80::/10 does.
CONSTANTS
    ByteBits = 2
    Bytes <- SmallBytes
    BaseDpi = 75
    MaxDoublings = 7
    Setups <- AnyLengthSetups
    OddTickets <- MCOddTickets
CHECK_DEADLOCK FALSE
SPECIFICATION Spec
INVARIANT AccessAsDocumented
