CONSTANTS
    ByteBits = 2
    Bytes <- SmallBytes
    BaseDpi = 75
    MaxDoublings = 7
    Setups <- MCSetups
    OddTickets <- MCOddTickets
\* Errors in the access file end the server, and a connection ends.
CHECK_DEADLOCK FALSE
SPECIFICATION Spec
INVARIANTS AccessDecision ResolutionsOffered OfferedScannable SampleWidth
