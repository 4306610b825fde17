\* Images of two lines, up to four lines from the backend, three images.
CONSTANTS
    OutbufSize = 3
    Height = 2
    MaxRows = 4
    MaxFrames = 3
    Indeterminate = {0, 6}
\* The connection ends.
CHECK_DEADLOCK FALSE
SPECIFICATION Spec
INVARIANTS TypeOK WellFramed FlushedIsDelivered LastChunkMeansAll XrefExact DocumentSound
