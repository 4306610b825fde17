\* Requests for one job that do not overlap: the handshake is a synchronous call.
CONSTANTS
    None = None
    Callers = {c1, c2, c3}
    Overlap = FALSE
SPECIFICATION Spec
INVARIANT Handshake
PROPERTIES ImplementsSyncCall EveryCallReturns DestructorReturns
