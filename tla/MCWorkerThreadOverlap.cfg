\* Two requests for the next document of one job, in any order.
CONSTANTS
    None = None
    Callers = {c1, c2}
    Overlap = TRUE
SPECIFICATION Spec
INVARIANT SlotFree
