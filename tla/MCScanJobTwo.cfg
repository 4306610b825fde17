\* Two clients, whose requests overlap in every way.
CONSTANTS
    None = None
    Clients = {c1, c2}
    Height = 2
    MaxRows = 3
    MaxSheets = 2
SPECIFICATION Safety
SYMMETRY Symmetry
INVARIANTS GrantedOnce TruncatedNotCompleted ReleasedWhenOver
PROPERTY OverForGood
