CONSTANTS
    Jobs = {j1, j2}
    Handlers = {h1, h2}
    Purge = Purge
    None = None
    Kinds = {"adfSingle"}
    MaxIdle = 0
    Sheets = 1
SPECIFICATION Safety
SYMMETRY Symmetry
INVARIANTS RefsExact FreshJobFound StatusTruthful
