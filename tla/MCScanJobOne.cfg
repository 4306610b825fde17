\* One client, whose requests follow one another.
CONSTANTS
    None = None
    Clients = {c1}
    Height = 2
    MaxRows = 3
    MaxSheets = 3
SPECIFICATION Spec
INVARIANTS TypeOK SheetsAccounted NotLeftProcessing SessionUsable
PROPERTY EveryRequestAnswered
