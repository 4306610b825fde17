CONSTANTS
    Jobs = {j1}
    Handlers = {h1, h2}
    Purge = Purge
    None = None
    Kinds = {"single", "adfSingle"}
    MaxIdle = 1
    Sheets = 2
SPECIFICATION Spec
PROPERTIES SessionsEnd RequestsEnd
