\* Two connections and two requests to reload or stop, in every order.
CONSTANTS
    Handlers = {h1, h2}
    Notifiers = {usb}
    Terminators = {sig, usb, h1, h2}
    Failures = TRUE
    Devices = {d1}
    NoEntry = NoEntry
    MaxAsks = 2
SPECIFICATION Spec
INVARIANTS SaneRefsExact ScanKeepsHandle
PROPERTIES PurgeUndisturbed  ServesAgain
