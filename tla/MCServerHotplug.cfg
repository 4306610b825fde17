CONSTANTS
    Handlers = {h1}
    Notifiers = {usb}
    Terminators = {sig, usb, h1}
    Failures = FALSE
    Devices = {d1}
    NoEntry = NoEntry
    MaxAsks = 1
SPECIFICATION Spec
PROPERTY RescanOnHotplug
