CONSTANTS
    Devices = {d1, d2}
    Model <- SameModel
    MdnsAnnounce = TRUE
    CompatiblePath = TRUE
    MaxReloads = 1
    MaxClients = 2
    MaxNames = 2
SPECIFICATION Spec
SYMMETRY Symmetry
INVARIANTS NoDangling IdentitiesUnique ListedIsAnnounced
