SPECIFICATION Spec
CONSTANTS
    NumClients = 2
    NumSlots = 2
    MaxMsgs = 2
    Banned = {2}
    MaxKicks = 1
    NoSlot = NoSlot
CHECK_DEADLOCK FALSE
INVARIANTS
    TransportSound
PROPERTIES
    KeepsContract
