SPECIFICATION Spec
CONSTANTS
    NumClients = 1
    NumSlots = 1
    MaxMsgs = 1
    Banned = {1}
    MaxKicks = 0
    NoSlot = NoSlot
INVARIANTS
    HolderNeverWaits
