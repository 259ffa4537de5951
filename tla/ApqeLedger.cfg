\* Two configurations over two boots, and transactions of both in flight at once.
CONSTANTS
    SlotCount = 2
    Generations = 2
    MaxBoots = 2
    MaxTx = 4
    None = None
SPECIFICATION Spec
INVARIANTS
    IndexConsistent
    AckedIsStored
