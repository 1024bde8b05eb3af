SPECIFICATION Spec
CONSTANTS
    Events = {e1, e2}
    ClientIds = {1}
    Notifiers = {n1}
    MaxConsumers = 2
    MaxFaults = 1
INVARIANTS
    TypeOK
    RowsAccountedFor
    CompletedLeavesNoRow
    HeldIdsWereGenerated
    BroadcastInOrder
    IInv
SYMMETRY Symmetry
