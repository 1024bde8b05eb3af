SPECIFICATION FairSpec
CONSTANTS
    MaxFaults = 4
INVARIANTS
    OneLiveSocket
    NeverStranded
    DisplayIsCurrent
    ReconnectsAreBounded
    IInv
PROPERTIES
    StaysConnected
