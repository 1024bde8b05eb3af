SPECIFICATION FairSpec
CONSTANTS
    Events = {e1}
    ClientIds = {1}
    Notifiers = {n1, n2}
    MaxConsumers = 2
    MaxFaults = 3
INVARIANTS
    MishapsHaveACause
PROPERTIES
    ImplementsLifecycle
