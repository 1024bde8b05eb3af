SPECIFICATION Spec
CONSTANTS
    Events = {e1, e2}
    ClientIds = {}
    Notifiers = {n1, n2}
    MaxConsumers = 2
    MaxFaults = 1
INVARIANTS
    AnnouncementsIdentifyEvents
    FailuresHaveACause
SYMMETRY Symmetry
