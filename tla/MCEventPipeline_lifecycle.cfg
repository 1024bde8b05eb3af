SPECIFICATION FairSpec
CONSTANTS
    Events = {e1, e2}
    ClientIds = {1}
    Notifiers = {n1}
    MaxConsumers = 2
    MaxFaults = 0
PROPERTIES
    ImplementsLifecycle
    QueuedEventsSettle
    AcceptedEventsAreShown
