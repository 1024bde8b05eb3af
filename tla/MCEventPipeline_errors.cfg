SPECIFICATION FairSpec
CONSTANTS
    Events = {e1}
    ClientIds = {}
    Notifiers = {n1}
    MaxConsumers = 1
    MaxFaults = 1
PROPERTIES
    AllErrorsAreWritten
