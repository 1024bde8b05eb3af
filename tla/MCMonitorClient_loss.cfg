SPECIFICATION FairSpec
CONSTANTS
    MaxFaults = 1
PROPERTIES
    LossIsNoticed
