SPECIFICATION FairSpec
CONSTANTS
    Frames = {f1, f2, f3}
    CloseFrame = c
    Page = page
    MaxThrows = 2
CHECK_DEADLOCK FALSE
INVARIANTS
    TypeOK
    IInv
PROPERTIES
    ImplementsFeed
    FramesAreHeard
    PollingGoesOn
