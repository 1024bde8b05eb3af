SPECIFICATION FairSpec
CONSTANTS
    Sessions = {s1, s2}
    Announcements = {l1}
    FrameSize = 2
    MaxClosings = 1
CHECK_DEADLOCK FALSE
INVARIANTS
    TypeOK
    FramesArriveWhole
    NoGaps
PROPERTIES
    ImplementsFeed
