SPECIFICATION FairSpec
CONSTANTS
    Tabs = {t1, t2}
    MaxGeneration = 2
    MaxKeys = 2
    MaxToggles = 1
    t1 = t1
    t2 = t2
INVARIANTS
    HeldKeyWasPublished
PROPERTIES
    OptOutStopsPublishing
    SwitchCatchesUp
CHECK_DEADLOCK FALSE
