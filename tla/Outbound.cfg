SPECIFICATION Spec
CONSTANTS
    Jobs = {j1, j2}
    Files = {f1, f2}
    HourMax = 1
    DayMax = 1
    Hour = 1
    Day = 2
    Ttl = 1
    StageMax = 2
    MaxTime = 2
    MaxCrashes = 1
    None = None
    j1 = j1
    j2 = j2
    f1 = f1
    f2 = f2
SYMMETRY Symmetry
INVARIANTS
    RateHolds
    MetaImpliesBytes
    SentAsAsked
    ListedIsStaged
