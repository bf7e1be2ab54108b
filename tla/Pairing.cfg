SPECIFICATION FairSpec
CONSTANTS
    Names = {m}
    Devices = {g1, g2}
    Creds = {c1, c2}
    MaxSessions = 2
    MaxKeys = 2
    MaxWrites = 2
    None = None
    m = m
    g1 = g1
    g2 = g2
    c1 = c1
    c2 = c2
INVARIANTS
    ServesTheJoiner
    OneWrapPerSession
    DoneDeviceOpens
    DoneDeviceIsLinked
PROPERTIES
    GuestIsServed
CHECK_DEADLOCK FALSE
