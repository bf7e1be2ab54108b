SPECIFICATION FairSpec
CONSTANTS
    OENames = {}
    EnsNames = {vitalik}
    Keys = {k1}
    Nodes = {node}
    MaxControllers = 1
    MaxGeneration = 2
    ThisNode = node
    Sessions = {s1, s2}
    Sizes = {2, 3}
    Cap = 2
    MaxRecipients = 1
    MaxMails = 2
    None = None
    vitalik = vitalik
    k1 = k1
    node = node
    s1 = s1
    s2 = s2
INVARIANTS
    RowsAreDistinct
    NoDanglingRow
    AnsweredMailIsKept
    OvershootIsBounded
PROPERTIES
    OptOutStopsIndexing
    SessionsAreAnswered
