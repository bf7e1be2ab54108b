SPECIFICATION RelayerSpec
CONSTANTS
    OENames = {alice}
    EnsNames = {vitalik}
    Keys = {k1}
    Nodes = {d1}
    Domains = {dom1}
    Invites = {i1}
    Deks = {dek1}
    Bridges = {b1}
    None = None
    MaxControllers = 2
    MaxNonce = 3
    MaxGeneration = 2
    MaxTime = 1
    MaxSigned = 1
    Calls = {c1, c2}
    Reads = {r1}
    alice = alice
    vitalik = vitalik
    k1 = k1
    d1 = d1
    dom1 = dom1
    i1 = i1
    dek1 = dek1
    b1 = b1
    c1 = c1
    c2 = c2
    r1 = r1
SYMMETRY Symmetry
INVARIANTS
    AcknowledgedOrOvertaken
    RetryIsHarmless
    NamesAnswerIsNotAhead
