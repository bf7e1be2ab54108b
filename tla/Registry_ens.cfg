SPECIFICATION Spec
CONSTANTS
    OENames = {}
    EnsNames = {vitalik}
    Keys = {k1, k2}
    Nodes = {d1, d2}
    Domains = {dom1}
    Invites = {i1}
    Deks = {dek1, dek2}
    Bridges = {b1}
    None = None
    MaxControllers = 2
    MaxNonce = 3
    MaxGeneration = 2
    MaxTime = 2
    MaxSigned = 2
    vitalik = vitalik
    k1 = k1
    k2 = k2
    d1 = d1
    d2 = d2
    dom1 = dom1
    i1 = i1
    dek1 = dek1
    dek2 = dek2
    b1 = b1
SYMMETRY Symmetry
INVARIANTS
    DirectoryIsInverse
PROPERTIES
    ImplementsBook
