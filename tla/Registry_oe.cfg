SPECIFICATION Spec
CONSTANTS
    OENames = {alice}
    EnsNames = {}
    Keys = {k1, k2, k3}
    Nodes = {d1}
    Domains = {dom1}
    Invites = {i1, i2}
    Deks = {dek1}
    Bridges = {b1}
    None = None
    MaxControllers = 2
    MaxNonce = 5
    MaxGeneration = 2
    MaxTime = 2
    MaxSigned = 4
    alice = alice
    k1 = k1
    k2 = k2
    k3 = k3
    d1 = d1
    dom1 = dom1
    i1 = i1
    i2 = i2
    dek1 = dek1
    b1 = b1
SYMMETRY Symmetry
INVARIANTS
    ControllersAreSound
    InviteUsedOnce
    OneWritePerNonce
    OptInHasCause
PROPERTIES
    OEIdsArePermanent
