SPECIFICATION FairBridgeSpec
CONSTANTS
    OENames = {}
    EnsNames = {vitalik}
    Keys = {k1}
    Nodes = {}
    Domains = {}
    Invites = {}
    Deks = {dek1, dek2}
    Bridges = {claim1}
    None = None
    MaxControllers = 1
    MaxNonce = 1
    MaxGeneration = 3
    MaxTime = 1
    MaxSigned = 0
    Owners = {o1, o2}
    Wrapper = wrapper
    Registries = {registry1, registry2}
    MaxAttested = 3
    ThisClaim = claim1
    ThisRegistry = registry1
    vitalik = vitalik
    k1 = k1
    dek1 = dek1
    dek2 = dek2
    claim1 = claim1
    o1 = o1
    o2 = o2
    wrapper = wrapper
    registry1 = registry1
    registry2 = registry2
INVARIANTS
    ClaimsAlternate
    NewestClaimWins
PROPERTIES
    ChainsAgreeInTheEnd
