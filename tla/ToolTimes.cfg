SPECIFICATION Spec
CONSTANTS
    k1 = k1  k2 = k2
    Conns = {k1, k2}
    InvokeLimits = {2, 25}
    ClientLimit = 24
    ApprovalLimit = 20
    CredentialLimit = 2
    ProviderLimit = 1
    TTL = 4
    MaxContainers = 2
SYMMETRY Slots
INVARIANTS TypeOK ClientOutwaitsBroker OrphanBounded LockoutBounded
