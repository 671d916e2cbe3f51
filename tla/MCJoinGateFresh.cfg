SPECIFICATION Spec
CONSTANTS
    Users = {u1}
    Channels = {c1, c2}
    LinkOnly = {c2}
    Calls = {h1, h2}
    TTL = 2
    Lifetime = 1
    MaxRequests = 1
    MaxFaults = 0
    Nobody = Nobody
    Nowhere = Nowhere
SYMMETRY Symmetry
INVARIANTS
    IInv
    ApprovalIsFresh
