SPECIFICATION Spec
CONSTANTS
    Users = {u1}
    Channels = {c1}
    LinkOnly = {}
    Calls = {h1}
    TTL = 1
    Lifetime = 1
    MaxRequests = 1
    MaxFaults = 0
    Nobody = Nobody
    Nowhere = Nowhere
INVARIANTS
    ApprovalIsOfTheMoment
