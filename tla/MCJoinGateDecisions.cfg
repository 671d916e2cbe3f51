SPECIFICATION FairSpec
CONSTANTS
    Users = {u1}
    Channels = {c1}
    LinkOnly = {}
    Calls = {h1, h2}
    TTL = 1
    Lifetime = 0
    MaxRequests = 1
    MaxFaults = 1
    Nobody = Nobody
    Nowhere = Nowhere
INVARIANTS
    TypeOK
    AuditIsSound
    RequestNotForgotten
PROPERTIES
    RequestIsDecided
    ImplementsGate
