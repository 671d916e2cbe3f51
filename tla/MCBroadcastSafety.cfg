SPECIFICATION Spec
CONSTANTS
    Broadcasts = {b1, b2}
    Users = {u1, u2}
    Tasks = {t1, t2}
    BatchLimit = 1
    MaxRunning = 2
    MaxTries = 2
    MaxFailures = 1
    NoBroadcast = NoBroadcast
SYMMETRY Symmetry
INVARIANTS
    TypeOK
    BoundedDelivery
    LedgerAtomic
    SentMeansDelivered
    NoGhostCampaign
    IInv
PROPERTIES
    ClosedIsFinal
    LeftOutForGood
    ImplementsCampaign
