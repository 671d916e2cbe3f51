SPECIFICATION Spec
CONSTANTS
    Broadcasts = {b1}
    Users = {u1}
    Tasks = {t1}
    BatchLimit = 1
    MaxRunning = 1
    MaxTries = 1
    MaxFailures = 1
    NoBroadcast = NoBroadcast
INVARIANTS
    NoDoubleSend
