SPECIFICATION FairSpec
CONSTANTS
    Broadcasts = {b1}
    Users = {u1, u2}
    Tasks = {t1, t2}
    BatchLimit = 2
    MaxRunning = 2
    MaxTries = 1
    MaxFailures = 1
    NoBroadcast = NoBroadcast
PROPERTIES
    ScheduledEventuallySent
