SPECIFICATION MCSpec
CONSTANTS
    Accounts = {a1, a2}
    Clients = {a1}
    Users = {u1}
    Ids = {1, 2}
    Calls = {1, 2}
    MaxFaults = 1
    NoAccount = NoAccount
    NoId = 0
    Nobody = Nobody
INVARIANTS
    TypeOK
    WebhookLeadsHome
    AgreeAtRest
    IInv
PROPERTIES
    OutageIsFinal
    StuckForGood
    ImplementsDirectory
    ComesBack
    UpdateIsAnswered
CHECK_DEADLOCK FALSE
