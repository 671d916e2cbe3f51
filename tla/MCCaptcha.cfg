SPECIFICATION FairSpec
CONSTANTS
    Users = {u1}
    Emojis = {e1, e2}
    Default = e1
    Calls = {h1, h2}
    Screens = {s1}
    MaxCards = 1
    MaxEvents = 1
    Nobody = Nobody
    NoEmoji = NoEmoji
INVARIANTS
    TypeOK
    PassedByARightAnswer
    IInv
PROPERTIES
    PassIsFinal
    ImplementsChallenge
    NeverLockedOut
