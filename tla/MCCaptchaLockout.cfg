SPECIFICATION Spec
CONSTANTS
    Users = {u1}
    Emojis = {e1, e2}
    Default = e1
    Calls = {h1}
    Screens = {s1, s2}
    MaxCards = 1
    MaxEvents = 2
    Nobody = Nobody
    NoEmoji = NoEmoji
INVARIANTS
    RetriesCanSucceed
