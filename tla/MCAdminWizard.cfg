SPECIFICATION MCSpec
CONSTANTS
    Bots = {b1, b2}
    Channels = {c1, c2}
    Calls = {h1, h2}
    MaxEvents = 2
    MaxOverlaps = 1
    NoBot = NoBot
    NoChannel = NoChannel
SYMMETRY Symmetry
INVARIANTS
    TypeOK
    DraftIsComplete
    ButtonsRender
    RowsAreBounded
    TierIsOfItsBot
    RequirementsAreCheckable
    IInv
PROPERTIES
    ImplementsCatalogue
