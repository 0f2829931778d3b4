SPECIFICATION OrderlySpec
CONSTANTS
    k1 = k1
    k2 = k2
    alice = alice
    bob = bob
    None = None
    Keys = {k1, k2}
    Bidders = {alice}
    KeyOwner <- OneBidder
    Handlers = {h1, h2}
    Workers = {w1}
    Admins = {a1}
    Prices = {2, 3}
    RestQuotes = {}
    StartPrice = 1
    MinIncrement = 1
    ScheduledEnd = 1
    SniperWindow = 1
    SniperExtension = 2
    MaxExtensions = 1
    AdminMinutes = {1}
    AppClockSkew = 0
    MaxTime = 3
    ExtensionBound = 2
SYMMETRY KeySymmetry
CHECK_DEADLOCK FALSE
INVARIANTS
    LoadedRowIsCurrent
    PriceIsHighestBid
    CountsEveryBid
    EndingIsAnnounced
    ProlongationIsBounded
PROPERTIES
    NeverClosedEarly
    ImplementsEnglishAuction
