SPECIFICATION Spec
CONSTANTS
    k1 = k1
    k2 = k2
    alice = alice
    bob = bob
    None = None
    Keys = {k1, k2}
    Bidders = {alice}
    KeyOwner <- OneBidder
    Handlers = {h1}
    Workers = {w1}
    Admins = {a1}
    Prices = {2, 3}
    RestQuotes = {2}
    StartPrice = 1
    MinIncrement = 1
    ScheduledEnd = 1
    SniperWindow = 1
    SniperExtension = 1
    MaxExtensions = 1
    AdminMinutes = {1}
    AppClockSkew = 1
    MaxTime = 2
    ExtensionBound = 1
SYMMETRY KeySymmetry
CHECK_DEADLOCK FALSE
INVARIANTS
    WinnerIsHighestBid
