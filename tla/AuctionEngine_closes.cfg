SPECIFICATION FairOrderlySpec
CONSTANTS
    k1 = k1
    k2 = k2
    alice = alice
    bob = bob
    None = None
    Keys = {k1}
    Bidders = {alice}
    KeyOwner <- OneKey
    Handlers = {h1}
    Workers = {w1, w2}
    Admins = {a1}
    Prices = {2}
    RestQuotes = {}
    StartPrice = 1
    MinIncrement = 1
    ScheduledEnd = 1
    SniperWindow = 1
    SniperExtension = 2
    MaxExtensions = 1
    AdminMinutes = {1}
    AppClockSkew = 0
    MaxTime = 3
    ExtensionBound = 1
CHECK_DEADLOCK FALSE
PROPERTIES
    AuctionCloses
