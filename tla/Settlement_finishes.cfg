SPECIFICATION FairTimelySpec
CONSTANTS
    Deposits = {d1, d2}
    WinnerDeposit = d1
    InitialDeposits = {"held"}
    Workers = {w1, w2}
    None = None
    MaxRetries = 2
    ItemsPerTick = 1
    ItemsLimit = 2
CHECK_DEADLOCK FALSE
PROPERTIES
    ImplementsEscrow
    SettlementFinishes
INVARIANTS
    NoSecondCall
