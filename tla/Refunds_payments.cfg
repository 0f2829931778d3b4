SPECIFICATION FairRefundsSpec
CONSTANTS
    Payments = {p1}
    Handlers = {h1, h2}
    Workers = {w1}
    None = None
    Earlier = Earlier
    MaxFaults = 2
    Refunds = {f1, f2, f3}
    Refunded = p1
    Of <- OfRefunded
    Cents <- OneCent
    Amount = 2
CHECK_DEADLOCK FALSE
INVARIANTS
    OneProvisionPerKey
    EndedAsRecorded
    HeldMoneyIsKnown
    DepositIsPaid
    LedgerTellsStatus
    RefundsWithinAmount
    PaidBackIsRecorded
    StatusTellsRefunds
PROPERTIES
    TriggerNeverRaises
    AwaitingEnds
