SPECIFICATION Spec
CONSTANTS
    Deposits = {d1, d2}
    WinnerDeposit = d1
    InitialDeposits = {"collected", "held"}
    Workers = {w1, w2}
    None = None
    MaxRetries = 2
    ItemsPerTick = 1
    ItemsLimit = 2
SYMMETRY Symmetry
CHECK_DEADLOCK FALSE
INVARIANTS
    ManifestMatchesDeposits
    LedgerMatchesDeposits
