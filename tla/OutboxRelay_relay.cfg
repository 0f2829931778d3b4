SPECIFICATION FairSpec
CONSTANTS
    Events = {1, 2}
    Calls <- CallsOfEnd
    Replicas = {r1, r2}
    Connections = {c1, c2}
    None = None
    BatchSize = 1
    MaxAttempts = 2
    LockDepth = 2
    MaxFaults = 1
CHECK_DEADLOCK FALSE
INVARIANTS
    ProcessedWasDelivered
    OneRelayAtATime
    FirstAttemptsInOrder
    RepetitionIsBounded
PROPERTIES
    SettledStaysSettled
    EventSettles
