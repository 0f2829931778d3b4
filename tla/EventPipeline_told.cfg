SPECIFICATION FairPipelineSpec
CONSTANTS
    Events = {1}
    Calls <- CallsOfEnd
    Replicas = {r1}
    Connections = {c1}
    None = None
    BatchSize = 1
    MaxAttempts = 1
    LockDepth = 1
    MaxFaults = 1
    Rows = {1}
    Senders = {w1, w2}
    SendAttempts = 2
    SendBatch = 1
    MaxSendFaults = 1
    Personal <- PersonalCalls
    RowsOf <- RowsOfEnd
CHECK_DEADLOCK FALSE
INVARIANTS
    SendingIsBounded
    ProcessedIsQueued
PROPERTIES
    UserIsTold
    NotificationSettles
