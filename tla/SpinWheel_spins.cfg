SPECIFICATION Spec
CONSTANTS
    Campaigns = {k1}
    Results = {x1, x2, x3, x4}
    Users = {u1, u2}
    Calls = {c1, c2}
    Limits = {1, 2}
    Cooldown = 1
    MaxTime = 1
    None = None
SYMMETRY Symmetry
CHECK_DEADLOCK FALSE
INVARIANTS
    LimitPassedByCallsOnly
    UsesWereSpun
