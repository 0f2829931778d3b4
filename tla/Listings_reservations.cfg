SPECIFICATION Spec
CONSTANTS
    Sold = p1
    Parcels = {p1, p2}
    Reservations = {r1, r2}
    Users = {u1, u2}
    Calls = {c1, c2}
    Replicas = {w1}
    None = None
    MaxReservations = 1
    MaxChanges <- Changes
SYMMETRY Symmetry
CHECK_DEADLOCK FALSE
INVARIANTS
    OneReservationPerParcel
    LimitKeptInTurn
    StatusWasRecorded
PROPERTIES
    ReservedWhileActive
