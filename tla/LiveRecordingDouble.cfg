SPECIFICATION Spec
CONSTANTS
    Rooms = {room1}
    NoRoom = NoRoom
    Egresses = {e1, e2}
    NoEgress = NoEgress
    Requests = {p1, p2}
    Cap = 2
    MaxWebhooks = 1
    MaxFaults = 0
SYMMETRY Symmetry
INVARIANT OneActivePerRoom
CHECK_DEADLOCK FALSE
