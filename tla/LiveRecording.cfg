SPECIFICATION Spec
CONSTANTS
    Rooms = {room1, room2}
    NoRoom = NoRoom
    Egresses = {e1, e2}
    NoEgress = NoEgress
    Requests = {p1, p2}
    Cap = 1
    MaxWebhooks = 1
    MaxFaults = 1
SYMMETRY Symmetry
INVARIANTS TypeOK OverMeansStopped QuietRoomReleased
PROPERTIES NeverReopened ImplementsLifecycle
CHECK_DEADLOCK FALSE
