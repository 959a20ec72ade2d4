SPECIFICATION Spec
CONSTANTS
    Rooms = {room1}
    NoRoom = NoRoom
    Egresses = {e1}
    NoEgress = NoEgress
    Requests = {p1, p2}
    Cap = 1
    MaxWebhooks = 1
    MaxFaults = 0
SYMMETRY Symmetry
PROPERTY WebhookIsFinal
CHECK_DEADLOCK FALSE
