SPECIFICATION FairSpec
CONSTANTS
    c1 = c1
    c2 = c2
    d1 = d1
    alice = alice
    room = room
    Local <- MCLocal
    Remote <- MCRemote
    NoSocket = NoSocket
    Users = {alice}
    Owner <- MCOwner
    Conversations = {room}
    MaxPending = 2
    MaxFaults = 1
INVARIANTS
    TypeOK
    QueueKeepsCount
    SubscribedToWanted
    NoLostWakeup
    OnlyOpenSockets
    NeverUndercounted
PROPERTIES
    Listening
    NotPinned
