SPECIFICATION FairSpec
CONSTANTS
    Users = {host}
    Hosts = {host}
    NoUser = NoUser
    Requests = {r1}
    Sweepers = {s1}
    CloseTask = task
    MaxInFlight = 3
    MaxRows = 1
    MaxEvents = 1
    MaxCrashes = 1
PROPERTIES HostlessRoomCloses TeardownCompletes
CHECK_DEADLOCK FALSE
