SPECIFICATION Spec
CONSTANTS
    Users = {host}
    Hosts = {host}
    NoUser = NoUser
    Requests = {r1, r2}
    Sweepers = {s1}
    CloseTask = task
    MaxInFlight = 2
    MaxRows = 2
    MaxEvents = 1
    MaxCrashes = 0
INVARIANT OneOpenRow
CHECK_DEADLOCK FALSE
