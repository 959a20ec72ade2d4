SPECIFICATION Spec
CONSTANTS
    Users = {host, student}
    Hosts = {host}
    NoUser = NoUser
    Requests = {r1, r2}
    Sweepers = {s1}
    CloseTask = task
    MaxInFlight = 2
    MaxRows = 1
    MaxEvents = 1
    MaxCrashes = 1
SYMMETRY Symmetry
INVARIANTS TypeOK OneCloser OnlyLateJoinersStayOpen SteadyHostKeepsRoom
PROPERTIES ImplementsLifecycle TeardownOnce
CHECK_DEADLOCK FALSE
