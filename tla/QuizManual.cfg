SPECIFICATION Spec
CONSTANTS
    right = right
    wrong = wrong
    Students = {s1, s2}
    NoStudent = NoStudent
    Questions = {essay}
    Descriptive = {essay}
    Values = {right, wrong}
    NoValue = NoValue
    Scores = {0, 1}
    Mark <- MCMark
    Rooms = {r1}
    NoRoom = NoRoom
    Requests = {p1, p2}
    Jobs = {j1}
    MaxRequests = 2
    MaxRetry = 1
    MaxFaults = 0

PROPERTY ManualIsSacred
SYMMETRY Symmetry
CHECK_DEADLOCK FALSE
