SPECIFICATION Spec
CONSTANTS
    Games = {g1}
    Readers = {r1}
    Players = {ann, bob}
    NoOne = noOne
    Limit = 10
    MaxRounds = 1
    MaxUsers = 0
    MaxCrashes = 0
PROPERTY InputEndsNobody
CHECK_DEADLOCK FALSE
