SPECIFICATION Spec
CONSTANTS
    Games = {g1}
    Readers = {}
    Players = {ann, bob}
    NoOne = noOne
    Limit = 10
    MaxRounds = 1
    MaxUsers = 2
    MaxCrashes = 0
INVARIANT StoredWhole
CHECK_DEADLOCK FALSE
