SPECIFICATION UndisturbedSpec
CONSTANTS
    Games = {g1, g2}
    Readers = {r1}
    Players = {ann, bob, cid}
    NoOne = noOne
    Limit = 1
    MaxRounds = 2
    MaxUsers = 1
    MaxCrashes = 0
SYMMETRY Symmetry
INVARIANTS
    BoardConsistent
    StoredWhole
PROPERTY LedgerSpec
CHECK_DEADLOCK FALSE
