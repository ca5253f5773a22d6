SPECIFICATION Spec
CONSTANTS
    Games = {g1, g2}
    Readers = {r1}
    Players = {ann, bob}
    NoOne = noOne
    Limit = 1
    MaxRounds = 2
    MaxUsers = 2
    MaxCrashes = 1
SYMMETRY Symmetry
INVARIANTS
    TypeOK
    WordsArePrefix
    NothingLost
    FlowWhole
    BoardFresh
    MutexExact
CHECK_DEADLOCK FALSE
