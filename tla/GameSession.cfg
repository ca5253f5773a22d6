SPECIFICATION FairSpec
CONSTANTS
    Clients = {c1, c2}
    Careful = {c1}
    Pieces = {"play", "leaderboard", "yes", "7"}
    Numbers = {"7"}
    Newline = "newline"
    MaxUnread = 2
INVARIANTS
    TypeOK
    InStep
PROPERTIES
    WordGameSpec
    HungUpLeaves
    AskedAgain
