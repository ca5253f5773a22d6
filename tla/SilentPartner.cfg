SPECIFICATION ServerFairSpec
CONSTANTS
    Clients = {c1, c2}
    Pause = 1
    MatchTimeout = 1
    PlayTimeout = 3
PROPERTY RoundEnds
