SPECIFICATION FairSpec
CONSTANTS
    Clients = {c1, c2}
    Pause = 1
    MatchTimeout = 1
    PlayTimeout = 3
PROPERTIES
    LobbySpec
    EntryServed
    JoinAnswered
    PartnerReleased
