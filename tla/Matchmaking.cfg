SPECIFICATION Spec
CONSTANTS
    Clients = {c1, c2, c3}
    Pause = 1
    MatchTimeout = 1
    PlayTimeout = 3
SYMMETRY Symmetry
CONSTRAINT FewGames
INVARIANTS
    TypeOK
    IInv
    ExclusiveSocket
    NoStaleEntry
    OnePlace
    PlayingSetExact
    TimeoutHitsFront
    NoLostWakeup
