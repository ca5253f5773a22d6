SPECIFICATION FairSpec
CONSTANTS
    Clients = {c1, c2}
    Empty = empty
    Names = {ann, empty}
    Passwords = {pwd, empty}
    MaxRuns = 2
INVARIANTS
    TypeOK
    PasswordsHold
    Authentic
    NoGhostLogin
    NameLockHolds
PROPERTIES
    RegistrySpec
    LoginEnds
