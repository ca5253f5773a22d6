SPECIFICATION Spec
CONSTANTS
    Clients = {c1, c2}
    Empty = empty
    Names = {ann, empty}
    Passwords = {pwd, empty}
    MaxRuns = 1
INVARIANT SingleLogin
