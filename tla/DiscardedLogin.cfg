SPECIFICATION Spec
CONSTANTS
    Clients = {c1}
    Empty = empty
    Names = {ann, empty}
    Passwords = {pwd, empty}
    MaxRuns = 1
PROPERTY LoginLeadsToMenu
