SPECIFICATION Spec
CONSTANTS
    Certs = {1, 2, 3}
    CreatedAt <- MCCreatedAt
    EnMatches = {1, 2}
    TitleMatches = {1, 2}
    Limit = 1
    MaxEdits = 2
    None = None
INVARIANTS OnlyActive
CHECK_DEADLOCK FALSE
