SPECIFICATION Spec
CONSTANTS
    Users = {u1}
    Passwords = {p1, p2}
    Requests = {r1, r2}
    None = none
    Take = 50
    MaxRefresh = 2
    MaxLinks = 1
    MaxFaults = 0
SYMMETRY Symmetry
INVARIANTS SignedOutOnChange
CHECK_DEADLOCK FALSE
