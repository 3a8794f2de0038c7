SPECIFICATION Spec
CONSTANTS
    Users = {u1}
    Passwords = {p1, p2}
    Requests = {r1, r2}
    None = none
    Take = 50
    MaxRefresh = 3
    MaxLinks = 2
    MaxFaults = 1
SYMMETRY Symmetry
INVARIANTS TypeOK RotationIsLinear OneUsePerLink FewUsableLinks ChangeEndsOldSessions
PROPERTIES RevokedForGood
CHECK_DEADLOCK FALSE
