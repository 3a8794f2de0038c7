SPECIFICATION FairSpec
CONSTANTS
    Calls = {r1, r2}
    Conns = {k1, k2, k3}
    c1 = c1
    c2 = c2
    c3 = c3
    m1 = m1
    l1 = l1
    Certs <- MCCerts
    Modules <- MCModules
    Lessons <- MCLessons
    Seeds <- MCSeeds
    Buyer = buyer
    Visitor = visitor
    Author = admin
    Manager = admin
    t1 = t1
    t2 = t2
    Untitled = Untitled
    p1 = p1
    p2 = p2
    Titles <- MCTitles
    ProgramCodes <- MCProgramCodes
    Edits <- MCEdits
    Bodies <- MCBodies
    None = None
    MaxWrites = 2
    MaxLeaks = 1
INVARIANTS TypeOK IdentityIsolated ConnectionsReturn FewDuplicateCodes EnglishMirrorsTitle ContentForBuyers
PROPERTIES CompletionIsFinal RequestsEnd
CHECK_DEADLOCK FALSE
