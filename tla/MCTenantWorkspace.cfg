SPECIFICATION MCSpec
CONSTANTS
    b1 = b1
    b2 = b2
    s1 = s1
    s2 = s2
    home = home
    q1 = q1
    q2 = q2
    q3 = q3
    g1 = g1
    g2 = g2
    None = None
    Buyers = {b1, b2}
    Sellers = {s1, s2}
    Operator = home
    Requests = {q1, q2, q3}
    BuyerOf <- MCBuyerOf
    SellerOf <- MCSellerOf
    DemoScenarios <- MCDemoScenarios
    MaxCards = 2
    Tokens <- MCTokens
    Grants = {g1, g2}
    TargetOf <- MCTargetOf
    Addresses = {a1, a2}
    ServiceKeys = {k1}
    ServiceIds = {v1, v2}
    Workers = {w1, w2}
    MaxCalls = 3
    MaxReads = 2
SYMMETRY WorkspaceSymmetry
CHECK_DEADLOCK FALSE
INVARIANTS
    TypeOK
    AnswersStayInTenant
    LinksOpen
    SupportReadsAreAccountable
    QuietDefaultIsUnique
PROPERTIES
    WritesStayHome
