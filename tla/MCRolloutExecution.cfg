SPECIFICATION MCSpec
CONSTANTS
    c1 = c1
    c2 = c2
    c3 = c3
    rot = rot
    dep = dep
    ups = ups
    store = store
    k1 = k1
    k2 = k2
    Calls = {c1, c2, c3}
    Targets = {rot, dep, ups, store}
    KindOf <- MCKindOf
    Keys = {k1, k2}
    Required = {k1}
    Window = 0
    StoreProofs = TRUE
    MaxInFlight = 3
    MaxOf <- MCMaxOf
    Asked = {"PROVISION", "SUSPEND"}
    ModesOf <- MCModes
    LocalOf <- MCLocals
    SetUp = {dep, ups, store}
    Contested = {rot}
    NoTarget = NoTarget
SYMMETRY Symmetric
CHECK_DEADLOCK FALSE
INVARIANTS
    TypeOK
    LedgerRecordsWhatRan
    UsedTargetsWereVerified
    RowTellsAccount
PROPERTIES
    PromotionsAreProven
