SPECIFICATION Spec
CONSTANTS
    Requests = {r1}
    Ledgers <- MCLedgers
    FirstLedger <- MCFirst
    MaxAttempts = 3
    Actions = {"RESOLVE_CASE", "PAUSE_REQUEST", "RELEASE_REQUEST", "REQUEUE_PAYMENT"}
    Workers = {w1, w2}
    MaxServed = 3
SYMMETRY CasesSymmetry
CHECK_DEADLOCK FALSE
INVARIANTS
    TypeOK
    CleanSyncIsExact
