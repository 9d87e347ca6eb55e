SPECIFICATION Spec
CONSTANTS
    Requests = {r1}
    Workers = {w1, w2}
    Rails = {"INTERNAL_SIMULATED", "STRIPE", "PROGRAMMABLE_USDC"}
    SimulatedOutcomes = {"AUTHORIZED", "CAPTURED"}
    StripeStatuses = {"requires_payment_method", "succeeded", "canceled"}
    MaxAttempts = 3
    MaxIntents = 3
SYMMETRY WorkerSymmetry
CHECK_DEADLOCK FALSE
INVARIANTS
    TypeOK
    PaymentTablesAgree
    NoPaymentWithoutGrant
    ApprovalAgreesWithRequest
    StatusIsExplained
    AttemptsAreBackedByIntents
PROPERTY ImplementsPaymentRecord
