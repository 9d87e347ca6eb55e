SPECIFICATION FairSpec
CONSTANTS
    Requests = {r1}
    Workers = {w1}
    Rails = {"INTERNAL_SIMULATED"}
    SimulatedOutcomes = {"CAPTURED"}
    StripeStatuses = {"requires_payment_method"}
    MaxAttempts = 3
    MaxIntents = 3
CHECK_DEADLOCK FALSE
PROPERTY CompletedPurchaseGetsReceipt
