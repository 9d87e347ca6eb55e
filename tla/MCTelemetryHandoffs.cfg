SPECIFICATION Spec
CONSTANTS
    Operators = {alice, bob}
    Scheduler = ws
    Policy = "manual"
    Threshold = 2
    Workers = {ws, w1, w2}
    MaxActions = 3
    MaxTurns = 1
    Nobody = Nobody
CHECK_DEADLOCK FALSE
SYMMETRY Interchangeable
INVARIANTS
    EscalationsAreDue
    OwnershipIsAChain
