SPECIFICATION Spec
CONSTANTS
    Operators = {alice}
    Scheduler = ws
    Policy = "monitor"
    Threshold = 2
    Workers = {ws, w1}
    MaxActions = 2
    MaxTurns = 1
    Nobody = Nobody
CHECK_DEADLOCK FALSE
INVARIANTS
    RemediationTypeOK
PROPERTIES
    NoticeFollowsTelemetry
