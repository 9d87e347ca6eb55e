SPECIFICATION Spec
CONSTANTS
    Causes = {api}
    Owned = {api}
    Cadence = Cadence
    Unread = Unread
    Minimum = "critical"
    Policies = {"monitor", "recover"}
    Processes = {p1}
    Runs = {r1, r2}
    MaxChanges = 2
    None = None
CHECK_DEADLOCK FALSE
INVARIANTS
    TypeOK
    SingleFlight
    QuietSyncIsExact
PROPERTIES
    MonitoredIncidentsFollowAlerts
    DegradationIsReported
