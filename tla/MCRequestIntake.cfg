SPECIFICATION Spec
CONSTANTS
    a1 = a1
    p1 = p1
    Requests = {r1, r2}
    Agents = {a1}
    Policies = {p1}
    NoPolicy = NoPolicy
    Keys = {k1}
    NoKey = NoKey
    k1 = k1
    Unbound = Unbound
    Calls <- MCCalls
    Payloads <- MCPayloads
    RuleSets <- MCRuleSets
    AgentInputs = {"ACTIVE", "PAUSED"}
    LinkInputs = {p1}
    PolicyInputs = {"ACTIVE", "ARCHIVED"}
    Workers = {w1, w2}
    MaxVersion = 2
SYMMETRY IntakeSymmetry
CHECK_DEADLOCK FALSE
INVARIANTS
    TypeOK
    VerdictIsExplained
PROPERTIES
    ImplementsKeyedIntake
    ImplementsCreation
