SPECIFICATION Spec
CONSTANTS
    u1 = u1
    u2 = u2
    m1 = m1
    m2 = m2
    Users = {u1, u2}
    Members = {m1, m2}
    UserOf <- MCUserOf
    Seeded = {m1}
    Subjects = {i1}
    Sessions = {s1, s2}
    Workers = {w1, w2}
    NoUser = NoUser
SYMMETRY SessionsSymmetry
CHECK_DEADLOCK FALSE
INVARIANTS
    TypeOK
    SubjectNamesOneUser
    SuspensionEndsSessions
    QuietCheckIsExact
