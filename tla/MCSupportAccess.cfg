SPECIFICATION MCSpec
CONSTANTS
    o1 = o1
    o2 = o2
    Grants = {g1, g2}
    Operators = {o1, o2}
    Reviewers = {o1, o2}
    Campaigns = {c1}
    Workers = {w1, w2}
    Jobs = {"REVIEW", "RECERTIFY", "REVOKE", "ACTIVATE", "INSPECT", "SESSION"}
    ReviewTtl = 1
    Lookahead = 1
    MaxTime = 3
SYMMETRY AccessSymmetry
CHECK_DEADLOCK FALSE
INVARIANTS
    TypeOK
    AccessIsReviewed
    CompletedCampaignIsResolved
