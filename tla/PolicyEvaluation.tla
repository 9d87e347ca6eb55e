-------------------------- MODULE PolicyEvaluation --------------------------
(***************************************************************************)
(* The policy evaluation of a spend request                                *)
(* (packages/domain/src/buyer-workflow.ts): the first rule a request       *)
(* breaks denies it; one that breaks none is approved at once when its     *)
(* amount is within the automatic threshold, and left to a human else.     *)
(***************************************************************************)
EXTENDS Integers, Sequences

(* Amounts are positive, so 0 stands for null: no maximum, and a threshold *)
(* nothing is within.                                                      *)
NoLimit == 0

RuleFields    == {"maxAmount", "autoApproval", "sellers", "services", "categories", "stop"}
AgentStatuses == {"DRAFT", "ACTIVE", "PAUSED", "DISABLED"}

(* The denials, in the order the evaluation looks for them.                *)
Denials ==
    <<"deny_emergency_stop", "deny_agent_inactive", "deny_amount_exceeded",
      "deny_seller_not_allowed", "deny_service_not_allowed",
      "deny_service_category_not_allowed">>

Outcomes == {Denials[i] : i \in DOMAIN Denials}
                \cup {"allow_auto_approved", "allow_requires_approval"}

(* An empty allowlist restricts nothing.                                   *)
Outside(x, allowlist) == allowlist # {} /\ x \notin allowlist

(* The emergency stop comes before everything the request says of itself.  *)
Denied(denial, agentStatus, p, rules) ==
    \/ denial = "deny_emergency_stop"      /\ rules.stop
    \/ denial = "deny_agent_inactive"      /\ agentStatus # "ACTIVE"
    \/ denial = "deny_amount_exceeded"     /\ rules.maxAmount # NoLimit /\ p.amount > rules.maxAmount
    \/ denial = "deny_seller_not_allowed"  /\ Outside(p.seller, rules.sellers)
    \/ denial = "deny_service_not_allowed" /\ Outside(p.service, rules.services)
    \/ denial = "deny_service_category_not_allowed" /\ Outside(p.category, rules.categories)

WithinThreshold(p, rules) == rules.autoApproval # NoLimit /\ p.amount <= rules.autoApproval

(* Faulty: a small amount is approved before any rule is looked at.        *)
EvaluateThresholdFirst(agentStatus, p, rules) ==
    IF WithinThreshold(p, rules) THEN "allow_auto_approved"
    ELSE IF \E i \in DOMAIN Denials : Denied(Denials[i], agentStatus, p, rules)
         THEN "deny_amount_exceeded" ELSE "allow_requires_approval"

Evaluate(agentStatus, p, rules) ==
    LET broken == {i \in DOMAIN Denials : Denied(Denials[i], agentStatus, p, rules)} IN
    IF broken # {} THEN Denials[CHOOSE i \in broken : \A j \in broken : i <= j]
    ELSE IF WithinThreshold(p, rules) THEN "allow_auto_approved"
    ELSE "allow_requires_approval"

(* The status of the request and of its approval that come with an outcome. *)
StatusOf(outcome) ==
    CASE outcome = "allow_auto_approved"     -> "APPROVED"
      [] outcome = "allow_requires_approval" -> "SUBMITTED"
      [] OTHER                               -> "REJECTED"

ApprovalOf(outcome) ==
    CASE outcome = "allow_auto_approved"     -> "APPROVED"
      [] outcome = "allow_requires_approval" -> "PENDING"
      [] OTHER                               -> "NONE"

EventOf(outcome) ==
    CASE outcome = "allow_auto_approved"     -> "approval_granted"
      [] outcome = "allow_requires_approval" -> "manual_approval_required"
      [] OTHER                               -> "request_rejected"

-----------------------------------------------------------------------------
(* What the rules mean, without the order they are looked at: the          *)
(* reference the evaluation is checked against.                            *)
Permits(agentStatus, p, rules) ==
    /\ ~rules.stop
    /\ agentStatus = "ACTIVE"
    /\ rules.maxAmount  \in {NoLimit} \cup p.amount..(p.amount + rules.maxAmount)
    /\ rules.sellers    = {} \/ p.seller   \in rules.sellers
    /\ rules.services   = {} \/ p.service  \in rules.services
    /\ rules.categories = {} \/ p.category \in rules.categories

(* A verdict agrees with the rules when it spends without a human only     *)
(* what they permit and the threshold covers, asks a human for the rest of *)
(* what they permit, and refuses exactly what they do not.                 *)
Agrees(status, agentStatus, p, rules) ==
    status = IF ~Permits(agentStatus, p, rules) THEN "REJECTED"
             ELSE IF p.amount <= rules.autoApproval THEN "APPROVED" ELSE "SUBMITTED"
=============================================================================
