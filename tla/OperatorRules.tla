---------------------------- MODULE OperatorRules ----------------------------
(***************************************************************************)
(* How the operator workspace reads a request: the reconciliation state of *)
(* packages/domain/src/payments-workflow.ts and the exception classes of   *)
(* packages/domain/src/operator-workflow.ts.  "NONE" stands for a missing  *)
(* payment, receipt or fulfilment.                                         *)
(***************************************************************************)
EXTENDS Integers

(* What the rules look at, as one record.                                  *)
Signal(request, payment, receipt, fulfillment, paused, attemptCount) ==
    [request |-> request, payment |-> payment, receipt |-> receipt,
     fulfillment |-> fulfillment, paused |-> paused, attemptCount |-> attemptCount]

(* Faulty: a request still waiting for its approval may be paid.           *)
IsExecutionEligibleEarly(status) == status \in {"SUBMITTED", "APPROVED", "EXECUTING"}

IsExecutionEligible(status) == status \in {"APPROVED", "EXECUTING"}

IsRetryEligible(paymentStatus) == paymentStatus \in {"FAILED", "VOIDED"}

(* The first condition that holds decides.                                 *)
ReconciliationState(s) ==
    IF s.request = "APPROVED" /\ s.payment = "NONE" THEN "READY_TO_EXECUTE"
    ELSE IF s.request = "CANCELED" \/ s.payment = "VOIDED" THEN "CANCELED"
    ELSE IF "FAILED" \in {s.request, s.payment, s.receipt} THEN "FAILED"
    ELSE IF s.receipt = "AVAILABLE" THEN "RECEIPT_AVAILABLE"
    ELSE IF s.payment = "CAPTURED" /\ s.fulfillment # "DELIVERED"
         THEN "AWAITING_SELLER_CONFIRMATION"
    ELSE IF s.payment = "AUTHORIZED" THEN "AWAITING_SETTLEMENT"
    ELSE "AWAITING_PAYMENT_METHOD"

(* The exception class of a request, "NONE" when it needs no operator.     *)
ExceptionCategory(s, maxAttempts) ==
    IF s.paused THEN "REQUEST_PAUSED"
    ELSE IF s.receipt = "FAILED" THEN "RECEIPT_FAILURE"
    ELSE IF IsRetryEligible(s.payment)
         THEN IF s.attemptCount >= maxAttempts THEN "PAYMENT_RETRY_EXHAUSTED"
                                               ELSE "PAYMENT_FAILURE"
    ELSE IF ReconciliationState(s) = "AWAITING_SETTLEMENT" THEN "SETTLEMENT_DELAY"
    ELSE IF ReconciliationState(s) = "AWAITING_SELLER_CONFIRMATION"
         THEN "SELLER_CONFIRMATION_DELAY"
    ELSE IF s.receipt = "PENDING" /\ s.payment = "CAPTURED" THEN "RECEIPT_PENDING"
    ELSE "NONE"

(* deriveAtlasOperatorAvailableActions, for a case in the given status.    *)
AvailableActions(caseStatus, s) ==
    {"ANNOTATE_CASE"}
    \cup (IF caseStatus \in {"RESOLVED", "CLOSED"} THEN {} ELSE {"RESOLVE_CASE"})
    \cup (IF s.paused THEN {"RELEASE_REQUEST"}
          ELSE IF s.request \in {"COMPLETED", "CANCELED"} THEN {} ELSE {"PAUSE_REQUEST"})
    \cup (IF IsRetryEligible(s.payment) /\ ~s.paused THEN {"REQUEUE_PAYMENT"} ELSE {})

==============================================================================
