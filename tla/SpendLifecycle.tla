--------------------------- MODULE SpendLifecycle ---------------------------
(***************************************************************************)
(* The life of a spend request: policy verdict, human approval, payment    *)
(* execution, seller fulfilment and operator pause and release, as the     *)
(* handlers of packages/database/src run them against Postgres.            *)
(*                                                                         *)
(* Every handler is a prisma.$transaction at READ COMMITTED: it reads      *)
(* rows, checks what it read, and later writes by primary key without      *)
(* looking again.  A handler is therefore a few steps of a worker: its     *)
(* reads, kept in tx[w], then one commit that applies every write.  A      *)
(* unique constraint is tested at the commit; a transaction that meets a   *)
(* failed check, a duplicate, the interactive timeout or a crash rolls     *)
(* back (Abort).  Only the card provider's intents survive a rollback.     *)
(***************************************************************************)
EXTENDS FiniteSets, OperatorRules

CONSTANTS
    Requests,           \* the spend requests that may be created
    Workers,            \* API invocations that may be in flight together
    Rails,              \* payment rails the callers ask for
    SimulatedOutcomes,  \* what the simulated rail answers for a request
    StripeStatuses,     \* intent statuses Stripe may answer with
    MaxAttempts,        \* atlasPaymentMaximumAttemptCount
    MaxIntents          \* bound on provider intents, so that TLC terminates

RequestStatuses ==
    {"ABSENT", "SUBMITTED", "APPROVED", "REJECTED", "EXECUTING", "COMPLETED", "FAILED"}
ApprovalStatuses == {"NONE", "PENDING", "APPROVED", "REJECTED"}
Fulfillments     == {"NONE", "DELIVERED", "FAILED"}
PaymentStatuses  == {"PENDING", "AUTHORIZED", "CAPTURED", "FAILED", "VOIDED"}
ReceiptStatuses  == {"NONE", "PENDING", "AVAILABLE", "FAILED"}
ControlActions   == {"PAUSE_REQUEST", "RELEASE_REQUEST"}
AllRails         == {"INTERNAL_SIMULATED", "STRIPE", "PROGRAMMABLE_USDC"}
IntentStatuses   ==
    {"requires_payment_method", "requires_confirmation", "requires_action",
     "processing", "requires_capture", "succeeded", "canceled"}

ASSUME LifecycleAssumption ==
    /\ Rails \subseteq AllRails
    /\ SimulatedOutcomes \subseteq PaymentStatuses
    /\ StripeStatuses \subseteq IntentStatuses
    /\ MaxAttempts \in Nat \ {0}
    /\ MaxIntents \in Nat

VARIABLES
    requests,   \* SpendRequest: status, and the metadata the handlers use
    approvals,  \* Approval.status of the request's approval
    payments,   \* Payment of the request: rail and status
    attempts,   \* the PaymentAttempt rows
    receipts,   \* Receipt.status of the request's receipt
    audit,      \* event types of the request's AuditEvent rows
    cases,      \* whether an OperatorCase was ever opened for the request
    intents,    \* provider side: intents created for the request
    tx          \* what the transaction of each worker has read so far

vars == <<requests, approvals, payments, attempts, receipts, audit, cases, intents, tx>>

-----------------------------------------------------------------------------
(* Rows.                                                                   *)

RequestRow == [status: RequestStatuses, fulfillment: Fulfillments,
               paused: BOOLEAN, scenario: SimulatedOutcomes]

NoPayment  == [rail |-> "NONE", status |-> "NONE"]
PaymentRow == [rail: Rails, status: PaymentStatuses] \cup {NoPayment}

AttemptRow == [req: Requests, number: 1..MaxAttempts, rail: Rails, status: PaymentStatuses]

AuditTypes ==
    {"request_created", "policy_evaluated", "approval_granted", "approval_denied",
     "manual_approval_required", "request_rejected",
     "payment.intent_created", "payment.attempt_started", "payment.failed",
     "payment.authorized", "payment.pending", "payment.captured",
     "receipt.finalized", "seller_delivery_confirmed", "seller_delivery_failed"}

(* What a transaction knows, one shape for each point it can have reached. *)
Idle == [pc |-> "idle"]

ApprovalRead   == [pc: {"approvalRead"}, req: Requests]
RequestRead    == [pc: {"requestRead"}, req: Requests, rail: Rails, seen: RequestRow]
PaymentRead    == [pc: {"paymentRead"}, req: Requests, rail: Rails, seen: RequestRow,
                   payment: PaymentRow]
AttemptsRead   == [pc: {"attemptsRead"}, req: Requests, rail: Rails, seen: RequestRow,
                   payment: PaymentRow, number: 1..MaxAttempts, hasReceipt: BOOLEAN]
RailExecuted   == [pc: {"railExecuted"}, req: Requests, rail: Rails, seen: RequestRow,
                   payment: PaymentRow, number: 1..MaxAttempts, hasReceipt: BOOLEAN,
                   outcome: PaymentStatuses]
FulfilRead     == [pc: {"fulfilRead"}, req: Requests, seen: RequestRow]
ControlChecked == [pc: {"controlChecked"}, req: Requests, action: ControlActions]
ControlRead    == [pc: {"controlRead"}, req: Requests, action: ControlActions,
                   seen: RequestRow]

TxStates ==
    {Idle} \cup ApprovalRead \cup RequestRead \cup PaymentRead \cup AttemptsRead
           \cup RailExecuted \cup FulfilRead \cup ControlChecked \cup ControlRead

AttemptsOf(r)   == {a \in attempts : a.req = r}
AttemptCount(r) == Cardinality(AttemptsOf(r))

TypeOK ==
    /\ requests  \in [Requests -> RequestRow]
    /\ approvals \in [Requests -> ApprovalStatuses]
    /\ payments  \in [Requests -> PaymentRow]
    /\ attempts  \subseteq AttemptRow
    /\ receipts  \in [Requests -> ReceiptStatuses]
    /\ audit     \in [Requests -> SUBSET AuditTypes]
    /\ cases     \in [Requests -> BOOLEAN]
    /\ intents   \in [Requests -> 0..MaxIntents]
    /\ tx        \in [Workers -> TxStates]

(* The scenario of a request (its scenario key, category and amount) never *)
(* changes, so it is chosen before the request exists.                     *)
Init ==
    /\ requests  \in [Requests -> [status: {"ABSENT"}, fulfillment: {"NONE"},
                                   paused: {FALSE}, scenario: SimulatedOutcomes]]
    /\ approvals = [r \in Requests |-> "NONE"]
    /\ payments  = [r \in Requests |-> NoPayment]
    /\ attempts  = {}
    /\ receipts  = [r \in Requests |-> "NONE"]
    /\ audit     = [r \in Requests |-> {}]
    /\ cases     = [r \in Requests |-> FALSE]
    /\ intents   = [r \in Requests |-> 0]
    /\ tx        = [w \in Workers |-> Idle]

Begin(w, state)   == tx[w] = Idle /\ tx' = [tx EXCEPT ![w] = state]
Proceed(w, state) == tx' = [tx EXCEPT ![w] = state]
Finish(w)         == tx' = [tx EXCEPT ![w] = Idle]
Record(r, events) == audit' = [audit EXCEPT ![r] = @ \cup events]

-----------------------------------------------------------------------------
(* createBuyerRequest: the verdict of the policy decides the status, and   *)
(* whether an approval row is created with it.                             *)
VerdictEvent(verdict) ==
    CASE verdict = "APPROVED"  -> "approval_granted"
      [] verdict = "SUBMITTED" -> "manual_approval_required"
      [] verdict = "REJECTED"  -> "request_rejected"

VerdictApproval(verdict) ==
    CASE verdict = "APPROVED"  -> "APPROVED"
      [] verdict = "SUBMITTED" -> "PENDING"
      [] verdict = "REJECTED"  -> "NONE"

CreateRequest(r, verdict) ==
    /\ requests[r].status = "ABSENT"
    /\ requests'  = [requests EXCEPT ![r].status = verdict]
    /\ approvals' = [approvals EXCEPT ![r] = VerdictApproval(verdict)]
    /\ Record(r, {"request_created", "policy_evaluated", VerdictEvent(verdict)})
    /\ UNCHANGED <<payments, attempts, receipts, cases, intents, tx>>

-----------------------------------------------------------------------------
(* decideBuyerApproval.                                                    *)
ReadApproval(w, r) ==
    /\ approvals[r] = "PENDING"
    /\ Begin(w, [pc |-> "approvalRead", req |-> r])
    /\ UNCHANGED <<requests, approvals, payments, attempts, receipts, audit, cases, intents>>

CommitDecision(w, decision) ==
    LET r == tx[w].req IN
    /\ tx[w].pc = "approvalRead"
    /\ approvals' = [approvals EXCEPT ![r] = decision]
    /\ requests'  = [requests EXCEPT ![r].status = decision]
    /\ Record(r, {IF decision = "APPROVED" THEN "approval_granted" ELSE "approval_denied"})
    /\ Finish(w)
    /\ UNCHANGED <<payments, attempts, receipts, cases, intents>>

-----------------------------------------------------------------------------
(* executePayment.  Prisma loads a relation with a SELECT of its own, so   *)
(* the request, its payment, and the attempts and receipt are three reads, *)
(* each of what is committed when it runs.                                 *)
ReadRequest(w, r, rail) ==
    /\ ~requests[r].paused
    /\ IsExecutionEligible(requests[r].status)
    /\ Begin(w, [pc |-> "requestRead", req |-> r, rail |-> rail, seen |-> requests[r]])
    /\ UNCHANGED <<requests, approvals, payments, attempts, receipts, audit, cases, intents>>

(* Faulty: a retry may name another rail.                                  *)
MayPayAgainOnAnyRail(payment, rail) ==
    payment # NoPayment => IsRetryEligible(payment.status)

MayPayAgain(payment, rail) ==
    payment # NoPayment => IsRetryEligible(payment.status) /\ payment.rail = rail

ReadPayment(w) ==
    LET t == tx[w]  payment == payments[t.req] IN
    /\ t.pc = "requestRead"
    /\ MayPayAgain(payment, t.rail)
    /\ Proceed(w, [pc |-> "paymentRead", req |-> t.req, rail |-> t.rail, seen |-> t.seen,
                   payment |-> payment])
    /\ UNCHANGED <<requests, approvals, payments, attempts, receipts, audit, cases, intents>>

(* Without a payment row there is nothing to load the attempts of.         *)
AttemptsSeen(t) == IF t.payment = NoPayment THEN {} ELSE AttemptsOf(t.req)

IsLatest(a, rows) == a \in rows /\ \A b \in rows : b.number <= a.number

NextAttemptNumber(rows, number) ==
    IF rows = {} THEN number = 1 ELSE \E a \in rows : IsLatest(a, rows) /\ number = a.number + 1

ReadAttempts(w) ==
    LET t == tx[w]  rows == AttemptsSeen(t) IN
    /\ t.pc = "paymentRead"
    /\ Cardinality(rows) < MaxAttempts
    /\ \E number \in 1..MaxAttempts :
          /\ NextAttemptNumber(rows, number)
          /\ Proceed(w, [pc |-> "attemptsRead", req |-> t.req, rail |-> t.rail,
                         seen |-> t.seen, payment |-> t.payment, number |-> number,
                         hasReceipt |-> receipts[t.req] # "NONE"])
    /\ UNCHANGED <<requests, approvals, payments, attempts, receipts, audit, cases, intents>>

RailAnswers(w, outcome) ==
    LET t == tx[w] IN
    /\ t.pc = "attemptsRead"
    /\ Proceed(w, [pc |-> "railExecuted", req |-> t.req, rail |-> t.rail, seen |-> t.seen,
                   payment |-> t.payment, number |-> t.number, hasReceipt |-> t.hasReceipt,
                   outcome |-> outcome])

(* The outcome follows from the request alone: a retry answers the same.   *)
ExecuteSimulatedRail(w) ==
    /\ RailAnswers(w, tx[w].seen.scenario)
    /\ tx[w].rail = "INTERNAL_SIMULATED"
    /\ UNCHANGED <<requests, approvals, payments, attempts, receipts, audit, cases, intents>>

NormalizeStripeStatus(status) ==
    CASE status = "requires_capture" -> "AUTHORIZED"
      [] status = "succeeded"        -> "CAPTURED"
      [] status = "canceled"         -> "VOIDED"
      [] OTHER                       -> "PENDING"

(* Faulty: a retry is recorded without a new intent.                       *)
ExecuteStripeRailOnce(w, status) ==
    LET r == tx[w].req IN
    /\ RailAnswers(w, NormalizeStripeStatus(status))
    /\ tx[w].rail = "STRIPE"
    /\ intents[r] < MaxIntents
    /\ intents' = [intents EXCEPT ![r] = IF tx[w].number = 1 THEN @ + 1 ELSE @]
    /\ UNCHANGED <<requests, approvals, payments, attempts, receipts, audit, cases>>

(* paymentIntents.create carries no idempotency key: each call is a new    *)
(* intent, and it stands whether or not this transaction commits.          *)
ExecuteStripeRail(w, status) ==
    LET r == tx[w].req IN
    /\ RailAnswers(w, NormalizeStripeStatus(status))
    /\ tx[w].rail = "STRIPE"
    /\ intents[r] < MaxIntents
    /\ intents' = [intents EXCEPT ![r] = @ + 1]
    /\ UNCHANGED <<requests, approvals, payments, attempts, receipts, audit, cases>>

(* Wallets and the organisation's settings are another component: when     *)
(* they refuse, the transaction aborts.                                    *)
ExecuteProgrammableRail(w) ==
    /\ RailAnswers(w, IF tx[w].seen.status # "EXECUTING" THEN "CAPTURED" ELSE "AUTHORIZED")
    /\ tx[w].rail = "PROGRAMMABLE_USDC"
    /\ UNCHANGED <<requests, approvals, payments, attempts, receipts, audit, cases, intents>>

(* Faulty: a captured payment completes the request by itself.             *)
StatusAfterPaymentAlone(outcome, fulfillment) ==
    CASE outcome \in {"FAILED", "VOIDED"} -> "FAILED"
      [] outcome = "CAPTURED"             -> "COMPLETED"
      [] OTHER                            -> "EXECUTING"

StatusAfterPayment(outcome, fulfillment) ==
    IF outcome \in {"FAILED", "VOIDED"} THEN "FAILED"
    ELSE IF outcome = "CAPTURED" /\ fulfillment = "DELIVERED" THEN "COMPLETED"
    ELSE IF outcome = "CAPTURED" /\ fulfillment = "FAILED" THEN "FAILED"
    ELSE "EXECUTING"

(* Faulty: the receipt does not wait for the delivery.                     *)
ReceiptStatusOnCapture(outcome, fulfillment) ==
    IF outcome \in {"FAILED", "VOIDED"} \/ fulfillment = "FAILED" THEN "FAILED"
    ELSE IF outcome = "CAPTURED" THEN "AVAILABLE"
    ELSE "PENDING"

ReceiptStatusFor(outcome, fulfillment) ==
    IF outcome \in {"FAILED", "VOIDED"} \/ fulfillment = "FAILED" THEN "FAILED"
    ELSE IF outcome = "CAPTURED" /\ fulfillment = "DELIVERED" THEN "AVAILABLE"
    ELSE "PENDING"

PaymentEvents(t, receipt) ==
    {"payment.attempt_started"}
    \cup (IF t.payment = NoPayment THEN {"payment.intent_created"} ELSE {})
    \cup {CASE t.outcome = "FAILED"     -> "payment.failed"
            [] t.outcome = "AUTHORIZED" -> "payment.authorized"
            [] t.outcome = "PENDING"    -> "payment.pending"
            [] OTHER                    -> "payment.captured"}
    \cup (IF receipt \in {"AVAILABLE", "FAILED"} THEN {"receipt.finalized"} ELSE {})

(* Faulty: attempts without the unique index.                              *)
NoDuplicatePayment(t) ==
    /\ t.payment = NoPayment => payments[t.req] = NoPayment
    /\ ~t.hasReceipt => receipts[t.req] = "NONE"

(* Payment.requestId, PaymentAttempt(paymentId, attemptNumber) and         *)
(* Receipt.requestId are unique.                                           *)
NoDuplicateRow(t) ==
    /\ t.payment = NoPayment => payments[t.req] = NoPayment
    /\ ~\E a \in AttemptsOf(t.req) : a.number = t.number
    /\ ~t.hasReceipt => receipts[t.req] = "NONE"

(* Faulty: the payment keeps the status it was created with.               *)
PaidRowAsCreated(t) ==
    [rail |-> t.rail, status |-> IF t.payment = NoPayment THEN "PENDING" ELSE t.payment.status]

PaidRow(t) == [rail |-> t.rail, status |-> t.outcome]

CommitPayment(w) ==
    LET t       == tx[w]
        r       == t.req
        receipt == ReceiptStatusFor(t.outcome, t.seen.fulfillment)
    IN
    /\ t.pc = "railExecuted"
    /\ NoDuplicateRow(t)
    /\ attempts' = attempts \cup {[req |-> r, number |-> t.number, rail |-> t.rail,
                                   status |-> t.outcome]}
    /\ payments' = [payments EXCEPT ![r] = PaidRow(t)]
    /\ requests' = [requests EXCEPT ![r].status =
                        StatusAfterPayment(t.outcome, t.seen.fulfillment)]
    /\ receipts' = [receipts EXCEPT ![r] = receipt]
    /\ Record(r, PaymentEvents(t, receipt))
    /\ Finish(w)
    /\ UNCHANGED <<approvals, cases, intents>>

-----------------------------------------------------------------------------
(* recordSellerRequestFulfillment.  The whole metadata document is written *)
(* back as it was read, with the fulfilment added.                         *)
(* Faulty: the statuses a seller lists as pending, not those to finalize.  *)
IsFulfillmentPending(status) == status \in {"SUBMITTED", "APPROVED", "EXECUTING"}

IsFulfillmentAllowed(status) == status \in {"APPROVED", "EXECUTING"}

ReadForFulfillment(w, r) ==
    /\ IsFulfillmentAllowed(requests[r].status)
    /\ Begin(w, [pc |-> "fulfilRead", req |-> r, seen |-> requests[r]])
    /\ UNCHANGED <<requests, approvals, payments, attempts, receipts, audit, cases, intents>>

(* Faulty: the seller's word written as the status of the request.         *)
StatusAsReported(fulfillment) == fulfillment

StatusAfterFulfillment(fulfillment) ==
    IF fulfillment = "DELIVERED" THEN "COMPLETED" ELSE "FAILED"

CommitFulfillment(w, fulfillment) ==
    LET t == tx[w] IN
    /\ t.pc = "fulfilRead"
    /\ requests' = [requests EXCEPT ![t.req] =
            [t.seen EXCEPT !.status = StatusAfterFulfillment(fulfillment),
                           !.fulfillment = fulfillment]]
    /\ Record(t.req, {IF fulfillment = "DELIVERED" THEN "seller_delivery_confirmed"
                                                   ELSE "seller_delivery_failed"})
    /\ Finish(w)
    /\ UNCHANGED <<approvals, payments, attempts, receipts, cases, intents>>

-----------------------------------------------------------------------------
(* classifyAtlasOperatorException is not null: the next sync of the        *)
(* operator workspace opens a case for the request.                        *)
SignalOf(r) ==
    Signal(requests[r].status, payments[r].status, receipts[r],
           requests[r].fulfillment, requests[r].paused, AttemptCount(r))

OpenCase(r) ==
    /\ ~cases[r]
    /\ ExceptionCategory(SignalOf(r), MaxAttempts) # "NONE"
    /\ cases' = [cases EXCEPT ![r] = TRUE]
    /\ UNCHANGED <<requests, approvals, payments, attempts, receipts, audit, intents, tx>>

(* performOperatorCaseAction: the action is checked against the case as    *)
(* listed, before the transaction that reads the metadata and writes it    *)
(* back with the operator controls replaced.                               *)
CheckControl(w, r, action) ==
    /\ cases[r]
    /\ action \in AvailableActions("OPEN", SignalOf(r))
    /\ Begin(w, [pc |-> "controlChecked", req |-> r, action |-> action])
    /\ UNCHANGED <<requests, approvals, payments, attempts, receipts, audit, cases, intents>>

ReadForControl(w) ==
    LET t == tx[w] IN
    /\ t.pc = "controlChecked"
    /\ Proceed(w, [pc |-> "controlRead", req |-> t.req, action |-> t.action,
                   seen |-> requests[t.req]])
    /\ UNCHANGED <<requests, approvals, payments, attempts, receipts, audit, cases, intents>>

CommitControl(w) ==
    LET t == tx[w] IN
    /\ t.pc = "controlRead"
    /\ requests' = [requests EXCEPT ![t.req].fulfillment = t.seen.fulfillment,
                                    ![t.req].paused = (t.action = "PAUSE_REQUEST")]
    /\ Finish(w)
    /\ UNCHANGED <<approvals, payments, attempts, receipts, audit, cases, intents>>

-----------------------------------------------------------------------------
(* A conflict answer, a duplicate row, a rail that refuses, the interactive *)
(* transaction timeout, a lost connection or a crash: nothing is written.  *)
Abort(w) ==
    /\ tx[w] # Idle
    /\ Finish(w)
    /\ UNCHANGED <<requests, approvals, payments, attempts, receipts, audit, cases, intents>>

-----------------------------------------------------------------------------
(* One worker going on with the transaction it is in.                      *)
Continue(w) ==
    \/ \E decision \in {"APPROVED", "REJECTED"} : CommitDecision(w, decision)
    \/ ReadPayment(w)
    \/ ReadAttempts(w)
    \/ ExecuteSimulatedRail(w)
    \/ \E status \in StripeStatuses : ExecuteStripeRail(w, status)
    \/ ExecuteProgrammableRail(w)
    \/ CommitPayment(w)
    \/ \E fulfillment \in {"DELIVERED", "FAILED"} : CommitFulfillment(w, fulfillment)
    \/ ReadForControl(w)
    \/ CommitControl(w)
    \/ Abort(w)

(* A caller handing a worker a new request to serve.                       *)
Serve(w) ==
    \E r \in Requests :
        \/ ReadApproval(w, r)
        \/ \E rail \in Rails : ReadRequest(w, r, rail)
        \/ ReadForFulfillment(w, r)
        \/ \E action \in ControlActions : CheckControl(w, r, action)

Next ==
    \/ \E r \in Requests, verdict \in {"APPROVED", "SUBMITTED", "REJECTED"} :
          CreateRequest(r, verdict)
    \/ \E r \in Requests : OpenCase(r)
    \/ \E w \in Workers : Serve(w) \/ Continue(w)

Spec == Init /\ [][Next]_vars

(* A handler that has begun comes to an end: the process runs it, or the   *)
(* transaction timeout does.  Callers owe nothing.                         *)
FairSpec == Spec /\ \A w \in Workers : WF_vars(Continue(w))

-----------------------------------------------------------------------------
(* Safety.                                                                 *)

(* The attempts of a payment are numbered 1, 2, ... without a gap or a     *)
(* repeated number and never exceed the cap, although executePayment       *)
(* computes the number from rows it read before other executions committed.*)
AttemptsAreSequential ==
    \A r \in Requests :
        /\ {a.number : a \in AttemptsOf(r)} = 1..AttemptCount(r)
        /\ AttemptCount(r) <= MaxAttempts

(* Payment.status, overwritten by every execution, is always the outcome   *)
(* of the latest attempt, and a payment row exists exactly when an attempt *)
(* does.                                                                   *)
PaymentMirrorsLatestAttempt ==
    \A r \in Requests :
        /\ payments[r] = NoPayment <=> AttemptsOf(r) = {}
        /\ \A a \in AttemptsOf(r) : IsLatest(a, AttemptsOf(r)) => payments[r].status = a.status

(* Retries stay on the rail of the first attempt (payments-workflow.ts     *)
(* 1021), whatever rails the concurrent callers asked for.                 *)
RailIsLocked ==
    \A r \in Requests : \A a \in AttemptsOf(r) : a.rail = payments[r].rail

(* The receipt exists exactly when the payment does and never claims more  *)
(* than the payment supports: AVAILABLE needs a captured payment and a     *)
(* delivery the seller confirmed, a failed payment means a failed receipt. *)
ReceiptIsBackedByPayment ==
    \A r \in Requests :
        /\ receipts[r] = "NONE" <=> payments[r] = NoPayment
        /\ receipts[r] = "AVAILABLE" =>
              payments[r].status = "CAPTURED" /\ "seller_delivery_confirmed" \in audit[r]
        /\ IsRetryEligible(payments[r].status) => receipts[r] = "FAILED"

(* The tables of the payments agree in every state, not only between the   *)
(* executions that computed their rows from what they had read: attempts,  *)
(* payment, rail and receipt of each request, as stated above.             *)
PaymentTablesAgree ==
    /\ AttemptsAreSequential
    /\ PaymentMirrorsLatestAttempt
    /\ RailIsLocked
    /\ ReceiptIsBackedByPayment

(* No payment is attempted for a request nobody and no policy approved;    *)
(* the grant is in the audit trail even when a later decision overwrote    *)
(* the approval row.                                                       *)
NoPaymentWithoutGrant ==
    \A r \in Requests : AttemptsOf(r) # {} => "approval_granted" \in audit[r]

(* The approval and the request, two rows written by different handlers,   *)
(* agree on whether a decision is open and on whether it was granted.      *)
ApprovalAgreesWithRequest ==
    \A r \in Requests :
        /\ requests[r].status = "SUBMITTED" <=> approvals[r] = "PENDING"
        /\ requests[r].status = "APPROVED" => approvals[r] = "APPROVED"

(* A status that closes or advances a request is always explained by       *)
(* evidence in other tables: delivery for COMPLETED, a failed delivery or  *)
(* payment for FAILED, a payment for EXECUTING.                            *)
StatusIsExplained ==
    \A r \in Requests :
        /\ requests[r].status = "COMPLETED" => "seller_delivery_confirmed" \in audit[r]
        /\ requests[r].status = "FAILED" =>
              \/ "seller_delivery_failed" \in audit[r]
              \/ \E a \in AttemptsOf(r) : IsRetryEligible(a.status)
        /\ requests[r].status = "EXECUTING" => payments[r] # NoPayment

(* Every recorded card attempt has a provider intent of its own: the       *)
(* ledger never shows more card attempts than the provider does.           *)
AttemptsAreBackedByIntents ==
    \A r \in Requests : Cardinality({a \in AttemptsOf(r) : a.rail = "STRIPE"}) <= intents[r]

-----------------------------------------------------------------------------
(* Refinement.                                                             *)

Ledger == INSTANCE PaymentRecord

(* The payment, attempt and receipt tables implement the abstract record:  *)
(* every commit adds exactly one attempt, the next one, on the locked rail *)
(* and sets payment and receipt with it; every other step leaves all three.*)
ImplementsPaymentRecord == Ledger!RecordSpec

-----------------------------------------------------------------------------
(* What the documents promise and the handlers do not keep.                *)

(* "A durable receipt can be generated from a completed request": captured *)
(* and delivered, in whichever order, leads to an available receipt.       *)
CompletedPurchaseGetsReceipt ==
    \A r \in Requests :
        requests[r].status = "COMPLETED" /\ payments[r].status = "CAPTURED"
            ~> receipts[r] = "AVAILABLE"

=============================================================================
