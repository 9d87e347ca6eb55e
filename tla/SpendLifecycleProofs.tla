------------------------ MODULE SpendLifecycleProofs ------------------------
(***************************************************************************)
(* Proofs about SpendLifecycle, for any number of requests, concurrent     *)
(* invocations and attempts.                                               *)
(***************************************************************************)
EXTENDS SpendLifecycle, FiniteSetTheorems, TLAPS

-----------------------------------------------------------------------------
(* Type correctness.                                                       *)

(* The point a transaction has reached tells what it has read.             *)
LEMMA TxShape ==
    ASSUME TypeOK, NEW w \in Workers
    PROVE  /\ tx[w].pc = "approvalRead" => tx[w] \in ApprovalRead
           /\ tx[w].pc = "requestRead" => tx[w] \in RequestRead
           /\ tx[w].pc = "paymentRead" => tx[w] \in PaymentRead
           /\ tx[w].pc = "attemptsRead" => tx[w] \in AttemptsRead
           /\ tx[w].pc = "railExecuted" => tx[w] \in RailExecuted
           /\ tx[w].pc = "fulfilRead" => tx[w] \in FulfilRead
           /\ tx[w].pc = "controlChecked" => tx[w] \in ControlChecked
           /\ tx[w].pc = "controlRead" => tx[w] \in ControlRead
<1>1. tx[w] \in TxStates
  BY DEF TypeOK
<1> QED
  BY <1>1 DEF TxStates, Idle, ApprovalRead, RequestRead, PaymentRead, AttemptsRead,
              RailExecuted, FulfilRead, ControlChecked, ControlRead

(* Before the first request every row and every transaction is well typed. *)
LEMMA InitTypeOK == Init => TypeOK
<1> SUFFICES ASSUME Init PROVE TypeOK
  OBVIOUS
<1>1. requests \in [Requests -> RequestRow]
  BY DEF Init, RequestRow, RequestStatuses, Fulfillments
<1>2. intents \in [Requests -> 0..MaxIntents]
  BY LifecycleAssumption DEF Init
<1>3. tx \in [Workers -> TxStates]
  BY DEF Init, TxStates
<1>4. payments \in [Requests -> PaymentRow]
  BY DEF Init, PaymentRow
<1>5. /\ approvals \in [Requests -> ApprovalStatuses]
      /\ receipts \in [Requests -> ReceiptStatuses]
      /\ audit \in [Requests -> SUBSET AuditTypes]
      /\ cases \in [Requests -> BOOLEAN]
      /\ attempts \subseteq AttemptRow
  BY DEF Init, ApprovalStatuses, ReceiptStatuses
<1> QED
  BY <1>1, <1>2, <1>3, <1>4, <1>5 DEF TypeOK

(* createBuyerRequest writes well typed rows, whatever the verdict.        *)
LEMMA CreateRequestTypeOK ==
    ASSUME TypeOK, NEW r \in Requests, NEW verdict \in {"APPROVED", "SUBMITTED", "REJECTED"},
           CreateRequest(r, verdict)
    PROVE  TypeOK'
<1>1. VerdictApproval(verdict) \in ApprovalStatuses /\ VerdictEvent(verdict) \in AuditTypes
  BY DEF VerdictApproval, VerdictEvent, ApprovalStatuses, AuditTypes
<1>2. requests' \in [Requests -> RequestRow]
  BY DEF TypeOK, CreateRequest, RequestRow, RequestStatuses
<1>3. audit' \in [Requests -> SUBSET AuditTypes]
  BY <1>1 DEF TypeOK, CreateRequest, Record, AuditTypes
<1> QED
  BY <1>1, <1>2, <1>3 DEF TypeOK, CreateRequest

Tables == <<requests, approvals, payments, attempts, receipts, audit, cases, intents>>

(* A step that only moves one transaction on keeps every type.             *)
LEMMA MoveTypeOK ==
    ASSUME TypeOK, NEW w \in Workers, NEW state \in TxStates,
           tx' = [tx EXCEPT ![w] = state], UNCHANGED Tables
    PROVE  TypeOK'
<1>1. tx' \in [Workers -> TxStates]
  BY DEF TypeOK
<1> QED
  BY <1>1 DEF TypeOK, Tables

(* The first read of a handler gives its transaction one of the known      *)
(* shapes.                                                                 *)
LEMMA ServeTypeOK ==
    ASSUME TypeOK, NEW w \in Workers, Serve(w)
    PROVE  TypeOK'
<1> PICK r \in Requests :
        \/ ReadApproval(w, r)
        \/ \E rail \in Rails : ReadRequest(w, r, rail)
        \/ ReadForFulfillment(w, r)
        \/ \E action \in ControlActions : CheckControl(w, r, action)
  BY DEF Serve
<1>1. CASE ReadApproval(w, r)
  <2>1. [pc |-> "approvalRead", req |-> r] \in TxStates
    BY DEF TxStates, ApprovalRead
  <2> QED
    BY <1>1, <2>1, MoveTypeOK DEF ReadApproval, Begin, Tables
<1>2. ASSUME NEW rail \in Rails, ReadRequest(w, r, rail) PROVE TypeOK'
  <2>1. [pc |-> "requestRead", req |-> r, rail |-> rail, seen |-> requests[r]] \in TxStates
    BY DEF TxStates, RequestRead, TypeOK
  <2> QED
    BY <1>2, <2>1, MoveTypeOK DEF ReadRequest, Begin, Tables
<1>3. CASE ReadForFulfillment(w, r)
  <2>1. [pc |-> "fulfilRead", req |-> r, seen |-> requests[r]] \in TxStates
    BY DEF TxStates, FulfilRead, TypeOK
  <2> QED
    BY <1>3, <2>1, MoveTypeOK DEF ReadForFulfillment, Begin, Tables
<1>4. ASSUME NEW action \in ControlActions, CheckControl(w, r, action) PROVE TypeOK'
  <2>1. [pc |-> "controlChecked", req |-> r, action |-> action] \in TxStates
    BY DEF TxStates, ControlChecked
  <2> QED
    BY <1>4, <2>1, MoveTypeOK DEF CheckControl, Begin, Tables
<1> QED
  BY <1>1, <1>2, <1>3, <1>4

(* A rail's answer gives an execution the shape of an executed one.        *)
LEMMA RailAnswersTypeOK ==
    ASSUME TypeOK, NEW w \in Workers, NEW outcome \in PaymentStatuses, RailAnswers(w, outcome)
    PROVE  tx' \in [Workers -> TxStates]
<1>1. tx[w] \in AttemptsRead
  BY TxShape DEF RailAnswers
<1>2. [pc |-> "railExecuted", req |-> tx[w].req, rail |-> tx[w].rail, seen |-> tx[w].seen,
       payment |-> tx[w].payment, number |-> tx[w].number, hasReceipt |-> tx[w].hasReceipt,
       outcome |-> outcome] \in TxStates
  BY <1>1 DEF TxStates, AttemptsRead, RailExecuted
<1> QED
  BY <1>2 DEF RailAnswers, Proceed, TypeOK

(* The steps of executePayment up to its commit.                           *)
PaymentStep(w) ==
    \/ ReadPayment(w)
    \/ ReadAttempts(w)
    \/ ExecuteSimulatedRail(w)
    \/ \E status \in StripeStatuses : ExecuteStripeRail(w, status)
    \/ ExecuteProgrammableRail(w)

(* The reads of executePayment and its rail call keep every type.          *)
LEMMA PaymentReadTypeOK ==
    ASSUME TypeOK, NEW w \in Workers, PaymentStep(w)
    PROVE  TypeOK'
<1>1. CASE ReadPayment(w)
  <2>1. tx[w] \in RequestRead
    BY <1>1, TxShape DEF ReadPayment
  <2>2. [pc |-> "paymentRead", req |-> tx[w].req, rail |-> tx[w].rail, seen |-> tx[w].seen,
         payment |-> payments[tx[w].req]] \in TxStates
    BY <2>1 DEF TxStates, RequestRead, PaymentRead, TypeOK
  <2> QED
    BY <1>1, <2>2, MoveTypeOK DEF ReadPayment, Proceed, Tables
<1>2. CASE ReadAttempts(w)
  <2>1. tx[w] \in PaymentRead
    BY <1>2, TxShape DEF ReadAttempts
  <2>2. PICK number \in 1..MaxAttempts :
            tx' = [tx EXCEPT ![w] = [pc |-> "attemptsRead", req |-> tx[w].req,
                       rail |-> tx[w].rail, seen |-> tx[w].seen, payment |-> tx[w].payment,
                       number |-> number, hasReceipt |-> receipts[tx[w].req] # "NONE"]]
    BY <1>2 DEF ReadAttempts, Proceed
  <2>3. [pc |-> "attemptsRead", req |-> tx[w].req, rail |-> tx[w].rail, seen |-> tx[w].seen,
         payment |-> tx[w].payment, number |-> number,
         hasReceipt |-> receipts[tx[w].req] # "NONE"] \in TxStates
    BY <2>1 DEF TxStates, PaymentRead, AttemptsRead
  <2> QED
    BY <1>2, <2>2, <2>3, MoveTypeOK DEF ReadAttempts, Tables
<1>3. CASE ExecuteSimulatedRail(w)
  <2>1. tx[w].seen.scenario \in PaymentStatuses
    BY <1>3, TxShape, LifecycleAssumption
       DEF ExecuteSimulatedRail, RailAnswers, AttemptsRead, RequestRow
  <2> QED
    BY <1>3, <2>1, RailAnswersTypeOK DEF ExecuteSimulatedRail, TypeOK
<1>4. ASSUME NEW status \in StripeStatuses, ExecuteStripeRail(w, status) PROVE TypeOK'
  <2>1. NormalizeStripeStatus(status) \in PaymentStatuses
    BY DEF NormalizeStripeStatus, PaymentStatuses
  <2>2. tx' \in [Workers -> TxStates]
    BY <1>4, <2>1, RailAnswersTypeOK DEF ExecuteStripeRail
  <2>3. tx[w].req \in Requests
    BY <1>4, TxShape DEF ExecuteStripeRail, RailAnswers, AttemptsRead
  <2>4. intents' \in [Requests -> 0..MaxIntents]
    BY <1>4, <2>3, LifecycleAssumption DEF ExecuteStripeRail, TypeOK
  <2> QED
    BY <1>4, <2>2, <2>4 DEF ExecuteStripeRail, TypeOK
<1>5. CASE ExecuteProgrammableRail(w)
  <2>1. (IF tx[w].seen.status # "EXECUTING" THEN "CAPTURED" ELSE "AUTHORIZED")
            \in PaymentStatuses
    BY DEF PaymentStatuses
  <2> QED
    BY <1>5, <2>1, RailAnswersTypeOK DEF ExecuteProgrammableRail, TypeOK
<1> QED
  BY <1>1, <1>2, <1>3, <1>4, <1>5 DEF PaymentStep

(* executePayment only records event types of the audit vocabulary.        *)
LEMMA PaymentEventTypes ==
    ASSUME NEW t, NEW receipt
    PROVE  PaymentEvents(t, receipt) \subseteq AuditTypes
<1> DEFINE event == CASE t.outcome = "FAILED"     -> "payment.failed"
                      [] t.outcome = "AUTHORIZED" -> "payment.authorized"
                      [] t.outcome = "PENDING"    -> "payment.pending"
                      [] OTHER                    -> "payment.captured"
<1>1. event \in AuditTypes
  BY DEF AuditTypes
<1> HIDE DEF event
<1>2. PaymentEvents(t, receipt) =
        {"payment.attempt_started"}
        \cup (IF t.payment = NoPayment THEN {"payment.intent_created"} ELSE {})
        \cup {event}
        \cup (IF receipt \in {"AVAILABLE", "FAILED"} THEN {"receipt.finalized"} ELSE {})
  BY DEF PaymentEvents, event
<1> QED
  BY <1>1, <1>2 DEF AuditTypes

(* The writes of executePayment are well typed rows.                       *)
LEMMA CommitPaymentTypeOK ==
    ASSUME TypeOK, NEW w \in Workers, CommitPayment(w)
    PROVE  TypeOK'
<1> DEFINE t       == tx[w]
           receipt == ReceiptStatusFor(t.outcome, t.seen.fulfillment)
<1>1. t \in RailExecuted
  BY TxShape DEF CommitPayment
<1>2. t.req \in Requests /\ t.rail \in Rails /\ t.number \in 1..MaxAttempts
      /\ t.outcome \in PaymentStatuses
  BY <1>1 DEF RailExecuted
<1>3. receipt \in ReceiptStatuses
  BY DEF ReceiptStatusFor, ReceiptStatuses
<1>4. StatusAfterPayment(t.outcome, t.seen.fulfillment) \in RequestStatuses
  BY DEF StatusAfterPayment, RequestStatuses
<1>5. requests' \in [Requests -> RequestRow]
  BY <1>2, <1>4 DEF CommitPayment, TypeOK, RequestRow
<1>6. payments' \in [Requests -> PaymentRow]
  BY <1>2 DEF CommitPayment, TypeOK, PaymentRow, PaidRow
<1>7. attempts' \subseteq AttemptRow
  BY <1>2 DEF CommitPayment, TypeOK, AttemptRow
<1>8. audit' \in [Requests -> SUBSET AuditTypes]
  BY <1>2, PaymentEventTypes DEF CommitPayment, TypeOK, Record
<1>9. tx' \in [Workers -> TxStates] /\ receipts' \in [Requests -> ReceiptStatuses]
  BY <1>2, <1>3 DEF CommitPayment, TypeOK, Finish, TxStates
<1> QED
  BY <1>5, <1>6, <1>7, <1>8, <1>9 DEF CommitPayment, TypeOK

(* The writes of decideBuyerApproval are well typed rows.                  *)
LEMMA CommitDecisionTypeOK ==
    ASSUME TypeOK, NEW w \in Workers, NEW decision \in {"APPROVED", "REJECTED"},
           CommitDecision(w, decision)
    PROVE  TypeOK'
<1>1. tx[w].req \in Requests
  BY TxShape DEF CommitDecision, ApprovalRead
<1>2. requests' \in [Requests -> RequestRow]
  BY <1>1 DEF CommitDecision, TypeOK, RequestRow, RequestStatuses
<1>3. audit' \in [Requests -> SUBSET AuditTypes]
  BY <1>1 DEF CommitDecision, TypeOK, Record, AuditTypes
<1>4. tx' \in [Workers -> TxStates] /\ approvals' \in [Requests -> ApprovalStatuses]
  BY <1>1 DEF CommitDecision, TypeOK, Finish, TxStates, ApprovalStatuses
<1> QED
  BY <1>2, <1>3, <1>4 DEF CommitDecision, TypeOK

(* The row recordSellerRequestFulfillment writes back is well typed.       *)
LEMMA CommitFulfillmentTypeOK ==
    ASSUME TypeOK, NEW w \in Workers, NEW fulfillment \in {"DELIVERED", "FAILED"},
           CommitFulfillment(w, fulfillment)
    PROVE  TypeOK'
<1>1. tx[w].req \in Requests /\ tx[w].seen \in RequestRow
  BY TxShape DEF CommitFulfillment, FulfilRead
<1>2. [tx[w].seen EXCEPT !.status = StatusAfterFulfillment(fulfillment),
                         !.fulfillment = fulfillment] \in RequestRow
  BY <1>1 DEF RequestRow, RequestStatuses, Fulfillments, StatusAfterFulfillment
<1>3. requests' \in [Requests -> RequestRow]
  BY <1>1, <1>2 DEF CommitFulfillment, TypeOK
<1>4. audit' \in [Requests -> SUBSET AuditTypes]
  BY <1>1 DEF CommitFulfillment, TypeOK, Record, AuditTypes
<1>5. tx' \in [Workers -> TxStates]
  BY DEF CommitFulfillment, TypeOK, Finish, TxStates
<1> QED
  BY <1>3, <1>4, <1>5 DEF CommitFulfillment, TypeOK

(* Pausing and releasing, read and write, keep every type.                 *)
LEMMA ControlTypeOK ==
    ASSUME TypeOK, NEW w \in Workers, ReadForControl(w) \/ CommitControl(w)
    PROVE  TypeOK'
<1>1. CASE ReadForControl(w)
  <2>1. tx[w] \in ControlChecked
    BY <1>1, TxShape DEF ReadForControl
  <2>2. [pc |-> "controlRead", req |-> tx[w].req, action |-> tx[w].action,
         seen |-> requests[tx[w].req]] \in TxStates
    BY <2>1 DEF ControlChecked, ControlRead, TxStates, TypeOK
  <2> QED
    BY <1>1, <2>2, MoveTypeOK DEF ReadForControl, Proceed, Tables
<1>2. CASE CommitControl(w)
  <2>1. tx[w].req \in Requests /\ tx[w].seen \in RequestRow
    BY <1>2, TxShape DEF CommitControl, ControlRead
  <2>2. requests' \in [Requests -> RequestRow]
    BY <1>2, <2>1 DEF CommitControl, TypeOK, RequestRow
  <2>3. tx' \in [Workers -> TxStates]
    BY <1>2 DEF CommitControl, TypeOK, Finish, TxStates
  <2> QED
    BY <1>2, <2>2, <2>3 DEF CommitControl, TypeOK
<1> QED
  BY <1>1, <1>2

(* Type correctness is inductive: every step of every handler keeps it.    *)
LEMMA NextTypeOK == TypeOK /\ [Next]_vars => TypeOK'
<1> SUFFICES ASSUME TypeOK, [Next]_vars PROVE TypeOK'
  OBVIOUS
<1>1. CASE UNCHANGED vars
  BY <1>1 DEF vars, TypeOK
<1>2. ASSUME NEW r \in Requests, NEW verdict \in {"APPROVED", "SUBMITTED", "REJECTED"},
             CreateRequest(r, verdict)
      PROVE  TypeOK'
  BY <1>2, CreateRequestTypeOK
<1>3. ASSUME NEW r \in Requests, OpenCase(r) PROVE TypeOK'
  BY <1>3 DEF OpenCase, TypeOK
<1>4. ASSUME NEW w \in Workers, Serve(w) PROVE TypeOK'
  BY <1>4, ServeTypeOK
<1>5. ASSUME NEW w \in Workers, Continue(w) PROVE TypeOK'
  <2>1. CASE Abort(w)
    BY <2>1, MoveTypeOK DEF Abort, Finish, Tables, TxStates
  <2>2. CASE PaymentStep(w)
    BY <2>2, PaymentReadTypeOK
  <2> QED
    BY <1>5, <2>1, <2>2, CommitPaymentTypeOK, CommitDecisionTypeOK, CommitFulfillmentTypeOK,
       ControlTypeOK
       DEF Continue, PaymentStep
<1> QED
  BY <1>1, <1>2, <1>3, <1>4, <1>5 DEF Next

(* Every row and every transaction keeps its type: a status, a rail or an  *)
(* attempt number outside the schema's enums and the cap never appears.    *)
THEOREM TypeCorrect == Spec => []TypeOK
  BY InitTypeOK, NextTypeOK, PTL DEF Spec

-----------------------------------------------------------------------------
(* The ledger: payments, attempts and receipts.                            *)

HoldsPayment(w) == tx[w].pc \in {"paymentRead", "attemptsRead", "railExecuted"}
HoldsNumber(w)  == tx[w].pc \in {"attemptsRead", "railExecuted"}

(* What an execution read of the ledger stays true of it until it commits: *)
(* a payment it saw is still there on the rail it asks for, and its number *)
(* follows an attempt that still exists.                                   *)
LedgerSeen(w) ==
    LET t == tx[w] IN
    /\ HoldsPayment(w) /\ t.payment # NoPayment =>
          payments[t.req] # NoPayment /\ payments[t.req].rail = t.rail
    /\ HoldsNumber(w) =>
          t.number = 1 \/ \E a \in AttemptsOf(t.req) : a.number = t.number - 1

ReceiptMatchesPayment ==
    \A r \in Requests :
        /\ receipts[r] = "NONE" <=> payments[r] = NoPayment
        /\ receipts[r] = "AVAILABLE" => payments[r].status = "CAPTURED"
        /\ IsRetryEligible(payments[r].status) => receipts[r] = "FAILED"

LedgerInv ==
    /\ IsFiniteSet(attempts)
    /\ AttemptsAreSequential
    /\ PaymentMirrorsLatestAttempt
    /\ RailIsLocked
    /\ ReceiptMatchesPayment
    /\ \A w \in Workers : LedgerSeen(w)

(* A request has finitely many attempts, so that counting them means       *)
(* something.                                                              *)
LEMMA AttemptsFinite ==
    ASSUME LedgerInv, NEW r \in Requests
    PROVE  IsFiniteSet(AttemptsOf(r)) /\ AttemptCount(r) \in Nat
<1>1. IsFiniteSet(AttemptsOf(r))
  BY FS_Subset DEF LedgerInv, AttemptsOf
<1> QED
  BY <1>1, FS_CardinalityType DEF AttemptCount

(* A number that is still free when its execution has reached the rail is  *)
(* the next one, however old the read it was computed from.                *)
LEMMA FreeNumberIsNext ==
    ASSUME TypeOK, LedgerInv, NEW w \in Workers, tx[w].pc = "railExecuted",
           ~\E a \in AttemptsOf(tx[w].req) : a.number = tx[w].number
    PROVE  tx[w].number = AttemptCount(tx[w].req) + 1
<1> DEFINE t == tx[w]
           r == t.req
           c == AttemptCount(r)
<1>1. r \in Requests /\ t.number \in 1..MaxAttempts /\ t.number \in Nat
  BY TxShape DEF RailExecuted
<1>2. c \in Nat
  BY <1>1, AttemptsFinite
<1>3. {a.number : a \in AttemptsOf(r)} = 1..c
  BY <1>1 DEF LedgerInv, AttemptsAreSequential
<1>4. t.number \notin 1..c
  BY <1>3
<1>5. t.number = 1 \/ t.number - 1 \in 1..c
  <2>1. t.number = 1 \/ \E a \in AttemptsOf(r) : a.number = t.number - 1
    BY DEF LedgerInv, LedgerSeen, HoldsNumber
  <2> QED
    BY <2>1, <1>3
<1> QED
  BY <1>1, <1>2, <1>4, <1>5

(* The number an execution commits is the next one, and its rail the       *)
(* locked one, however old its reads are.                                  *)
LEMMA CommitIsNext ==
    ASSUME TypeOK, LedgerInv, NEW w \in Workers, CommitPayment(w)
    PROVE  /\ tx[w].number = AttemptCount(tx[w].req) + 1
           /\ payments[tx[w].req] # NoPayment => payments[tx[w].req].rail = tx[w].rail
<1>1. tx[w].number = AttemptCount(tx[w].req) + 1
  BY FreeNumberIsNext DEF CommitPayment, NoDuplicateRow
<1>2. payments[tx[w].req] # NoPayment => payments[tx[w].req].rail = tx[w].rail
  BY DEF CommitPayment, NoDuplicateRow, LedgerInv, LedgerSeen, HoldsPayment
<1> QED
  BY <1>1, <1>2

(* The numbers of an attempt list with one more attempt.                   *)
LEMMA NumbersOfUnion ==
    ASSUME NEW rows, NEW row
    PROVE  {a.number : a \in rows \cup {row}} = {a.number : a \in rows} \cup {row.number}
  OBVIOUS

NewAttempt(w) == [req |-> tx[w].req, number |-> tx[w].number, rail |-> tx[w].rail,
                  status |-> tx[w].outcome]

(* executePayment's commit adds exactly one attempt, to its own request.   *)
LEMMA AttemptsAfterCommit ==
    ASSUME TypeOK, LedgerInv, NEW w \in Workers, CommitPayment(w), NEW r \in Requests
    PROVE  /\ r # tx[w].req => AttemptsOf(r)' = AttemptsOf(r)
           /\ r = tx[w].req => /\ AttemptsOf(r)' = AttemptsOf(r) \cup {NewAttempt(w)}
                               /\ AttemptCount(r)' = AttemptCount(r) + 1
<1>1. attempts' = attempts \cup {NewAttempt(w)}
  BY DEF CommitPayment, NewAttempt
<1>2. r # tx[w].req => AttemptsOf(r)' = AttemptsOf(r)
  BY <1>1 DEF AttemptsOf, NewAttempt
<1>3. ASSUME r = tx[w].req
      PROVE  /\ AttemptsOf(r)' = AttemptsOf(r) \cup {NewAttempt(w)}
             /\ AttemptCount(r)' = AttemptCount(r) + 1
  <2>1. NewAttempt(w).req = r
    BY <1>3 DEF NewAttempt
  <2>2. AttemptsOf(r)' = AttemptsOf(r) \cup {NewAttempt(w)}
    BY <1>1, <2>1 DEF AttemptsOf
  <2>3. NewAttempt(w) \notin AttemptsOf(r)
    BY <1>3 DEF CommitPayment, NoDuplicateRow, NewAttempt
  <2> QED
    BY <2>2, <2>3, AttemptsFinite, FS_AddElement DEF AttemptCount
<1> QED
  BY <1>2, <1>3

(* The commit of executePayment keeps the ledger invariant, although it    *)
(* writes from old reads.                                                  *)
LEMMA CommitPaymentLedger ==
    ASSUME TypeOK, LedgerInv, NEW w \in Workers, CommitPayment(w)
    PROVE  LedgerInv'
<1> DEFINE t == tx[w]
<1>1. t \in RailExecuted
  BY TxShape DEF CommitPayment
<1>2. t.req \in Requests /\ t.number \in 1..MaxAttempts /\ t.outcome \in PaymentStatuses
      /\ t.rail \in Rails
  BY <1>1 DEF RailExecuted
<1>3. IsFiniteSet(attempts')
  BY FS_AddElement DEF CommitPayment, LedgerInv
<1>4. AttemptsAreSequential'
  <2> SUFFICES ASSUME NEW r \in Requests
               PROVE  {a.number : a \in AttemptsOf(r)'} = 1..AttemptCount(r)'
                      /\ AttemptCount(r)' <= MaxAttempts
    BY DEF AttemptsAreSequential
  <2>1. /\ {a.number : a \in AttemptsOf(r)} = 1..AttemptCount(r)
        /\ AttemptCount(r) <= MaxAttempts /\ AttemptCount(r) \in Nat
    BY AttemptsFinite DEF LedgerInv, AttemptsAreSequential
  <2>2. CASE r # t.req
    BY <2>1, <2>2, AttemptsAfterCommit DEF AttemptCount
  <2>3. CASE r = t.req
    <3>1. AttemptCount(r)' = AttemptCount(r) + 1 /\ t.number = AttemptCount(r) + 1
      BY <2>3, AttemptsAfterCommit, CommitIsNext
    <3>2. {a.number : a \in AttemptsOf(r)'} = {a.number : a \in AttemptsOf(r)} \cup {t.number}
      <4>1. AttemptsOf(r)' = AttemptsOf(r) \cup {NewAttempt(w)}
        BY <2>3, AttemptsAfterCommit
      <4>2. NewAttempt(w).number = t.number
        BY DEF NewAttempt
      <4> QED
        BY <4>1, <4>2, NumbersOfUnion
    <3> QED
      BY <2>1, <3>1, <3>2, <1>2, LifecycleAssumption
  <2> QED
    BY <2>2, <2>3
<1>5. PaymentMirrorsLatestAttempt'
  <2> SUFFICES ASSUME NEW r \in Requests
               PROVE  /\ payments'[r] = NoPayment <=> AttemptsOf(r)' = {}
                      /\ \A a \in AttemptsOf(r)' :
                            IsLatest(a, AttemptsOf(r)') => payments'[r].status = a.status
    BY DEF PaymentMirrorsLatestAttempt, IsLatest
  <2>1. CASE r # t.req
    BY <2>1, <1>2, AttemptsAfterCommit
       DEF CommitPayment, LedgerInv, PaymentMirrorsLatestAttempt, TypeOK
  <2>2. CASE r = t.req
    <3>1. payments'[r] = [rail |-> t.rail, status |-> t.outcome]
      BY <2>2 DEF CommitPayment, PaidRow, TypeOK
    <3>2. payments'[r] # NoPayment
      BY <3>1, <1>2 DEF NoPayment, PaymentStatuses
    <3>3. AttemptsOf(r)' = AttemptsOf(r) \cup {NewAttempt(w)}
      BY <2>2, AttemptsAfterCommit
    <3>4. ASSUME NEW a \in AttemptsOf(r) PROVE a.number < t.number
      <4>1. a.number \in 1..AttemptCount(r) /\ AttemptCount(r) \in Nat
        BY AttemptsFinite DEF LedgerInv, AttemptsAreSequential
      <4> QED
        BY <4>1, <2>2, CommitIsNext
    <3>5. ASSUME NEW a \in AttemptsOf(r)', IsLatest(a, AttemptsOf(r)')
          PROVE  payments'[r].status = a.status
      <4>1. CASE a \in AttemptsOf(r)
        <5>1. a.number < NewAttempt(w).number /\ a.number \in Nat
          BY <4>1, <3>4, <1>2 DEF NewAttempt, AttemptsOf, TypeOK, AttemptRow
        <5>2. NewAttempt(w).number <= a.number
          BY <3>3, <3>5 DEF IsLatest
        <5>3. NewAttempt(w).number \in Nat
          BY <1>2 DEF NewAttempt
        <5> QED
          BY <5>1, <5>2, <5>3
      <4>2. CASE a = NewAttempt(w)
        BY <4>2, <3>1 DEF NewAttempt
      <4> QED
        BY <4>1, <4>2, <3>3, <3>5
    <3> QED
      BY <3>2, <3>3, <3>5
  <2> QED
    BY <2>1, <2>2
<1>6. RailIsLocked'
  <2> SUFFICES ASSUME NEW r \in Requests, NEW a \in AttemptsOf(r)'
               PROVE  a.rail = payments'[r].rail
    BY DEF RailIsLocked
  <2>1. CASE r # t.req
    BY <2>1, <1>2, AttemptsAfterCommit DEF CommitPayment, LedgerInv, RailIsLocked, TypeOK
  <2>2. CASE r = t.req
    <3>1. payments'[r].rail = t.rail
      BY <2>2 DEF CommitPayment, PaidRow, TypeOK
    <3>2. CASE a \in AttemptsOf(r)
      BY <2>2, <3>1, <3>2, CommitIsNext DEF LedgerInv, RailIsLocked, PaymentMirrorsLatestAttempt
    <3>3. CASE a = NewAttempt(w)
      BY <3>1, <3>3 DEF NewAttempt
    <3> QED
      BY <3>2, <3>3, <2>2, AttemptsAfterCommit
  <2> QED
    BY <2>1, <2>2
<1>7. ReceiptMatchesPayment'
  <2> SUFFICES ASSUME NEW r \in Requests
               PROVE  /\ receipts'[r] = "NONE" <=> payments'[r] = NoPayment
                      /\ receipts'[r] = "AVAILABLE" => payments'[r].status = "CAPTURED"
                      /\ IsRetryEligible(payments'[r].status) => receipts'[r] = "FAILED"
    BY DEF ReceiptMatchesPayment, IsRetryEligible
  <2>1. CASE r # t.req
    BY <2>1, <1>2 DEF CommitPayment, LedgerInv, ReceiptMatchesPayment, TypeOK
  <2>2. CASE r = t.req
    <3>1. /\ payments'[r] = [rail |-> t.rail, status |-> t.outcome]
          /\ receipts'[r] = ReceiptStatusFor(t.outcome, t.seen.fulfillment)
      BY <2>2 DEF CommitPayment, PaidRow, TypeOK
    <3> QED
      BY <3>1, <1>2 DEF NoPayment, PaymentStatuses, ReceiptStatusFor, IsRetryEligible
  <2> QED
    BY <2>1, <2>2
<1>8. ASSUME NEW v \in Workers PROVE LedgerSeen(v)'
  <2>1. CASE v = w
    BY <2>1 DEF CommitPayment, Finish, TypeOK, Idle, LedgerSeen, HoldsPayment, HoldsNumber
  <2>2. CASE v # w
    <3>1. tx'[v] = tx[v]
      BY <2>2 DEF CommitPayment, Finish, TypeOK
    <3>2. ASSUME HoldsPayment(v) PROVE tx[v].req \in Requests
      BY <3>2, TxShape DEF HoldsPayment, PaymentRead, AttemptsRead, RailExecuted
    <3>3. ASSUME HoldsPayment(v), tx[v].payment # NoPayment
          PROVE  payments'[tx[v].req] # NoPayment /\ payments'[tx[v].req].rail = tx[v].rail
      <4>1. payments[tx[v].req] # NoPayment /\ payments[tx[v].req].rail = tx[v].rail
        BY <3>3 DEF LedgerInv, LedgerSeen
      <4>2. CASE tx[v].req # t.req
        BY <4>1, <4>2, <3>2, <3>3 DEF CommitPayment, TypeOK
      <4>3. CASE tx[v].req = t.req
        <5>1. payments'[t.req] = [rail |-> t.rail, status |-> t.outcome]
          BY <1>2 DEF CommitPayment, PaidRow, TypeOK
        <5>2. t.rail = payments[t.req].rail
          BY <4>1, <4>3, CommitIsNext
        <5> QED
          BY <4>1, <4>3, <5>1, <5>2, <1>2 DEF NoPayment, PaymentStatuses
      <4> QED
        BY <4>2, <4>3
    <3>4. ASSUME HoldsNumber(v)
          PROVE  tx[v].number = 1
                 \/ \E a \in attempts' : a.req = tx[v].req /\ a.number = tx[v].number - 1
      <4>1. tx[v].number = 1 \/ \E a \in AttemptsOf(tx[v].req) : a.number = tx[v].number - 1
        BY <3>4 DEF LedgerInv, LedgerSeen
      <4>2. attempts \subseteq attempts'
        BY DEF CommitPayment
      <4> QED
        BY <4>1, <4>2 DEF AttemptsOf
    <3> QED
      BY <3>1, <3>3, <3>4 DEF LedgerSeen, HoldsPayment, HoldsNumber, AttemptsOf
  <2> QED
    BY <2>1, <2>2
<1> QED
  BY <1>3, <1>4, <1>5, <1>6, <1>7, <1>8 DEF LedgerInv

(* An empty ledger satisfies the ledger invariant.                         *)
LEMMA InitLedger == Init => LedgerInv
<1> SUFFICES ASSUME Init PROVE LedgerInv
  OBVIOUS
<1>1. \A r \in Requests : AttemptsOf(r) = {} /\ AttemptCount(r) = 0
  BY FS_EmptySet DEF Init, AttemptsOf, AttemptCount
<1>2. IsFiniteSet(attempts)
  BY FS_EmptySet DEF Init
<1>3. AttemptsAreSequential
  BY <1>1, LifecycleAssumption DEF AttemptsAreSequential
<1>4. PaymentMirrorsLatestAttempt /\ RailIsLocked
  BY <1>1 DEF PaymentMirrorsLatestAttempt, RailIsLocked, Init
<1>5. ReceiptMatchesPayment
  BY DEF ReceiptMatchesPayment, Init, NoPayment, IsRetryEligible
<1>6. \A w \in Workers : LedgerSeen(w)
  BY DEF LedgerSeen, HoldsPayment, HoldsNumber, Init, Idle
<1> QED
  BY <1>2, <1>3, <1>4, <1>5, <1>6 DEF LedgerInv

LedgerTables == <<payments, attempts, receipts>>

(* A step that writes no ledger row keeps the invariant if what            *)
(* transactions know stays true.                                           *)
LEMMA LedgerUnchanged ==
    ASSUME LedgerInv, UNCHANGED LedgerTables,
           \A v \in Workers : tx'[v] = tx[v] \/ LedgerSeen(v)'
    PROVE  LedgerInv'
<1> USE DEF LedgerTables
<1>1. /\ IsFiniteSet(attempts')
      /\ AttemptsAreSequential'
      /\ PaymentMirrorsLatestAttempt'
      /\ RailIsLocked'
      /\ ReceiptMatchesPayment'
  BY DEF LedgerInv, AttemptsAreSequential, PaymentMirrorsLatestAttempt, RailIsLocked,
         ReceiptMatchesPayment, AttemptsOf, AttemptCount
<1>2. ASSUME NEW v \in Workers, tx'[v] = tx[v] PROVE LedgerSeen(v)'
  BY <1>2 DEF LedgerInv, LedgerSeen, HoldsPayment, HoldsNumber, AttemptsOf
<1> QED
  BY <1>1, <1>2 DEF LedgerInv

(* A step that leaves the ledger alone and does not read it.               *)
LEMMA NoLedgerRead ==
    ASSUME TypeOK, LedgerInv, UNCHANGED LedgerTables, NEW w \in Workers, NEW state,
           tx' = [tx EXCEPT ![w] = state],
           state.pc \notin {"paymentRead", "attemptsRead", "railExecuted"}
    PROVE  LedgerInv'
<1>1. LedgerSeen(w)'
  BY DEF LedgerSeen, HoldsPayment, HoldsNumber, TypeOK
<1>2. \A v \in Workers : v # w => tx'[v] = tx[v]
  BY DEF TypeOK
<1> QED
  BY <1>1, <1>2, LedgerUnchanged

(* executePayment's guard on the payment row makes what it knows of the    *)
(* payment true.                                                           *)
LEMMA ReadPaymentLedger ==
    ASSUME TypeOK, LedgerInv, NEW w \in Workers, ReadPayment(w)
    PROVE  LedgerInv'
<1>1. /\ tx'[w] = [pc |-> "paymentRead", req |-> tx[w].req, rail |-> tx[w].rail,
                   seen |-> tx[w].seen, payment |-> payments[tx[w].req]]
      /\ \A v \in Workers : v # w => tx'[v] = tx[v]
  BY DEF ReadPayment, Proceed, TypeOK
<1>2. payments[tx[w].req] # NoPayment => payments[tx[w].req].rail = tx[w].rail
  BY DEF ReadPayment, MayPayAgain
<1>3. UNCHANGED LedgerTables
  BY DEF ReadPayment, LedgerTables
<1>4. LedgerSeen(w)'
  BY <1>1, <1>2, <1>3 DEF LedgerSeen, HoldsPayment, HoldsNumber, LedgerTables
<1> QED
  BY <1>1, <1>3, <1>4, LedgerUnchanged

(* The number executePayment computes follows an attempt that exists.      *)
LEMMA ReadAttemptsLedger ==
    ASSUME TypeOK, LedgerInv, NEW w \in Workers, ReadAttempts(w)
    PROVE  LedgerInv'
<1> DEFINE t == tx[w]
<1>1. PICK number \in 1..MaxAttempts :
         /\ NextAttemptNumber(AttemptsSeen(t), number)
         /\ tx' = [tx EXCEPT ![w] =
               [pc |-> "attemptsRead", req |-> t.req, rail |-> t.rail, seen |-> t.seen,
                payment |-> t.payment, number |-> number,
                hasReceipt |-> receipts[t.req] # "NONE"]]
  BY DEF ReadAttempts, Proceed
<1>2. /\ tx'[w].pc = "attemptsRead" /\ tx'[w].req = t.req /\ tx'[w].rail = t.rail
      /\ tx'[w].payment = t.payment /\ tx'[w].number = number
      /\ \A v \in Workers : v # w => tx'[v] = tx[v]
  BY <1>1 DEF TypeOK
<1>3. UNCHANGED LedgerTables
  BY DEF ReadAttempts, LedgerTables
<1>4. t.payment # NoPayment => payments[t.req] # NoPayment /\ payments[t.req].rail = t.rail
  BY DEF ReadAttempts, LedgerInv, LedgerSeen, HoldsPayment
<1>5. number = 1 \/ \E a \in attempts : a.req = t.req /\ a.number = number - 1
  <2>1. AttemptsSeen(t) \subseteq AttemptsOf(t.req)
    BY DEF AttemptsSeen
  <2>2. ASSUME NEW a \in AttemptsSeen(t), number = a.number + 1
        PROVE  a \in attempts /\ a.req = t.req /\ a.number = number - 1
    <3>1. a \in attempts /\ a.req = t.req
      BY <2>1 DEF AttemptsOf
    <3>2. a.number \in Nat
      BY <3>1 DEF TypeOK, AttemptRow
    <3> QED
      BY <3>1, <3>2, <2>2
  <2> QED
    BY <1>1, <2>2 DEF NextAttemptNumber, IsLatest
<1>6. LedgerSeen(w)'
  BY <1>2, <1>3, <1>4, <1>5 DEF LedgerSeen, HoldsPayment, HoldsNumber, LedgerTables, AttemptsOf
<1> QED
  BY <1>2, <1>3, <1>6, LedgerUnchanged

(* A rail's answer changes nothing the execution knows of the ledger.      *)
LEMMA RailLedger ==
    ASSUME TypeOK, LedgerInv, NEW w \in Workers, NEW outcome, RailAnswers(w, outcome),
           UNCHANGED LedgerTables
    PROVE  LedgerInv'
<1> DEFINE t == tx[w]
<1>1. /\ tx'[w].pc = "railExecuted" /\ tx'[w].req = t.req /\ tx'[w].rail = t.rail
      /\ tx'[w].payment = t.payment /\ tx'[w].number = t.number
      /\ \A v \in Workers : v # w => tx'[v] = tx[v]
  BY DEF RailAnswers, Proceed, TypeOK
<1>2. LedgerSeen(w)'
  BY <1>1 DEF RailAnswers, LedgerInv, LedgerSeen, HoldsPayment, HoldsNumber, LedgerTables,
              AttemptsOf
<1> QED
  BY <1>1, <1>2, LedgerUnchanged

(* The ledger invariant is inductive relative to the types.                *)
LEMMA NextLedger == TypeOK /\ LedgerInv /\ [Next]_vars => LedgerInv'
<1> SUFFICES ASSUME TypeOK, LedgerInv, [Next]_vars PROVE LedgerInv'
  OBVIOUS
<1>1. CASE UNCHANGED vars
  BY <1>1, LedgerUnchanged DEF vars, LedgerTables
<1>2. ASSUME NEW r \in Requests, NEW verdict \in {"APPROVED", "SUBMITTED", "REJECTED"},
             CreateRequest(r, verdict)
      PROVE  LedgerInv'
  BY <1>2, LedgerUnchanged DEF CreateRequest, LedgerTables
<1>3. ASSUME NEW r \in Requests, OpenCase(r) PROVE LedgerInv'
  BY <1>3, LedgerUnchanged DEF OpenCase, LedgerTables
<1>4. ASSUME NEW w \in Workers, Serve(w) PROVE LedgerInv'
  BY <1>4, NoLedgerRead
     DEF Serve, ReadApproval, ReadRequest, ReadForFulfillment, CheckControl, Begin, LedgerTables
<1>5. ASSUME NEW w \in Workers, Continue(w) PROVE LedgerInv'
  <2>1. ASSUME NEW decision, CommitDecision(w, decision) PROVE LedgerInv'
    BY <2>1, NoLedgerRead DEF CommitDecision, Finish, Idle, LedgerTables
  <2>2. ASSUME NEW fulfillment, CommitFulfillment(w, fulfillment) PROVE LedgerInv'
    BY <2>2, NoLedgerRead DEF CommitFulfillment, Finish, Idle, LedgerTables
  <2>3. CASE ReadForControl(w)
    BY <2>3, NoLedgerRead DEF ReadForControl, Proceed, LedgerTables
  <2>4. CASE CommitControl(w)
    BY <2>4, NoLedgerRead DEF CommitControl, Finish, Idle, LedgerTables
  <2>5. CASE Abort(w)
    BY <2>5, NoLedgerRead DEF Abort, Finish, Idle, LedgerTables
  <2>6. CASE ExecuteSimulatedRail(w)
    BY <2>6, RailLedger DEF ExecuteSimulatedRail, LedgerTables
  <2>7. CASE ExecuteProgrammableRail(w)
    BY <2>7, RailLedger DEF ExecuteProgrammableRail, LedgerTables
  <2>8. ASSUME NEW status, ExecuteStripeRail(w, status) PROVE LedgerInv'
    BY <2>8, RailLedger DEF ExecuteStripeRail, LedgerTables
  <2> QED
    BY <1>5, <2>1, <2>2, <2>3, <2>4, <2>5, <2>6, <2>7, <2>8, ReadPaymentLedger,
       ReadAttemptsLedger, CommitPaymentLedger
       DEF Continue
<1> QED
  BY <1>1, <1>2, <1>3, <1>4, <1>5 DEF Next

(* In every reachable state the payment, attempt and receipt rows satisfy  *)
(* the ledger invariant, together with what every executePayment in flight *)
(* knows of them.                                                          *)
THEOREM LedgerHolds == Spec => [](TypeOK /\ LedgerInv)
  BY InitTypeOK, NextTypeOK, InitLedger, NextLedger, PTL DEF Spec

(* However executions overlap, the attempts of a payment carry the numbers *)
(* 1..n, each once, and n stays within the cap of payments-workflow.ts     *)
(* 1028.                                                                   *)
THEOREM SequentialAttempts == Spec => []AttemptsAreSequential
  BY LedgerHolds, PTL DEF LedgerInv

(* Payment.status is always the outcome of the highest numbered attempt,   *)
(* although executions overwrite it from stale reads.                      *)
THEOREM MirroredAttempt == Spec => []PaymentMirrorsLatestAttempt
  BY LedgerHolds, PTL DEF LedgerInv

(* No attempt is ever on another rail than its payment.                    *)
THEOREM LockedRail == Spec => []RailIsLocked
  BY LedgerHolds, PTL DEF LedgerInv

-----------------------------------------------------------------------------
(* Refinement: the three tables implement the abstract payment record.     *)

(* The commit of executePayment is the Attempt action of the abstract      *)
(* record.                                                                 *)
LEMMA CommitPaymentIsAttempt ==
    ASSUME TypeOK, LedgerInv, NEW w \in Workers, CommitPayment(w)
    PROVE  Ledger!Attempt(tx[w].req, tx[w].number, tx[w].rail, tx[w].outcome)
<1> DEFINE t == tx[w]
<1>1. t.req \in Requests
  BY TxShape DEF CommitPayment, RailExecuted
<1>2. Ledger!Numbers(t.req) = 1..(t.number - 1)
  <2>1. Ledger!Numbers(t.req) = {a.number : a \in AttemptsOf(t.req)}
    BY DEF Ledger!Numbers, AttemptsOf
  <2>2. t.number - 1 = AttemptCount(t.req)
    BY <1>1, CommitIsNext, AttemptsFinite
  <2> QED
    BY <1>1, <2>1, <2>2 DEF LedgerInv, AttemptsAreSequential
<1>3. Ledger!RailAllowed(t.req, t.rail)
  BY CommitIsNext DEF Ledger!RailAllowed, Ledger!Unpaid, NoPayment
<1>4. payments' = [payments EXCEPT ![t.req] = [rail |-> t.rail, status |-> t.outcome]]
  BY DEF CommitPayment, PaidRow
<1>5. ReceiptStatusFor(t.outcome, t.seen.fulfillment) \in Ledger!ReceiptsFor(t.outcome)
  BY DEF ReceiptStatusFor, Ledger!ReceiptsFor
<1>6. \E receipt \in Ledger!ReceiptsFor(t.outcome) :
         receipts' = [receipts EXCEPT ![t.req] = receipt]
  BY <1>5 DEF CommitPayment
<1>7. attempts' = attempts \cup {[req |-> t.req, number |-> t.number, rail |-> t.rail,
                                  status |-> t.outcome]}
  BY DEF CommitPayment
<1> QED
  BY <1>2, <1>3, <1>4, <1>6, <1>7 DEF Ledger!Attempt

(* Every step of a handler is an attempt of the abstract record or leaves  *)
(* its tables alone.                                                       *)
LEMMA StepIsRecordStep ==
    TypeOK /\ LedgerInv /\ [Next]_vars => [Ledger!RecordNext]_(Ledger!recordVars)
<1> SUFFICES ASSUME TypeOK, LedgerInv, [Next]_vars
             PROVE  Ledger!RecordNext \/ UNCHANGED <<payments, attempts, receipts>>
  BY DEF Ledger!recordVars
<1>1. ASSUME NEW w \in Workers, CommitPayment(w) PROVE Ledger!RecordNext
  <2>1. /\ tx[w].req \in Requests /\ tx[w].rail \in Rails
        /\ tx[w].number \in 1..MaxAttempts /\ tx[w].outcome \in Ledger!Outcomes
    BY <1>1, TxShape DEF CommitPayment, RailExecuted, PaymentStatuses, Ledger!Outcomes
  <2> QED
    BY <1>1, <2>1, CommitPaymentIsAttempt DEF Ledger!RecordNext
<1>2. ASSUME NEW w \in Workers, Continue(w), ~CommitPayment(w)
      PROVE  UNCHANGED <<payments, attempts, receipts>>
  BY <1>2 DEF Continue, CommitDecision, ReadPayment, ReadAttempts, ExecuteSimulatedRail,
              ExecuteStripeRail, ExecuteProgrammableRail, CommitFulfillment, ReadForControl,
              CommitControl, Abort
<1>3. ASSUME NEW w \in Workers, Serve(w) PROVE UNCHANGED <<payments, attempts, receipts>>
  BY <1>3 DEF Serve, ReadApproval, ReadRequest, ReadForFulfillment, CheckControl
<1> QED
  BY <1>1, <1>2, <1>3 DEF Next, vars, CreateRequest, OpenCase

(* The handlers, with their stale reads, aborts and duplicate keys,        *)
(* implement the abstract payment record.                                  *)
THEOREM Refinement == Spec => ImplementsPaymentRecord
<1>1. Init => Ledger!RecordInit
  BY DEF Init, Ledger!RecordInit, Ledger!Unpaid, NoPayment
<1>2. TypeOK /\ LedgerInv /\ [Next]_vars => [Ledger!RecordNext]_(Ledger!recordVars)
  BY StepIsRecordStep
<1> QED
  BY <1>1, <1>2, LedgerHolds, PTL DEF Spec, ImplementsPaymentRecord, Ledger!RecordSpec

-----------------------------------------------------------------------------
(* The evidence: what the audit trail knows whenever a status is written.  *)

Explains(row, events) ==
    /\ row.fulfillment = "DELIVERED" => "seller_delivery_confirmed" \in events
    /\ row.fulfillment = "FAILED" => "seller_delivery_failed" \in events

Created(r) == requests[r].status # "ABSENT"
Decided(r) == requests[r].status \notin {"ABSENT", "SUBMITTED"}

RequestEvidence(r) ==
    /\ requests[r].status = "SUBMITTED" <=> approvals[r] = "PENDING"
    /\ requests[r].status = "APPROVED" => approvals[r] = "APPROVED"
    /\ requests[r].status \in {"APPROVED", "EXECUTING"} => "approval_granted" \in audit[r]
    /\ AttemptsOf(r) # {} => "approval_granted" \in audit[r]
    /\ requests[r].status = "COMPLETED" => "seller_delivery_confirmed" \in audit[r]
    /\ requests[r].status = "FAILED" =>
          \/ "seller_delivery_failed" \in audit[r]
          \/ \E a \in AttemptsOf(r) : IsRetryEligible(a.status)
    /\ requests[r].status = "EXECUTING" => payments[r] # NoPayment
    /\ receipts[r] = "AVAILABLE" => "seller_delivery_confirmed" \in audit[r]
    /\ Explains(requests[r], audit[r])

PayingPcs == {"requestRead", "paymentRead", "attemptsRead", "railExecuted"}

(* A transaction in flight works on a request that exists, is decided      *)
(* (unless it is the decision), and whose evidence it has seen is recorded.*)
EvidenceSeen(w) ==
    LET t == tx[w] IN
    /\ t.pc \in PayingPcs => /\ "approval_granted" \in audit[t.req]
                             /\ Decided(t.req)
                             /\ Explains(t.seen, audit[t.req])
    /\ t.pc = "approvalRead" => Created(t.req)
    /\ t.pc = "fulfilRead" => Decided(t.req)
    /\ t.pc = "controlRead" => Explains(t.seen, audit[t.req])

EvidenceInv ==
    /\ \A r \in Requests : RequestEvidence(r)
    /\ \A w \in Workers : EvidenceSeen(w)

(* Before the first request there is nothing to explain.                   *)
LEMMA InitEvidence == Init => EvidenceInv
<1> SUFFICES ASSUME Init PROVE EvidenceInv
  OBVIOUS
<1>1. ASSUME NEW r \in Requests PROVE RequestEvidence(r)
  <2>1. requests[r].status = "ABSENT" /\ requests[r].fulfillment = "NONE"
    BY DEF Init
  <2>2. approvals[r] = "NONE" /\ receipts[r] = "NONE" /\ AttemptsOf(r) = {}
    BY DEF Init, AttemptsOf
  <2> QED
    BY <2>1, <2>2 DEF RequestEvidence, Explains
<1>2. \A w \in Workers : EvidenceSeen(w)
  BY DEF Init, EvidenceSeen, PayingPcs, Idle
<1> QED
  BY <1>1, <1>2 DEF EvidenceInv

(* The audit trail only grows, and no request is undone.                   *)
Onward(r) ==
    /\ audit[r] \subseteq audit'[r]
    /\ Created(r) => requests'[r].status # "ABSENT"
    /\ Decided(r) => requests'[r].status \notin {"ABSENT", "SUBMITTED"}

(* What a transaction read stays explained while the audit trail only      *)
(* grows.                                                                  *)
LEMMA SeenKept ==
    ASSUME TypeOK, EvidenceInv, NEW v \in Workers, tx'[v] = tx[v],
           \A r \in Requests : Onward(r)
    PROVE  EvidenceSeen(v)'
<1>1. tx[v].pc \in PayingPcs \cup {"approvalRead", "fulfilRead", "controlRead"}
         => tx[v].req \in Requests
  BY TxShape DEF PayingPcs, ApprovalRead, RequestRead, PaymentRead, AttemptsRead, RailExecuted,
                 FulfilRead, ControlRead
<1>2. EvidenceSeen(v)
  BY DEF EvidenceInv
<1> QED
  BY <1>1, <1>2 DEF EvidenceSeen, PayingPcs, Onward, Created, Decided, Explains

(* A request whose rows a step leaves alone keeps its evidence.            *)
LEMMA EvidenceKept ==
    ASSUME EvidenceInv, NEW r \in Requests, Onward(r),
           requests'[r].status = requests[r].status,
           requests'[r].fulfillment = requests[r].fulfillment,
           approvals'[r] = approvals[r], payments'[r] = payments[r],
           receipts'[r] = receipts[r], AttemptsOf(r)' = AttemptsOf(r)
    PROVE  RequestEvidence(r)'
<1>1. RequestEvidence(r)
  BY DEF EvidenceInv
<1> QED
  BY <1>1 DEF RequestEvidence, Onward, Explains

(* createBuyerRequest leaves a grant, a pending approval or a rejection to *)
(* explain its status.                                                     *)
LEMMA CreateRequestEvidence ==
    ASSUME TypeOK, EvidenceInv,
           NEW q \in Requests, NEW verdict \in {"APPROVED", "SUBMITTED", "REJECTED"},
           CreateRequest(q, verdict)
    PROVE  EvidenceInv'
<1>1. /\ requests'[q] = [requests[q] EXCEPT !.status = verdict]
      /\ requests'[q].status = verdict /\ requests'[q].fulfillment = requests[q].fulfillment
      /\ approvals'[q] = VerdictApproval(verdict)
      /\ audit'[q] = audit[q] \cup {"request_created", "policy_evaluated", VerdictEvent(verdict)}
      /\ \A r \in Requests : r # q => /\ requests'[r] = requests[r]
                                      /\ approvals'[r] = approvals[r]
                                      /\ audit'[r] = audit[r]
  BY DEF CreateRequest, TypeOK, RequestRow, Record
<1>2. \A r \in Requests : Onward(r)
  BY <1>1 DEF Onward, Created, Decided, CreateRequest
<1>3. \A r \in Requests : AttemptsOf(r)' = AttemptsOf(r)
  BY DEF CreateRequest, AttemptsOf
<1>4. RequestEvidence(q)'
  <2>1. RequestEvidence(q) /\ audit[q] \subseteq audit'[q]
    BY <1>1 DEF EvidenceInv
  <2>2. /\ verdict = "SUBMITTED" <=> VerdictApproval(verdict) = "PENDING"
        /\ verdict = "APPROVED" => /\ VerdictApproval(verdict) = "APPROVED"
                                   /\ VerdictEvent(verdict) = "approval_granted"
    BY DEF VerdictApproval, VerdictEvent
  <2> QED
    BY <1>1, <1>3, <2>1, <2>2 DEF RequestEvidence, Explains, CreateRequest
<1>5. ASSUME NEW r \in Requests, r # q PROVE RequestEvidence(r)'
  BY <1>1, <1>2, <1>3, <1>5, EvidenceKept DEF CreateRequest
<1>6. \A v \in Workers : EvidenceSeen(v)'
  BY <1>2, SeenKept DEF CreateRequest
<1> QED
  BY <1>4, <1>5, <1>6 DEF EvidenceInv

(* A step of w that writes no row but its own transaction.                 *)
LEMMA ReadEvidence ==
    ASSUME TypeOK, EvidenceInv, NEW w \in Workers, NEW state,
           UNCHANGED <<requests, approvals, payments, attempts, receipts, audit>>,
           tx' = [tx EXCEPT ![w] = state],
           EvidenceSeen(w)'
    PROVE  EvidenceInv'
<1>1. \A r \in Requests : Onward(r)
  BY DEF Onward, Created, Decided
<1>2. \A v \in Workers : v # w => tx'[v] = tx[v]
  BY DEF TypeOK
<1>3. \A v \in Workers : EvidenceSeen(v)'
  BY <1>1, <1>2, SeenKept
<1>4. \A r \in Requests : RequestEvidence(r)'
  BY DEF EvidenceInv, RequestEvidence, AttemptsOf, Explains
<1> QED
  BY <1>3, <1>4 DEF EvidenceInv

(* A commit of w to the rows of request q.                                 *)
LEMMA CommitEvidence ==
    ASSUME TypeOK, EvidenceInv, NEW w \in Workers, NEW q \in Requests, Finish(w),
           Onward(q), RequestEvidence(q)',
           \A r \in Requests : r # q =>
               /\ requests'[r] = requests[r] /\ approvals'[r] = approvals[r]
               /\ payments'[r] = payments[r] /\ receipts'[r] = receipts[r]
               /\ audit'[r] = audit[r] /\ AttemptsOf(r)' = AttemptsOf(r)
    PROVE  EvidenceInv'
<1>1. \A r \in Requests : Onward(r)
  BY DEF Onward, Created, Decided
<1>2. tx'[w] = Idle /\ \A v \in Workers : v # w => tx'[v] = tx[v]
  BY DEF Finish, TypeOK
<1>3. EvidenceSeen(w)'
  BY <1>2 DEF EvidenceSeen, Idle, PayingPcs
<1>4. \A v \in Workers : EvidenceSeen(v)'
  BY <1>1, <1>2, <1>3, SeenKept
<1>5. \A r \in Requests : RequestEvidence(r)'
  BY <1>1, EvidenceKept
<1> QED
  BY <1>4, <1>5 DEF EvidenceInv

(* decideBuyerApproval records the decision it writes, also when it        *)
(* overwrites another.                                                     *)
LEMMA CommitDecisionEvidence ==
    ASSUME TypeOK, EvidenceInv, NEW w \in Workers, NEW decision \in {"APPROVED", "REJECTED"},
           CommitDecision(w, decision)
    PROVE  EvidenceInv'
<1>1. PICK q \in Requests : q = tx[w].req
  BY TxShape DEF CommitDecision, ApprovalRead
<1>2. /\ requests'[q].status = decision /\ requests'[q].fulfillment = requests[q].fulfillment
      /\ approvals'[q] = decision
      /\ audit'[q] = audit[q] \cup
            {IF decision = "APPROVED" THEN "approval_granted" ELSE "approval_denied"}
      /\ \A r \in Requests : r # q => /\ requests'[r] = requests[r]
                                      /\ approvals'[r] = approvals[r]
                                      /\ audit'[r] = audit[r]
  BY <1>1 DEF CommitDecision, TypeOK, RequestRow, Record
<1>3. \A r \in Requests : AttemptsOf(r)' = AttemptsOf(r)
  BY DEF CommitDecision, AttemptsOf
<1>4. Onward(q)
  BY <1>2 DEF Onward
<1>5. RequestEvidence(q)'
  <2>1. RequestEvidence(q)
    BY DEF EvidenceInv
  <2> QED
    BY <1>2, <1>3, <2>1 DEF RequestEvidence, Explains, CommitDecision
<1>6. Finish(w) /\ UNCHANGED <<payments, receipts>>
  BY DEF CommitDecision
<1> QED
  BY <1>2, <1>3, <1>4, <1>5, <1>6, CommitEvidence

(* recordSellerRequestFulfillment records the delivery that explains its   *)
(* status.                                                                 *)
LEMMA CommitFulfillmentEvidence ==
    ASSUME TypeOK, EvidenceInv, NEW w \in Workers, NEW fulfillment \in {"DELIVERED", "FAILED"},
           CommitFulfillment(w, fulfillment)
    PROVE  EvidenceInv'
<1>1. PICK q \in Requests : q = tx[w].req /\ tx[w].seen \in RequestRow
  BY TxShape DEF CommitFulfillment, FulfilRead
<1>2. /\ requests'[q] = [tx[w].seen EXCEPT !.status = StatusAfterFulfillment(fulfillment),
                                           !.fulfillment = fulfillment]
      /\ audit'[q] = audit[q] \cup {IF fulfillment = "DELIVERED"
                                    THEN "seller_delivery_confirmed"
                                    ELSE "seller_delivery_failed"}
      /\ \A r \in Requests : r # q => requests'[r] = requests[r] /\ audit'[r] = audit[r]
  BY <1>1 DEF CommitFulfillment, TypeOK, Record
<1>3. /\ requests'[q].status = IF fulfillment = "DELIVERED" THEN "COMPLETED" ELSE "FAILED"
      /\ requests'[q].fulfillment = fulfillment
  BY <1>1, <1>2 DEF StatusAfterFulfillment, RequestRow
<1>4. \A r \in Requests : AttemptsOf(r)' = AttemptsOf(r)
  BY DEF CommitFulfillment, AttemptsOf
<1>5. Onward(q)
  BY <1>2, <1>3 DEF Onward
<1>6. UNCHANGED <<approvals, payments, receipts>> /\ Finish(w)
  BY DEF CommitFulfillment
<1>7. RequestEvidence(q)'
  <2>1. RequestEvidence(q) /\ Decided(q)
    BY <1>1 DEF EvidenceInv, EvidenceSeen, CommitFulfillment
  <2> QED
    BY <1>2, <1>3, <1>4, <1>6, <2>1 DEF RequestEvidence, Explains, Decided
<1> QED
  BY <1>2, <1>4, <1>5, <1>6, <1>7, CommitEvidence

(* A pause or a release changes nothing that explains a status.            *)
LEMMA CommitControlEvidence ==
    ASSUME TypeOK, EvidenceInv, NEW w \in Workers, CommitControl(w)
    PROVE  EvidenceInv'
<1>1. PICK q \in Requests : q = tx[w].req
  BY TxShape DEF CommitControl, ControlRead
<1>2. /\ requests'[q].status = requests[q].status
      /\ requests'[q].fulfillment = tx[w].seen.fulfillment
      /\ \A r \in Requests : r # q => requests'[r] = requests[r]
  BY <1>1 DEF CommitControl, TypeOK, RequestRow
<1>3. UNCHANGED <<approvals, payments, attempts, receipts, audit>> /\ Finish(w)
  BY DEF CommitControl
<1>4. \A r \in Requests : AttemptsOf(r)' = AttemptsOf(r)
  BY <1>3 DEF AttemptsOf
<1>5. Onward(q)
  BY <1>2, <1>3 DEF Onward, Created, Decided
<1>6. RequestEvidence(q)'
  <2>1. RequestEvidence(q) /\ Explains(tx[w].seen, audit[q])
    BY <1>1 DEF EvidenceInv, EvidenceSeen, CommitControl
  <2> QED
    BY <1>2, <1>3, <1>4, <2>1 DEF RequestEvidence, Explains
<1> QED
  BY <1>2, <1>3, <1>4, <1>5, <1>6, CommitEvidence

(* executePayment's new status is explained by its attempt and by the      *)
(* delivery it had read.                                                   *)
LEMMA CommitPaymentEvidence ==
    ASSUME TypeOK, EvidenceInv, NEW w \in Workers, CommitPayment(w)
    PROVE  EvidenceInv'
<1> DEFINE t == tx[w]
<1>1. PICK q \in Requests : q = t.req
  BY TxShape DEF CommitPayment, RailExecuted
<1>2. t \in RailExecuted /\ t.pc = "railExecuted"
  BY TxShape DEF CommitPayment
<1>3. /\ RequestEvidence(q) /\ Decided(q)
      /\ "approval_granted" \in audit[q] /\ Explains(t.seen, audit[q])
  BY <1>1, <1>2 DEF EvidenceInv, EvidenceSeen, PayingPcs
<1>4. /\ requests'[q].status = StatusAfterPayment(t.outcome, t.seen.fulfillment)
      /\ requests'[q].fulfillment = requests[q].fulfillment
      /\ payments'[q] = [rail |-> t.rail, status |-> t.outcome]
      /\ receipts'[q] = ReceiptStatusFor(t.outcome, t.seen.fulfillment)
      /\ audit[q] \subseteq audit'[q]
  BY <1>1 DEF CommitPayment, TypeOK, RequestRow, Record, PaidRow
<1>5. /\ \A r \in Requests : r # q =>
            /\ requests'[r] = requests[r] /\ payments'[r] = payments[r]
            /\ receipts'[r] = receipts[r] /\ audit'[r] = audit[r]
      /\ UNCHANGED approvals /\ Finish(w)
  BY <1>1 DEF CommitPayment, TypeOK, Record
<1>6. attempts' = attempts \cup {NewAttempt(w)} /\ NewAttempt(w).req = q
      /\ NewAttempt(w).status = t.outcome
  BY <1>1 DEF CommitPayment, NewAttempt
<1>7. \A r \in Requests : r # q => AttemptsOf(r)' = AttemptsOf(r)
  BY <1>6 DEF AttemptsOf
<1>8. NewAttempt(w) \in AttemptsOf(q)'
  BY <1>6 DEF AttemptsOf
<1>9. Onward(q)
  BY <1>4 DEF Onward, StatusAfterPayment
<1>10. payments'[q] # NoPayment
  BY <1>2, <1>4 DEF RailExecuted, NoPayment, PaymentStatuses
<1>11. RequestEvidence(q)'
  <2>1. /\ requests'[q].status \in {"EXECUTING", "COMPLETED", "FAILED"}
        /\ requests'[q].status = "COMPLETED" => t.seen.fulfillment = "DELIVERED"
        /\ requests'[q].status = "FAILED" =>
              t.seen.fulfillment = "FAILED" \/ IsRetryEligible(t.outcome)
    BY <1>4 DEF StatusAfterPayment, IsRetryEligible
  <2>2. receipts'[q] = "AVAILABLE" => t.seen.fulfillment = "DELIVERED"
    BY <1>4 DEF ReceiptStatusFor
  <2>3. requests'[q].status = "COMPLETED" \/ receipts'[q] = "AVAILABLE"
           => "seller_delivery_confirmed" \in audit'[q]
    BY <1>3, <1>4, <2>1, <2>2 DEF Explains
  <2>4. requests'[q].status = "FAILED" =>
           \/ "seller_delivery_failed" \in audit'[q]
           \/ \E a \in AttemptsOf(q)' : IsRetryEligible(a.status)
    BY <1>3, <1>4, <1>6, <1>8, <2>1 DEF Explains
  <2>5. approvals'[q] # "PENDING"
    BY <1>3, <1>5 DEF RequestEvidence, Decided
  <2>6. Explains(requests'[q], audit'[q])
    BY <1>3, <1>4 DEF RequestEvidence, Explains
  <2> QED
    BY <1>3, <1>4, <1>10, <2>1, <2>3, <2>4, <2>5, <2>6 DEF RequestEvidence, IsRetryEligible, Explains
<1> QED
  BY <1>5, <1>7, <1>9, <1>11, CommitEvidence

(* The evidence invariant is inductive relative to the types.              *)
LEMMA NextEvidence == TypeOK /\ EvidenceInv /\ [Next]_vars => EvidenceInv'
<1> SUFFICES ASSUME TypeOK, EvidenceInv, [Next]_vars PROVE EvidenceInv'
  OBVIOUS
<1>1. CASE UNCHANGED vars
  BY <1>1 DEF vars, EvidenceInv, RequestEvidence, EvidenceSeen, Created, Decided, Explains,
              AttemptsOf
<1>2. ASSUME NEW r \in Requests, OpenCase(r) PROVE EvidenceInv'
  BY <1>2 DEF OpenCase, EvidenceInv, RequestEvidence, EvidenceSeen, Created, Decided, Explains,
              AttemptsOf
<1>3. ASSUME NEW w \in Workers, NEW q \in Requests, ReadApproval(w, q) PROVE EvidenceInv'
  <2>1. tx'[w] = [pc |-> "approvalRead", req |-> q] /\ UNCHANGED requests
    BY <1>3 DEF ReadApproval, Begin, TypeOK
  <2>2. requests[q].status = "SUBMITTED"
    BY <1>3 DEF ReadApproval, EvidenceInv, RequestEvidence
  <2>3. EvidenceSeen(w)'
    BY <2>1, <2>2 DEF EvidenceSeen, PayingPcs, Created
  <2> QED
    BY <1>3, <2>3, ReadEvidence DEF ReadApproval, Begin
<1>4. ASSUME NEW w \in Workers, NEW q \in Requests, NEW rail, ReadRequest(w, q, rail)
      PROVE  EvidenceInv'
  <2>1. /\ tx'[w] = [pc |-> "requestRead", req |-> q, rail |-> rail, seen |-> requests[q]]
        /\ UNCHANGED <<requests, audit>>
    BY <1>4 DEF ReadRequest, Begin, TypeOK
  <2>2. /\ requests[q].status \in {"APPROVED", "EXECUTING"}
        /\ "approval_granted" \in audit[q] /\ Explains(requests[q], audit[q])
    BY <1>4 DEF ReadRequest, IsExecutionEligible, EvidenceInv, RequestEvidence
  <2>3. EvidenceSeen(w)'
    BY <2>1, <2>2 DEF EvidenceSeen, Decided, Explains
  <2> QED
    BY <1>4, <2>3, ReadEvidence DEF ReadRequest, Begin
<1>5. ASSUME NEW w \in Workers, NEW q \in Requests, ReadForFulfillment(w, q) PROVE EvidenceInv'
  <2>1. /\ tx'[w] = [pc |-> "fulfilRead", req |-> q, seen |-> requests[q]]
        /\ UNCHANGED requests
    BY <1>5 DEF ReadForFulfillment, Begin, TypeOK
  <2>2. EvidenceSeen(w)'
    BY <1>5, <2>1
       DEF ReadForFulfillment, IsFulfillmentAllowed, EvidenceSeen, PayingPcs, Decided
  <2> QED
    BY <1>5, <2>2, ReadEvidence DEF ReadForFulfillment, Begin
<1>6. ASSUME NEW w \in Workers, NEW q \in Requests, NEW action, CheckControl(w, q, action)
      PROVE  EvidenceInv'
  <2>1. tx'[w].pc = "controlChecked"
    BY <1>6 DEF CheckControl, Begin, TypeOK
  <2>2. EvidenceSeen(w)'
    BY <2>1 DEF EvidenceSeen, PayingPcs
  <2> QED
    BY <1>6, <2>2, ReadEvidence DEF CheckControl, Begin
<1>7. ASSUME NEW w \in Workers, ReadForControl(w) PROVE EvidenceInv'
  <2>1. PICK q \in Requests : q = tx[w].req
    BY <1>7, TxShape DEF ReadForControl, ControlChecked
  <2>2. /\ tx'[w].pc = "controlRead" /\ tx'[w].req = q /\ tx'[w].seen = requests[q]
        /\ UNCHANGED audit
    BY <1>7, <2>1 DEF ReadForControl, Proceed, TypeOK
  <2>3. Explains(requests[q], audit[q])
    BY DEF EvidenceInv, RequestEvidence
  <2>4. EvidenceSeen(w)'
    BY <2>2, <2>3 DEF EvidenceSeen, PayingPcs, Explains
  <2> QED
    BY <1>7, <2>4, ReadEvidence DEF ReadForControl, Proceed
<1>8. ASSUME NEW w \in Workers, Abort(w) PROVE EvidenceInv'
  <2>1. tx'[w].pc = "idle"
    BY <1>8 DEF Abort, Finish, TypeOK, Idle
  <2>2. EvidenceSeen(w)'
    BY <2>1 DEF EvidenceSeen, PayingPcs
  <2> QED
    BY <1>8, <2>2, ReadEvidence DEF Abort, Finish
<1>9. ASSUME NEW w \in Workers, PaymentStep(w) PROVE EvidenceInv'
  <2>1. /\ tx[w].pc \in PayingPcs
        /\ tx'[w].pc \in PayingPcs /\ tx'[w].req = tx[w].req /\ tx'[w].seen = tx[w].seen
        /\ \E state : tx' = [tx EXCEPT ![w] = state]
        /\ UNCHANGED <<requests, approvals, payments, attempts, receipts, audit>>
    BY <1>9 DEF PaymentStep, ReadPayment, ReadAttempts, ExecuteSimulatedRail, ExecuteStripeRail,
                ExecuteProgrammableRail, RailAnswers, Proceed, TypeOK, PayingPcs
  <2>2. EvidenceSeen(w)
    BY DEF EvidenceInv
  <2>3. EvidenceSeen(w)'
    BY <2>1, <2>2 DEF EvidenceSeen, PayingPcs, Decided, Explains
  <2> QED
    BY <2>1, <2>3, ReadEvidence
<1> QED
  BY <1>1, <1>2, <1>3, <1>4, <1>5, <1>6, <1>7, <1>8, <1>9, CreateRequestEvidence,
     CommitDecisionEvidence, CommitFulfillmentEvidence, CommitControlEvidence,
     CommitPaymentEvidence
     DEF Next, Serve, Continue, PaymentStep

(* In every reachable state approval, status, fulfilment and receipt of a  *)
(* request are explained by its audit trail and attempts, and so is what   *)
(* every handler in flight has read.                                       *)
THEOREM EvidenceHolds == Spec => [](TypeOK /\ EvidenceInv)
  BY InitTypeOK, NextTypeOK, InitEvidence, NextEvidence, PTL DEF Spec

(* The approval row and the request row agree, whichever handlers race.    *)
THEOREM AgreeingApproval == Spec => []ApprovalAgreesWithRequest
<1>1. EvidenceInv => ApprovalAgreesWithRequest
  BY DEF EvidenceInv, RequestEvidence, ApprovalAgreesWithRequest
<1> QED
  BY <1>1, EvidenceHolds, PTL

(* No request is ever paid that was not granted.                           *)
THEOREM GrantedPayment == Spec => []NoPaymentWithoutGrant
<1>1. EvidenceInv => NoPaymentWithoutGrant
  BY DEF EvidenceInv, RequestEvidence, NoPaymentWithoutGrant
<1> QED
  BY <1>1, EvidenceHolds, PTL

(* Every closing or advancing status is explained by other tables.         *)
THEOREM ExplainedStatus == Spec => []StatusIsExplained
<1>1. EvidenceInv => StatusIsExplained
  BY DEF EvidenceInv, RequestEvidence, StatusIsExplained
<1> QED
  BY <1>1, EvidenceHolds, PTL

(* A receipt never claims more than the payment and the delivery support.  *)
THEOREM BackedReceipt == Spec => []ReceiptIsBackedByPayment
<1>1. LedgerInv /\ EvidenceInv => ReceiptIsBackedByPayment
  BY DEF LedgerInv, ReceiptMatchesPayment, EvidenceInv, RequestEvidence, ReceiptIsBackedByPayment
<1> QED
  BY <1>1, LedgerHolds, EvidenceHolds, PTL

(* The payment tables agree with each other, whatever executions overlap.  *)
THEOREM AgreeingTables == Spec => []PaymentTablesAgree
  BY SequentialAttempts, MirroredAttempt, LockedRail, BackedReceipt, PTL DEF PaymentTablesAgree

-----------------------------------------------------------------------------
(* The provider's side: intents and card attempts.                         *)

CardAttempts(r) == {a \in AttemptsOf(r) : a.rail = "STRIPE"}

(* An execution that has called the card provider and may still record it. *)
CardCallOpen(w) ==
    /\ tx[w].pc = "railExecuted"
    /\ tx[w].rail = "STRIPE"
    /\ ~\E a \in AttemptsOf(tx[w].req) : a.number = tx[w].number

(* Such an execution has an intent no recorded attempt accounts for.  Two  *)
(* of them may share it: they hold the same number, and only one records.  *)
BackingInv ==
    /\ AttemptsAreBackedByIntents
    /\ \A w \in Workers : CardCallOpen(w) =>
          Cardinality(CardAttempts(tx[w].req)) < intents[tx[w].req]

(* A step that neither creates an intent nor records an attempt, and opens *)
(* no card call, keeps the backing.                                        *)
LEMMA BackingKept ==
    ASSUME BackingInv, UNCHANGED <<attempts, intents>>,
           \A v \in Workers : CardCallOpen(v)' => CardCallOpen(v) /\ tx'[v].req = tx[v].req
    PROVE  BackingInv'
<1>1. \A r : AttemptsOf(r)' = AttemptsOf(r)
  BY DEF AttemptsOf
<1>2. AttemptsAreBackedByIntents'
  BY <1>1 DEF BackingInv, AttemptsAreBackedByIntents
<1>3. ASSUME NEW v \in Workers, CardCallOpen(v)'
      PROVE  Cardinality(CardAttempts(tx[v].req))' < intents'[tx'[v].req]
  <2>1. CardCallOpen(v) /\ tx'[v].req = tx[v].req
    BY <1>3
  <2>2. CardAttempts(tx[v].req)' = CardAttempts(tx[v].req)
    BY <1>1, <2>1 DEF CardAttempts
  <2> QED
    BY <2>1, <2>2 DEF BackingInv
<1> QED
  BY <1>2, <1>3 DEF BackingInv

(* A step of w that leaves w without an open card call.                    *)
LEMMA BackingMoved ==
    ASSUME TypeOK, BackingInv, NEW w \in Workers, NEW state,
           tx' = [tx EXCEPT ![w] = state], UNCHANGED <<attempts, intents>>,
           state.pc # "railExecuted" \/ state.rail # "STRIPE"
    PROVE  BackingInv'
<1>1. tx'[w] = state /\ \A v \in Workers : v # w => tx'[v] = tx[v]
  BY DEF TypeOK
<1>2. \A v \in Workers : CardCallOpen(v)' => CardCallOpen(v) /\ tx'[v].req = tx[v].req
  BY <1>1 DEF CardCallOpen, AttemptsOf
<1> QED
  BY <1>2, BackingKept

(* The card attempts of a request can be counted.                          *)
LEMMA CardAttemptsFinite ==
    ASSUME LedgerInv, NEW r \in Requests
    PROVE  IsFiniteSet(CardAttempts(r)) /\ Cardinality(CardAttempts(r)) \in Nat
<1>1. CardAttempts(r) \subseteq AttemptsOf(r)
  BY DEF CardAttempts
<1>2. IsFiniteSet(CardAttempts(r))
  BY <1>1, AttemptsFinite, FS_Subset
<1> QED
  BY <1>2, FS_CardinalityType

(* The call that creates an intent leaves one more intent than recorded    *)
(* attempts.                                                               *)
LEMMA StripeBacking ==
    ASSUME TypeOK, LedgerInv, BackingInv, NEW w \in Workers, NEW status,
           ExecuteStripeRail(w, status)
    PROVE  BackingInv'
<1> DEFINE q == tx[w].req
<1>1. q \in Requests
  BY TxShape DEF ExecuteStripeRail, RailAnswers, AttemptsRead
<1>2. /\ intents'[q] = intents[q] + 1
      /\ \A r \in Requests : r # q => intents'[r] = intents[r]
      /\ \A r \in Requests : intents[r] \in Nat
  BY <1>1, LifecycleAssumption DEF ExecuteStripeRail, TypeOK
<1>3. /\ tx'[w].req = q
      /\ \A v \in Workers : v # w => tx'[v] = tx[v]
  BY DEF ExecuteStripeRail, RailAnswers, Proceed, TypeOK
<1>4. \A r : AttemptsOf(r)' = AttemptsOf(r) /\ CardAttempts(r)' = CardAttempts(r)
  BY DEF ExecuteStripeRail, AttemptsOf, CardAttempts
<1>5. \A r \in Requests : Cardinality(CardAttempts(r)) \in Nat
  BY CardAttemptsFinite
<1>6. \A r \in Requests : Cardinality(CardAttempts(r)) <= intents[r]
  BY DEF BackingInv, AttemptsAreBackedByIntents, CardAttempts
<1>7. \A r \in Requests : Cardinality(CardAttempts(r)') <= intents'[r]
  BY <1>2, <1>4, <1>5, <1>6
<1>8. AttemptsAreBackedByIntents'
  BY <1>7 DEF AttemptsAreBackedByIntents, CardAttempts
<1>9. ASSUME NEW v \in Workers, CardCallOpen(v)'
      PROVE  Cardinality(CardAttempts(tx[v].req)') < intents'[tx'[v].req]
  <2>1. CASE v = w
    BY <2>1, <1>1, <1>2, <1>3, <1>4, <1>5, <1>6
  <2>2. CASE v # w
    <3>1. tx'[v] = tx[v]
      BY <2>2, <1>3
    <3>2. CardCallOpen(v)
      BY <1>9, <3>1, <1>4 DEF CardCallOpen
    <3>3. tx[v].req \in Requests
      BY <3>2, TxShape DEF CardCallOpen, RailExecuted
    <3>4. Cardinality(CardAttempts(tx[v].req)) < intents[tx[v].req]
      BY <3>2 DEF BackingInv
    <3> QED
      BY <3>1, <3>3, <3>4, <1>2, <1>4, <1>5
  <2> QED
    BY <2>1, <2>2
<1> QED
  BY <1>3, <1>4, <1>8, <1>9 DEF BackingInv, CardAttempts

(* Recording an attempt uses up the intent; an execution with the same     *)
(* number can no longer record its own.                                    *)
LEMMA CommitPaymentBacking ==
    ASSUME TypeOK, LedgerInv, BackingInv, NEW w \in Workers, CommitPayment(w)
    PROVE  BackingInv'
<1>1. PICK q \in Requests : q = tx[w].req
  BY TxShape DEF CommitPayment, RailExecuted
<1>2. UNCHANGED intents /\ \A r \in Requests : intents[r] \in Nat
  BY LifecycleAssumption DEF CommitPayment, TypeOK
<1>3. tx'[w] = Idle /\ \A v \in Workers : v # w => tx'[v] = tx[v]
  BY DEF CommitPayment, Finish, TypeOK
<1>4. /\ AttemptsOf(q)' = AttemptsOf(q) \cup {NewAttempt(w)}
      /\ \A r \in Requests : r # q => AttemptsOf(r)' = AttemptsOf(r)
  BY <1>1, AttemptsAfterCommit
<1>5. ASSUME NEW r \in Requests, r # q PROVE CardAttempts(r)' = CardAttempts(r)
  BY <1>4, <1>5 DEF CardAttempts
<1>6. Cardinality(CardAttempts(q)') <= intents[q]
  <2>1. Cardinality(CardAttempts(q)) <= intents[q] /\ IsFiniteSet(CardAttempts(q))
        /\ Cardinality(CardAttempts(q)) \in Nat
    BY <1>1, CardAttemptsFinite DEF BackingInv, AttemptsAreBackedByIntents, CardAttempts
  <2>2. CASE tx[w].rail # "STRIPE"
    <3>1. CardAttempts(q)' = CardAttempts(q)
      BY <2>2, <1>4 DEF CardAttempts, NewAttempt
    <3> QED
      BY <2>1, <3>1
  <2>3. CASE tx[w].rail = "STRIPE"
    <3>1. CardAttempts(q)' = CardAttempts(q) \cup {NewAttempt(w)}
      BY <2>3, <1>4 DEF CardAttempts, NewAttempt
    <3>2. NewAttempt(w) \notin CardAttempts(q)
      BY <1>1 DEF CommitPayment, NoDuplicateRow, NewAttempt, CardAttempts
    <3>3. Cardinality(CardAttempts(q)') = Cardinality(CardAttempts(q)) + 1
      BY <2>1, <3>1, <3>2, FS_AddElement
    <3>4. Cardinality(CardAttempts(q)) < intents[q]
      BY <1>1, <2>3 DEF CommitPayment, NoDuplicateRow, CardCallOpen, BackingInv
    <3> QED
      BY <2>1, <3>3, <3>4, <1>1, <1>2
  <2> QED
    BY <2>2, <2>3
<1>7. ASSUME NEW r \in Requests PROVE Cardinality(CardAttempts(r)') <= intents'[r]
  BY <1>2, <1>5, <1>6 DEF BackingInv, AttemptsAreBackedByIntents, CardAttempts
<1>8. AttemptsAreBackedByIntents'
  BY <1>7 DEF AttemptsAreBackedByIntents, CardAttempts
<1>9. ASSUME NEW v \in Workers, CardCallOpen(v)'
      PROVE  tx'[v] = tx[v] /\ Cardinality(CardAttempts(tx[v].req))' < intents[tx[v].req]
  <2>1. v # w /\ tx'[v] = tx[v]
    BY <1>3, <1>9 DEF CardCallOpen, Idle
  <2>2. tx[v].pc = "railExecuted"
    BY <2>1, <1>9 DEF CardCallOpen
  <2>3. PICK r \in Requests : r = tx[v].req
    BY <2>2, TxShape DEF RailExecuted
  <2>4. ~\E a \in AttemptsOf(r)' : a.number = tx[v].number
    BY <2>1, <2>3, <1>9 DEF CardCallOpen, AttemptsOf
  <2>5. ~\E a \in AttemptsOf(r) : a.number = tx[v].number
    BY <2>4, <1>4
  <2>6. r # q
    <3> SUFFICES ASSUME r = q PROVE FALSE
      OBVIOUS
    <3>1. tx[v].number = tx[w].number
      BY <1>1, <2>2, <2>3, <2>5, FreeNumberIsNext, CommitIsNext
    <3>2. NewAttempt(w) \in AttemptsOf(q)' /\ NewAttempt(w).number = tx[w].number
      BY <1>1, <1>4 DEF NewAttempt
    <3> QED
      BY <2>4, <3>1, <3>2
  <2>7. CardCallOpen(v)
    BY <2>1, <2>3, <2>5, <1>9 DEF CardCallOpen
  <2>8. Cardinality(CardAttempts(r)) < intents[r]
    BY <2>3, <2>7 DEF BackingInv
  <2>9. CardAttempts(r)' = CardAttempts(r)
    BY <2>6, <1>5
  <2> QED
    BY <2>1, <2>3, <2>8, <2>9
<1>10. ASSUME NEW v \in Workers, CardCallOpen(v)'
       PROVE  Cardinality(CardAttempts(tx[v].req))' < intents'[tx'[v].req]
  BY <1>9, <1>10, <1>2 DEF CardAttempts, AttemptsOf
<1> QED
  BY <1>8, <1>10 DEF BackingInv

(* The backing is inductive relative to the types and the ledger.          *)
LEMMA NextBacking == TypeOK /\ LedgerInv /\ BackingInv /\ [Next]_vars => BackingInv'
<1> SUFFICES ASSUME TypeOK, LedgerInv, BackingInv, [Next]_vars PROVE BackingInv'
  OBVIOUS
<1>1. CASE UNCHANGED vars
  BY <1>1, BackingKept DEF vars, CardCallOpen, AttemptsOf
<1>2. ASSUME NEW r \in Requests, NEW verdict, CreateRequest(r, verdict) PROVE BackingInv'
  BY <1>2, BackingKept DEF CreateRequest, CardCallOpen, AttemptsOf
<1>3. ASSUME NEW r \in Requests, OpenCase(r) PROVE BackingInv'
  BY <1>3, BackingKept DEF OpenCase, CardCallOpen, AttemptsOf
<1>4. ASSUME NEW w \in Workers, Serve(w) PROVE BackingInv'
  BY <1>4, BackingMoved
     DEF Serve, ReadApproval, ReadRequest, ReadForFulfillment, CheckControl, Begin
<1>5. ASSUME NEW w \in Workers, Continue(w) PROVE BackingInv'
  <2>1. ASSUME NEW decision, CommitDecision(w, decision) PROVE BackingInv'
    BY <2>1, BackingMoved DEF CommitDecision, Finish, Idle
  <2>2. ASSUME NEW fulfillment, CommitFulfillment(w, fulfillment) PROVE BackingInv'
    BY <2>2, BackingMoved DEF CommitFulfillment, Finish, Idle
  <2>3. CASE ReadForControl(w)
    BY <2>3, BackingMoved DEF ReadForControl, Proceed
  <2>4. CASE CommitControl(w)
    BY <2>4, BackingMoved DEF CommitControl, Finish, Idle
  <2>5. CASE Abort(w)
    BY <2>5, BackingMoved DEF Abort, Finish, Idle
  <2>6. CASE ReadPayment(w)
    BY <2>6, BackingMoved DEF ReadPayment, Proceed
  <2>7. CASE ReadAttempts(w)
    BY <2>7, BackingMoved DEF ReadAttempts, Proceed
  <2>8. CASE ExecuteSimulatedRail(w)
    BY <2>8, BackingMoved DEF ExecuteSimulatedRail, RailAnswers, Proceed
  <2>9. CASE ExecuteProgrammableRail(w)
    BY <2>9, BackingMoved DEF ExecuteProgrammableRail, RailAnswers, Proceed
  <2> QED
    BY <1>5, <2>1, <2>2, <2>3, <2>4, <2>5, <2>6, <2>7, <2>8, <2>9, StripeBacking,
       CommitPaymentBacking
       DEF Continue
<1> QED
  BY <1>1, <1>2, <1>3, <1>4, <1>5 DEF Next

(* Before the first request there is neither an attempt nor a call.        *)
LEMMA InitBacking == Init => BackingInv
<1> SUFFICES ASSUME Init PROVE BackingInv
  OBVIOUS
<1>1. \A r : CardAttempts(r) = {}
  BY DEF Init, CardAttempts, AttemptsOf
<1>2. \A r \in Requests : Cardinality(CardAttempts(r)) <= intents[r]
  BY <1>1, FS_EmptySet DEF Init
<1>3. \A w \in Workers : ~CardCallOpen(w)
  BY DEF Init, CardCallOpen, Idle
<1> QED
  BY <1>2, <1>3 DEF BackingInv, AttemptsAreBackedByIntents, CardAttempts

(* The ledger never records more card attempts than the provider was       *)
(* called for, although the provider's side survives every rollback and    *)
(* executions that share an attempt number call it independently.          *)
THEOREM BackedAttempts == Spec => []AttemptsAreBackedByIntents
<1>1. BackingInv => AttemptsAreBackedByIntents
  BY DEF BackingInv
<1> QED
  BY <1>1, InitTypeOK, NextTypeOK, InitLedger, NextLedger, InitBacking, NextBacking, PTL DEF Spec

=============================================================================
