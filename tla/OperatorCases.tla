---------------------------- MODULE OperatorCases ----------------------------
(***************************************************************************)
(* The operator workspace (packages/database/src/operator-workflow.ts).    *)
(* Every page first synchronizes the cases with the requests, statement by *)
(* statement and outside a transaction; an action of an operator is        *)
(* checked against the page and then committed on its own.  A requeue pays *)
(* in one transaction and records itself in a second.                      *)
(***************************************************************************)
EXTENDS FiniteSets, OperatorRules

CONSTANTS
    Requests,       \* the spend requests
    Ledgers,        \* the states the other workflows bring a request to
    FirstLedger,    \* the state a request is first seen in
    MaxAttempts,    \* payment attempts a request may have
    Actions,        \* the actions operators take
    Workers,        \* invocations that may be in flight together
    MaxServed       \* bound on invocations, so that TLC terminates

Categories == {"REQUEST_PAUSED", "RECEIPT_FAILURE", "PAYMENT_RETRY_EXHAUSTED", "PAYMENT_FAILURE",
               "SETTLEMENT_DELAY", "SELLER_CONFIRMATION_DELAY", "RECEIPT_PENDING"}
OpenStatuses == {"OPEN", "INVESTIGATING", "ACTION_REQUIRED"}
Closed       == {"RESOLVED", "CLOSED"}
ActionTypes  == {"ANNOTATE_CASE", "RESOLVE_CASE", "PAUSE_REQUEST", "RELEASE_REQUEST",
                 "REQUEUE_PAYMENT"}
LedgerRow    == [request: {"SUBMITTED", "APPROVED", "REJECTED", "EXECUTING", "COMPLETED",
                           "FAILED", "CANCELED"},
                 fulfillment: {"NONE", "DELIVERED", "FAILED"},
                 payment: {"NONE", "PENDING", "AUTHORIZED", "CAPTURED", "FAILED", "VOIDED"},
                 receipt: {"NONE", "PENDING", "AVAILABLE", "FAILED"},
                 attemptCount: 0..MaxAttempts]

ASSUME CasesAssumption ==
    /\ MaxAttempts \in Nat
    /\ MaxServed \in Nat
    /\ Ledgers \subseteq LedgerRow
    /\ FirstLedger \in Ledgers
    /\ Actions \subseteq ActionTypes

VARIABLES
    requests,   \* what the rules look at of each request, and its pause
    cases,      \* OperatorCase rows by their unique key
    notices,    \* status of the notification of each case
    served,     \* how many invocations have begun
    tx          \* what the invocation of each worker has read so far

vars == <<requests, cases, notices, served, tx>>

-----------------------------------------------------------------------------
(* Rows.  A fingerprint spells out what the rules look at, so it is that   *)
(* record.                                                                 *)
NoPrint == [request |-> "NONE"]
NoCase  == [status |-> "ABSENT"]
Opened(status, print) == [status |-> status, print |-> print, resolvedPrint |-> NoPrint]

Prints == {Signal(l.request, l.payment, l.receipt, l.fulfillment, p, l.attemptCount) :
              l \in LedgerRow, p \in BOOLEAN}

SignalOf(r) ==
    LET l == requests[r].ledger IN
    Signal(l.request, l.payment, l.receipt, l.fulfillment, requests[r].paused, l.attemptCount)

CaseKey(r, category) == <<category, r>>
Keys == {CaseKey(r, c) : r \in Requests, c \in Categories}

Category(s)   == ExceptionCategory(s, MaxAttempts)
KeyOf(r, s)   == CaseKey(r, Category(s))

(* Faulty: the severity of the exception taken for its status.             *)
OpeningSeverity(category) ==
    IF category \in {"RECEIPT_FAILURE", "PAYMENT_RETRY_EXHAUSTED"} THEN "CRITICAL" ELSE "HIGH"

(* The status a case is opened with.                                       *)
OpeningStatus(category) ==
    IF category \in {"REQUEST_PAUSED", "PAYMENT_RETRY_EXHAUSTED"} THEN "ACTION_REQUIRED"
    ELSE "OPEN"

Idle    == [pc |-> "idle"]
View    == [action |-> "VIEW"]
IsSyncing(t) == t.pc \in {"start", "rowsRead", "signalsRead", "writing", "synced"}

(* History: a synchronization is quiet while nobody else writes.           *)
Disturbed(t) == IF IsSyncing(t) THEN [t EXCEPT !.quiet = FALSE] ELSE t
Start(goal)  == [pc |-> "start", goal |-> goal, quiet |-> TRUE]

Proceed(w, state) == tx' = [tx EXCEPT ![w] = state]
Write(w, state)   == tx' = [x \in Workers |-> IF x = w THEN state ELSE Disturbed(tx[x])]

Init ==
    /\ requests = [r \in Requests |-> [ledger |-> FirstLedger, paused |-> FALSE]]
    /\ cases    = [k \in Keys |-> NoCase]
    /\ notices  = [k \in Keys |-> "NONE"]
    /\ served   = 0
    /\ tx       = [w \in Workers |-> Idle]

-----------------------------------------------------------------------------
(* The other workflows move a request on; attempts only accumulate.        *)
Progress(r, l) ==
    /\ l # requests[r].ledger
    /\ l.attemptCount >= requests[r].ledger.attemptCount
    /\ requests' = [requests EXCEPT ![r].ledger = l]
    /\ tx' = [x \in Workers |-> Disturbed(tx[x])]
    /\ UNCHANGED <<cases, notices, served>>

-----------------------------------------------------------------------------
(* syncOperatorCases.                                                      *)
BeginSync(w, goal) ==
    /\ tx[w] = Idle
    /\ served < MaxServed
    /\ served' = served + 1
    /\ Proceed(w, Start(goal))
    /\ UNCHANGED <<requests, cases, notices>>

(* Prisma loads the relations after the rows, with SELECTs of their own:   *)
(* payment, attempts and receipt may be those of a later state.            *)
ReadRequests(w) ==
    LET t == tx[w] IN
    /\ t.pc = "start"
    /\ Proceed(w, [pc |-> "rowsRead", goal |-> t.goal, quiet |-> t.quiet, rows |-> requests])
    /\ UNCHANGED <<requests, cases, notices, served>>

ReadLedgers(w) ==
    LET t == tx[w] IN
    /\ t.pc = "rowsRead"
    /\ Proceed(w, [pc |-> "signalsRead", goal |-> t.goal, quiet |-> t.quiet,
                   seen |-> [r \in Requests |->
                        LET row == t.rows[r].ledger  l == requests[r].ledger IN
                        Signal(row.request, l.payment, l.receipt, row.fulfillment,
                               t.rows[r].paused, l.attemptCount)]])
    /\ UNCHANGED <<requests, cases, notices, served>>

ReadCases(w) ==
    LET t == tx[w] IN
    /\ t.pc = "signalsRead"
    /\ Proceed(w, [pc |-> "writing", goal |-> t.goal, quiet |-> t.quiet, seen |-> t.seen,
                   cases |-> cases, done |-> {}, unnotified |-> {}])
    /\ UNCHANGED <<requests, cases, notices, served>>

Exceptional(t) == {r \in Requests : Category(t.seen[r]) # "NONE"}
ActiveKeys(t)  == {KeyOf(r, t.seen[r]) : r \in Exceptional(t)}

StaleKeys(t) == {k \in Keys : t.cases[k].status \in OpenStatuses /\ k \notin ActiveKeys(t)}

(* Faulty: a resolved case is left alone whatever becomes of the request.  *)
KeptWhateverHappens(row, s) ==
    [status |-> row.status, print |-> s, resolvedPrint |-> row.resolvedPrint]

(* A closed case is opened again once the request is not what it was when  *)
(* the case was resolved; status and resolution are those of the snapshot. *)
Refreshed(row, s) ==
    [status        |-> IF row.status \in Closed /\ row.resolvedPrint # s
                       THEN OpeningStatus(Category(s)) ELSE row.status,
     print         |-> s,
     resolvedPrint |-> row.resolvedPrint]

(* The row is updated by id, so it still exists; a creation needs its key. *)
WriteCase(w, r) ==
    LET t == tx[w]  s == t.seen[r]  k == KeyOf(r, s) IN
    /\ t.pc = "writing"
    /\ t.unnotified = {}
    /\ r \in Exceptional(t)
    /\ k \notin t.done
    /\ t.cases[k] = NoCase => cases[k] = NoCase
    /\ cases' = [cases EXCEPT ![k] = IF t.cases[k] = NoCase
                                     THEN Opened(OpeningStatus(Category(s)), s)
                                     ELSE Refreshed(t.cases[k], s)]
    /\ Write(w, [t EXCEPT !.unnotified = {k}])
    /\ UNCHANGED <<requests, notices, served>>

(* The update's metadata is not given, so the fingerprints stay.           *)
ResolveStale(w, k) ==
    LET t == tx[w] IN
    /\ t.pc = "writing"
    /\ t.unnotified = {}
    /\ ActiveKeys(t) \subseteq t.done
    /\ k \in StaleKeys(t) \ t.done
    /\ cases' = [cases EXCEPT ![k].status = "RESOLVED"]
    /\ Write(w, [t EXCEPT !.unnotified = {k}])
    /\ UNCHANGED <<requests, notices, served>>

(* Whether the case was active when this synchronization wrote it.         *)
NoticeFor(t, k) ==
    IF k \in ActiveKeys(t)
    THEN LET r == k[2]  row == t.cases[k] IN
         IF row = NoCase \/ Refreshed(row, t.seen[r]).status \notin Closed
         THEN "UNREAD" ELSE "READ"
    ELSE "READ"

NotifyCase(w, k) ==
    LET t == tx[w] IN
    /\ t.pc = "writing"
    /\ k \in t.unnotified
    /\ notices' = [notices EXCEPT ![k] = NoticeFor(t, k)]
    /\ Write(w, [t EXCEPT !.unnotified = {}, !.done = @ \cup {k}])
    /\ UNCHANGED <<requests, cases, served>>

EndSync(w) ==
    LET t == tx[w] IN
    /\ t.pc = "writing"
    /\ t.unnotified = {}
    /\ ActiveKeys(t) \cup StaleKeys(t) \subseteq t.done
    /\ Proceed(w, [pc |-> "synced", goal |-> t.goal, quiet |-> t.quiet])
    /\ UNCHANGED <<requests, cases, notices, served>>

-----------------------------------------------------------------------------
(* The page, or the action it was loaded for.                              *)
ShowPage(w) ==
    /\ tx[w].pc = "synced"
    /\ tx[w].goal = View
    /\ Proceed(w, Idle)
    /\ UNCHANGED <<requests, cases, notices, served>>

CheckAction(w) ==
    LET t == tx[w]  k == t.goal.key IN
    /\ t.pc = "synced"
    /\ t.goal # View
    /\ cases[k] # NoCase
    /\ t.goal.action \in AvailableActions(cases[k].status, SignalOf(k[2]))
    /\ Proceed(w, [pc |-> "checked", action |-> t.goal.action, key |-> k])
    /\ UNCHANGED <<requests, cases, notices, served>>

ReadForAction(w) ==
    LET t == tx[w] IN
    /\ t.pc = "checked"
    /\ t.action # "REQUEUE_PAYMENT"
    /\ Proceed(w, [pc |-> "actionRead", action |-> t.action, key |-> t.key,
                   row |-> cases[t.key], request |-> requests[t.key[2]]])
    /\ UNCHANGED <<requests, cases, notices, served>>

StatusAfter(action) ==
    CASE action = "RESOLVE_CASE"  -> "RESOLVED"
      [] action = "PAUSE_REQUEST" -> "ACTION_REQUIRED"
      [] OTHER                    -> "INVESTIGATING"

(* The metadata of the case, and that of the request under a pause or a    *)
(* release, are written back as they were read in this transaction.        *)
CommitAction(w) ==
    LET t == tx[w]  r == t.key[2] IN
    /\ t.pc = "actionRead"
    /\ cases' = [cases EXCEPT ![t.key] =
            [status        |-> StatusAfter(t.action),
             print         |-> t.row.print,
             resolvedPrint |-> IF t.action = "RESOLVE_CASE" THEN t.row.print
                               ELSE t.row.resolvedPrint]]
    /\ notices' = [notices EXCEPT ![t.key] =
            IF @ = "NONE" THEN @ ELSE IF t.action = "RESOLVE_CASE" THEN "READ" ELSE "UNREAD"]
    /\ requests' =
          IF t.action \in {"PAUSE_REQUEST", "RELEASE_REQUEST"}
          THEN [requests EXCEPT ![r].paused = (t.action = "PAUSE_REQUEST"),
                                ![r].ledger.fulfillment = t.request.ledger.fulfillment]
          ELSE requests
    /\ Write(w, Start(View))
    /\ UNCHANGED served

-----------------------------------------------------------------------------
(* A requeue: executeOperatorPayment commits a further attempt ...         *)
PayRequeue(w, l) ==
    LET t == tx[w]  now == requests[t.key[2]] IN
    /\ t.pc = "checked"
    /\ t.action = "REQUEUE_PAYMENT"
    /\ ~now.paused
    /\ IsExecutionEligible(now.ledger.request)
    /\ now.ledger.payment # "NONE" => IsRetryEligible(now.ledger.payment)
    /\ l.attemptCount = now.ledger.attemptCount + 1
    /\ requests' = [requests EXCEPT ![t.key[2]].ledger = l]
    /\ Write(w, [pc |-> "paid", key |-> t.key])
    /\ UNCHANGED <<cases, notices, served>>

(* ... and a second transaction touches the case.                          *)
RecordRequeue(w) ==
    LET k == tx[w].key IN
    /\ tx[w].pc = "paid"
    /\ cases'   = [cases EXCEPT ![k].status = "INVESTIGATING"]
    /\ notices' = [notices EXCEPT ![k] = IF @ = "NONE" THEN @ ELSE "UNREAD"]
    /\ Write(w, Start(View))
    /\ UNCHANGED <<requests, served>>

(* An action that is not offered, a case that is not there, a refused      *)
(* payment, a key somebody else created, a lost connection or a crash: the *)
(* statements that have committed stay.                                    *)
Abort(w) ==
    /\ tx[w] # Idle
    /\ Proceed(w, Idle)
    /\ UNCHANGED <<requests, cases, notices, served>>

-----------------------------------------------------------------------------
Sync(w) ==
    \/ ReadRequests(w) \/ ReadLedgers(w) \/ ReadCases(w) \/ EndSync(w)
    \/ \E r \in Requests : WriteCase(w, r)
    \/ \E k \in Keys : ResolveStale(w, k) \/ NotifyCase(w, k)

Act(w) ==
    \/ ShowPage(w) \/ CheckAction(w) \/ ReadForAction(w) \/ CommitAction(w)
    \/ \E l \in Ledgers : PayRequeue(w, l)
    \/ RecordRequeue(w)

Open(w) ==
    \/ BeginSync(w, View)
    \/ \E a \in Actions, k \in {x \in Keys : cases[x] # NoCase} :
          BeginSync(w, [action |-> a, key |-> k])

Next ==
    \/ \E r \in Requests, l \in Ledgers : Progress(r, l)
    \/ \E w \in Workers : Open(w) \/ Sync(w) \/ Act(w) \/ Abort(w)

Spec == Init /\ [][Next]_vars

-----------------------------------------------------------------------------
(* Types.                                                                  *)
CaseRow == [status: OpenStatuses \cup {"RESOLVED"}, print: Prints,
            resolvedPrint: Prints \cup {NoPrint}]

Goals == [action: {"VIEW"}] \cup [action: ActionTypes, key: Keys]

RequestRow == [ledger: LedgerRow, paused: BOOLEAN]

TypeOK ==
    /\ requests \in [Requests -> RequestRow]
    /\ cases    \in [Keys -> CaseRow \cup {NoCase}]
    /\ notices  \in [Keys -> {"NONE", "UNREAD", "READ"}]
    /\ served   \in 0..MaxServed
    /\ \A w \in Workers :
          LET t == tx[w] IN
          /\ t.pc \in {"idle", "start", "rowsRead", "signalsRead", "writing", "synced",
                       "checked", "actionRead", "paid"}
          /\ IsSyncing(t) => t.goal \in Goals /\ t.quiet \in BOOLEAN
          /\ t.pc \in {"checked", "actionRead", "paid"} => t.key \in Keys

-----------------------------------------------------------------------------
(* Safety.                                                                 *)

(* The case and the notification of one request say what the request is:   *)
(* its exception has a case that is open and announced, or was resolved in *)
(* exactly this state; every other case of the request is closed.          *)
IsExact(r) ==
    LET s == SignalOf(r)  k == KeyOf(r, s) IN
    /\ Category(s) # "NONE" =>
          /\ cases[k] # NoCase
          /\ IF cases[k].status \in Closed
             THEN cases[k].resolvedPrint = s /\ notices[k] = "READ"
             ELSE notices[k] = "UNREAD"
    /\ \A c \in Categories \ {Category(s)} :
          cases[CaseKey(r, c)].status \notin OpenStatuses

(* A page shows the truth: a synchronization nobody wrote beside leaves    *)
(* the cases of every request exact, whatever earlier synchronizations     *)
(* that raced or were cut short, crashed requeues and resolutions left.    *)
CleanSyncIsExact ==
    \A w \in Workers :
        tx[w].pc = "synced" /\ tx[w].quiet => \A r \in Requests : IsExact(r)

=============================================================================
