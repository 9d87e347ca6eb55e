-------------------------- MODULE OperatorCasesProofs --------------------------
(***************************************************************************)
(* Proofs about OperatorCases, for any requests, ledgers, workers, actions *)
(* and number of attempts.                                                 *)
(***************************************************************************)
EXTENDS OperatorCases, TLAPS

-----------------------------------------------------------------------------
(* Types.                                                                  *)

(* What a worker holds, by how far its invocation is.                      *)
Starting   == [pc: {"start", "synced"}, goal: Goals, quiet: BOOLEAN]
WithRows   == [pc: {"rowsRead"}, goal: Goals, quiet: BOOLEAN, rows: [Requests -> RequestRow]]
WithSeen   == [pc: {"signalsRead"}, goal: Goals, quiet: BOOLEAN, seen: [Requests -> Prints]]
Writing    == [pc: {"writing"}, goal: Goals, quiet: BOOLEAN, seen: [Requests -> Prints],
               cases: [Keys -> CaseRow \cup {NoCase}], done: SUBSET Keys, unnotified: SUBSET Keys]
Checked    == [pc: {"checked"}, action: ActionTypes, key: Keys]
ActionRead == [pc: {"actionRead"}, action: ActionTypes, key: Keys, row: CaseRow, request: RequestRow]
Paid       == [pc: {"paid"}, key: Keys]
TxStates   == {Idle} \cup Starting \cup WithRows \cup WithSeen \cup Writing
                \cup Checked \cup ActionRead \cup Paid

(* Rows are never deleted: what an action or a synchronization has seen is  *)
(* still there.                                                            *)
StillThere(t, held) ==
    /\ t.pc \in {"checked", "actionRead", "paid"} => held[t.key] # NoCase
    /\ t.pc = "writing" => \A k \in Keys : t.cases[k] # NoCase => held[k] # NoCase

TypeInv ==
    /\ TypeOK
    /\ tx \in [Workers -> TxStates]
    /\ \A w \in Workers : StillThere(tx[w], cases)

-----------------------------------------------------------------------------
(* What a quiet synchronization has seen is how things are, and what it has *)
(* written is what it meant to.                                            *)
SeesRequests(t) ==
    /\ t.pc = "rowsRead" => t.rows = requests
    /\ t.pc \in {"signalsRead", "writing"} => \A r \in Requests : t.seen[r] = SignalOf(r)

Meant(t, k) ==
    IF k \in ActiveKeys(t)
    THEN IF t.cases[k] = NoCase THEN Opened(OpeningStatus(Category(t.seen[k[2]])), t.seen[k[2]])
                                ELSE Refreshed(t.cases[k], t.seen[k[2]])
    ELSE [t.cases[k] EXCEPT !.status = "RESOLVED"]

WroteCases(t, held) ==
    t.pc = "writing" =>
        /\ \A x, y \in t.unnotified : x = y
        /\ t.done \cup t.unnotified \subseteq ActiveKeys(t) \cup StaleKeys(t)
        /\ \A k \in Keys : held[k] = IF k \in t.done \cup t.unnotified THEN Meant(t, k) ELSE t.cases[k]

WroteNotices(t, told) ==
    t.pc = "writing" => \A k \in t.done : told[k] = NoticeFor(t, k)

QuietHolds(t) ==
    IsSyncing(t) /\ t.quiet =>
        /\ SeesRequests(t) /\ WroteCases(t, cases) /\ WroteNotices(t, notices)
        /\ t.pc = "synced" => \A r \in Requests : IsExact(r)

SyncInv == TypeInv /\ \A w \in Workers : QuietHolds(tx[w])

-----------------------------------------------------------------------------
(* Rules and rows.                                                         *)

(* The rules return a category, and a case is opened with an open status.  *)
LEMMA RulesShape ==
    /\ \A s : Category(s) \in Categories \cup {"NONE"}
    /\ \A c : OpeningStatus(c) \in {"OPEN", "ACTION_REQUIRED"}
    /\ \A a : StatusAfter(a) \in {"RESOLVED", "ACTION_REQUIRED", "INVESTIGATING"}
BY DEF Category, ExceptionCategory, Categories, OpeningStatus, StatusAfter

(* What a synchronization sees of a request is a fingerprint, though the    *)
(* row and its relations may be of two states.                             *)
LEMMA SignalShape ==
    ASSUME NEW l \in LedgerRow, NEW m \in LedgerRow, NEW p \in BOOLEAN
    PROVE  Signal(l.request, m.payment, m.receipt, l.fulfillment, p, m.attemptCount) \in Prints
<1> DEFINE n == [request |-> l.request, fulfillment |-> l.fulfillment, payment |-> m.payment,
                 receipt |-> m.receipt, attemptCount |-> m.attemptCount]
<1>1. n \in LedgerRow
  BY DEF LedgerRow
<1>2. /\ n.request = l.request /\ n.fulfillment = l.fulfillment /\ n.payment = m.payment
      /\ n.receipt = m.receipt /\ n.attemptCount = m.attemptCount
  OBVIOUS
<1> HIDE DEF n
<1>3. Signal(n.request, n.payment, n.receipt, n.fulfillment, p, n.attemptCount) \in Prints
  BY <1>1 DEF Prints
<1> QED
  BY <1>2, <1>3

(* Keys are named by their request and category, no two alike.             *)
LEMMA KeyShape ==
    ASSUME NEW r \in Requests, NEW c \in Categories
    PROVE  /\ CaseKey(r, c) \in Keys /\ CaseKey(r, c)[2] = r
           /\ \A q, d : CaseKey(q, d) = CaseKey(r, c) => q = r /\ d = c
BY DEF CaseKey, Keys

(* A key tells its request and has a category.                             *)
LEMMA KeyRequest ==
    ASSUME NEW k \in Keys
    PROVE  k[2] \in Requests /\ \E c \in Categories : k = CaseKey(k[2], c)
BY DEF Keys, CaseKey

(* No row is the missing one.                                              *)
LEMMA CaseShape ==
    /\ \A row \in CaseRow : row # NoCase /\ row.status \in OpenStatuses \cup {"RESOLVED"}
    /\ NoCase.status \notin OpenStatuses \cup Closed
BY DEF CaseRow, NoCase, OpenStatuses, Closed

(* What a synchronization or an action makes of a case is a case.          *)
LEMMA WrittenShape ==
    ASSUME NEW row \in CaseRow, NEW s \in Prints
    PROVE  /\ Refreshed(row, s) \in CaseRow
           /\ Opened(OpeningStatus(Category(s)), s) \in CaseRow
           /\ \A status \in OpenStatuses \cup {"RESOLVED"} : [row EXCEPT !.status = status] \in CaseRow
<1>1. OpeningStatus(Category(s)) \in OpenStatuses
  BY RulesShape DEF OpenStatuses
<1>2. Refreshed(row, s) \in CaseRow
  <2> DEFINE status == IF row.status \in Closed /\ row.resolvedPrint # s
                       THEN OpeningStatus(Category(s)) ELSE row.status
  <2>1. status \in OpenStatuses \cup {"RESOLVED"}
    BY <1>1 DEF CaseRow
  <2>2. Refreshed(row, s) = [status |-> status, print |-> s, resolvedPrint |-> row.resolvedPrint]
    BY DEF Refreshed
  <2> HIDE DEF status
  <2> QED
    BY <2>1, <2>2 DEF CaseRow
<1>3. Opened(OpeningStatus(Category(s)), s) \in CaseRow
  BY <1>1 DEF Opened, CaseRow
<1>4. \A status \in OpenStatuses \cup {"RESOLVED"} : [row EXCEPT !.status = status] \in CaseRow
  BY DEF CaseRow
<1> QED
  BY <1>2, <1>3, <1>4

-----------------------------------------------------------------------------
(* Type correctness.                                                       *)

(* The state of a worker, by its step.                                     *)
LEMMA TxShape ==
    ASSUME TypeInv, NEW w \in Workers
    PROVE  /\ tx[w] \in TxStates
           /\ tx[w].pc \in {"start", "synced"} => tx[w] \in Starting
           /\ tx[w].pc = "rowsRead" => tx[w] \in WithRows
           /\ tx[w].pc = "signalsRead" => tx[w] \in WithSeen
           /\ tx[w].pc = "writing" => tx[w] \in Writing
           /\ tx[w].pc = "checked" => tx[w] \in Checked
           /\ tx[w].pc = "actionRead" => tx[w] \in ActionRead
           /\ tx[w].pc = "paid" => tx[w] \in Paid
           /\ StillThere(tx[w], cases)
<1>1. tx[w] \in TxStates /\ StillThere(tx[w], cases)
  BY DEF TypeInv
<1>2. /\ Idle.pc = "idle" /\ \A t \in Starting : t.pc \in {"start", "synced"}
      /\ \A t \in WithRows : t.pc = "rowsRead"
      /\ \A t \in WithSeen : t.pc = "signalsRead"
      /\ \A t \in Writing : t.pc = "writing"
      /\ \A t \in Checked : t.pc = "checked"
      /\ \A t \in ActionRead : t.pc = "actionRead"
      /\ \A t \in Paid : t.pc = "paid"
  BY DEF Idle, Starting, WithRows, WithSeen, Writing, Checked, ActionRead, Paid
<1> QED
  BY <1>1, <1>2 DEF TxStates

(* What TypeOK says of a worker follows from the shape of its state.       *)
LEMMA TxTypes ==
    ASSUME NEW t \in TxStates
    PROVE  /\ t.pc \in {"idle", "start", "rowsRead", "signalsRead", "writing", "synced",
                        "checked", "actionRead", "paid"}
           /\ IsSyncing(t) => t.goal \in Goals /\ t.quiet \in BOOLEAN
           /\ t.pc \in {"checked", "actionRead", "paid"} => t.key \in Keys
BY DEF TxStates, Idle, Starting, WithRows, WithSeen, Writing, Checked, ActionRead, Paid, IsSyncing

(* A page or an action starts its synchronization.                         *)
LEMMA StartShape ==
    ASSUME NEW goal \in Goals
    PROVE  Start(goal) \in TxStates /\ Start(goal).pc = "start" /\ View \in Goals
BY DEF Start, Starting, TxStates, Goals, View

(* A synchronization that is disturbed keeps its shape and what it saw.    *)
LEMMA DisturbedShape ==
    ASSUME NEW t \in TxStates
    PROVE  /\ Disturbed(t) \in TxStates /\ Disturbed(t).pc = t.pc
           /\ \A held : StillThere(t, held) => StillThere(Disturbed(t), held)
           /\ IsSyncing(Disturbed(t)) => ~Disturbed(t).quiet
<1> DEFINE d == [t EXCEPT !.quiet = FALSE]
<1>1. CASE ~IsSyncing(t)
  BY <1>1 DEF Disturbed
<1>2. CASE t \in Starting
  <2>1. d \in Starting /\ d.pc = t.pc /\ ~d.quiet
    BY <1>2 DEF Starting
  <2>2. Disturbed(t) = d /\ t.pc \in {"start", "synced"}
    BY <1>2 DEF Disturbed, IsSyncing, Starting
  <2> QED
    BY <2>1, <2>2 DEF TxStates, StillThere
<1>3. CASE t \in WithRows
  <2>1. d \in WithRows /\ d.pc = t.pc /\ ~d.quiet
    BY <1>3 DEF WithRows
  <2>2. Disturbed(t) = d /\ t.pc = "rowsRead"
    BY <1>3 DEF Disturbed, IsSyncing, WithRows
  <2> QED
    BY <2>1, <2>2 DEF TxStates, StillThere
<1>4. CASE t \in WithSeen
  <2>1. d \in WithSeen /\ d.pc = t.pc /\ ~d.quiet
    BY <1>4 DEF WithSeen
  <2>2. Disturbed(t) = d /\ t.pc = "signalsRead"
    BY <1>4 DEF Disturbed, IsSyncing, WithSeen
  <2> QED
    BY <2>1, <2>2 DEF TxStates, StillThere
<1>5. CASE t \in Writing
  <2>1. d \in Writing /\ d.pc = t.pc /\ ~d.quiet /\ d.cases = t.cases
    BY <1>5 DEF Writing
  <2>2. Disturbed(t) = d /\ t.pc = "writing"
    BY <1>5 DEF Disturbed, IsSyncing, Writing
  <2> QED
    BY <2>1, <2>2 DEF TxStates, StillThere
<1> QED
  BY <1>1, <1>2, <1>3, <1>4, <1>5 DEF TxStates, IsSyncing, Idle, Checked, ActionRead, Paid

(* One invocation goes on, and rows that were there stay.                  *)
LEMMA ProceedShape ==
    ASSUME TypeInv, NEW w \in Workers, NEW t \in TxStates, Proceed(w, t), UNCHANGED cases,
           StillThere(t, cases)
    PROVE  tx' \in [Workers -> TxStates] /\ \A v \in Workers : StillThere(tx'[v], cases')
<1>1. tx' = [tx EXCEPT ![w] = t] /\ tx \in [Workers -> TxStates]
  BY DEF Proceed, TypeInv
<1> QED
  BY <1>1 DEF TypeInv

(* One invocation writes; the others are disturbed.                        *)
LEMMA WriteShape ==
    ASSUME TypeInv, NEW w \in Workers, NEW t \in TxStates, Write(w, t),
           \A k \in Keys : cases[k] # NoCase => cases'[k] # NoCase,
           StillThere(t, cases')
    PROVE  tx' \in [Workers -> TxStates] /\ \A v \in Workers : StillThere(tx'[v], cases')
<1>1. tx' = [x \in Workers |-> IF x = w THEN t ELSE Disturbed(tx[x])] /\ tx \in [Workers -> TxStates]
  BY DEF Write, TypeInv
<1>2. ASSUME NEW v \in Workers PROVE tx'[v] \in TxStates /\ StillThere(tx'[v], cases')
  <2>1. CASE v = w
    BY <1>1, <2>1
  <2>2. CASE v # w
    <3>1. StillThere(tx[v], cases')
      BY TxShape, TxTypes DEF StillThere
    <3> QED
      BY <1>1, <2>2, <3>1, DisturbedShape
  <2> QED
    BY <2>1, <2>2
<1> QED
  BY <1>1, <1>2

(* The type invariant again, from what has become of each variable.        *)
LEMMA TypeParts ==
    ASSUME requests' \in [Requests -> RequestRow], cases' \in [Keys -> CaseRow \cup {NoCase}],
           notices' \in [Keys -> {"NONE", "UNREAD", "READ"}], served' \in 0..MaxServed,
           tx' \in [Workers -> TxStates], \A w \in Workers : StillThere(tx'[w], cases')
    PROVE  TypeInv'
<1>1. \A w \in Workers : tx'[w] \in TxStates
  OBVIOUS
<1>2. TypeOK'
  BY <1>1, TxTypes DEF TypeOK, IsSyncing
<1> QED
  BY <1>2 DEF TypeInv

(* Nothing has begun, no case exists.                                      *)
LEMMA InitTypes == Init => TypeInv
<1> SUFFICES ASSUME Init PROVE TypeInv
  OBVIOUS
<1>1. requests \in [Requests -> RequestRow]
  BY CasesAssumption DEF Init, RequestRow
<1>2. cases \in [Keys -> CaseRow \cup {NoCase}] /\ notices \in [Keys -> {"NONE", "UNREAD", "READ"}]
  BY DEF Init
<1>3. served \in 0..MaxServed
  BY CasesAssumption DEF Init
<1>4. Idle \in TxStates /\ \A held : StillThere(Idle, held)
  BY DEF TxStates, StillThere, Idle
<1>5. tx \in [Workers -> TxStates] /\ \A w \in Workers : tx[w] = Idle
  BY <1>4 DEF Init
<1>6. TypeOK
  BY <1>1, <1>2, <1>3, <1>5, <1>4, TxTypes DEF TypeOK
<1> QED
  BY <1>4, <1>5, <1>6 DEF TypeInv

(* The steps of one invocation that write no row.                          *)
LEMMA ReadTypes ==
    ASSUME TypeInv, NEW w \in Workers, NEW t \in TxStates, Proceed(w, t), StillThere(t, cases),
           UNCHANGED <<requests, cases, notices>>, served' \in 0..MaxServed
    PROVE  TypeInv'
<1>1. tx' \in [Workers -> TxStates] /\ \A v \in Workers : StillThere(tx'[v], cases')
  BY ProceedShape
<1>2. /\ requests' \in [Requests -> RequestRow] /\ cases' \in [Keys -> CaseRow \cup {NoCase}]
      /\ notices' \in [Keys -> {"NONE", "UNREAD", "READ"}]
  BY DEF TypeInv, TypeOK
<1> QED
  BY <1>1, <1>2, TypeParts

(* The steps that write.                                                   *)
LEMMA WriteTypes ==
    ASSUME TypeInv, NEW w \in Workers, NEW t \in TxStates, Write(w, t), StillThere(t, cases'),
           \A k \in Keys : cases[k] # NoCase => cases'[k] # NoCase, UNCHANGED served,
           requests' \in [Requests -> RequestRow], cases' \in [Keys -> CaseRow \cup {NoCase}],
           notices' \in [Keys -> {"NONE", "UNREAD", "READ"}]
    PROVE  TypeInv'
<1>1. tx' \in [Workers -> TxStates] /\ \A v \in Workers : StillThere(tx'[v], cases')
  BY WriteShape
<1>2. served' \in 0..MaxServed
  BY DEF TypeInv, TypeOK
<1> QED
  BY <1>1, <1>2, TypeParts

(* The other workflows keep the shape of the request and of every tx.      *)
LEMMA ProgressTypes ==
    ASSUME TypeInv, NEW r \in Requests, NEW l \in Ledgers, Progress(r, l) PROVE TypeInv'
<1>1. requests' \in [Requests -> RequestRow]
  BY CasesAssumption DEF TypeInv, TypeOK, Progress, RequestRow
<1>2. tx' \in [Workers -> TxStates] /\ \A w \in Workers : StillThere(tx'[w], cases')
  <2>1. cases' = cases /\ tx' = [x \in Workers |-> Disturbed(tx[x])]
    BY DEF Progress
  <2>2. \A x \in Workers : Disturbed(tx[x]) \in TxStates /\ StillThere(Disturbed(tx[x]), cases)
    BY TxShape, DisturbedShape
  <2> QED
    BY <2>1, <2>2
<1>3. UNCHANGED <<cases, notices, served>>
  BY DEF Progress
<1> QED
  BY <1>1, <1>2, <1>3, TypeParts DEF TypeInv, TypeOK

(* A key a synchronization looks at: that of an exception, or a stale one. *)
LEMMA SeenKeys ==
    ASSUME NEW t \in Writing
    PROVE  /\ \A r \in Exceptional(t) : r \in Requests /\ KeyOf(r, t.seen[r]) \in ActiveKeys(t)
           /\ \A k \in ActiveKeys(t) : /\ k \in Keys /\ k[2] \in Exceptional(t)
                                        /\ k = KeyOf(k[2], t.seen[k[2]])
           /\ StaleKeys(t) \subseteq Keys
<1>1. \A r \in Exceptional(t) : r \in Requests /\ KeyOf(r, t.seen[r]) \in ActiveKeys(t)
  BY DEF Exceptional, ActiveKeys
<1>2. ASSUME NEW r \in Exceptional(t)
      PROVE  KeyOf(r, t.seen[r]) \in Keys /\ KeyOf(r, t.seen[r])[2] = r
  <2>1. r \in Requests /\ Category(t.seen[r]) \in Categories
    BY <1>1, RulesShape DEF Exceptional
  <2> QED
    BY <2>1, KeyShape DEF KeyOf
<1>3. \A k \in ActiveKeys(t) : /\ k \in Keys /\ k[2] \in Exceptional(t)
                               /\ k = KeyOf(k[2], t.seen[k[2]])
  BY <1>2 DEF ActiveKeys
<1>4. StaleKeys(t) \subseteq Keys
  BY DEF StaleKeys
<1> QED
  BY <1>1, <1>3, <1>4

(* What the synchronization holds after it wrote, and after it told.       *)
LEMMA WritingSteps ==
    ASSUME NEW t \in Writing, NEW k \in Keys, NEW held
    PROVE  /\ [t EXCEPT !.unnotified = {k}] \in Writing
           /\ [t EXCEPT !.unnotified = {}, !.done = @ \cup {k}] \in Writing
           /\ StillThere(t, held) => /\ StillThere([t EXCEPT !.unnotified = {k}], held)
                                     /\ StillThere([t EXCEPT !.unnotified = {},
                                                             !.done = @ \cup {k}], held)
BY DEF Writing, StillThere

(* A case of the snapshot that is written with the row it had.             *)
LEMMA WriteCaseTypes ==
    ASSUME TypeInv, NEW w \in Workers, NEW r \in Requests, WriteCase(w, r) PROVE TypeInv'
<1>1. PICK t \in Writing : t = tx[w] /\ StillThere(t, cases)
  BY TxShape DEF WriteCase
<1>2. PICK s \in Prints : s = t.seen[r]
  BY <1>1 DEF Writing
<1>3. PICK k \in Keys : k = KeyOf(r, s)
  BY <1>1, <1>2, SeenKeys DEF WriteCase
<1>4. PICK row \in CaseRow :
        row = IF t.cases[k] = NoCase THEN Opened(OpeningStatus(Category(s)), s)
              ELSE Refreshed(t.cases[k], s)
  <2>1. t.cases[k] \in CaseRow \cup {NoCase}
    BY <1>1 DEF Writing
  <2>2. CASE t.cases[k] = NoCase
    <3>1. Opened(OpeningStatus(Category(s)), s) \in CaseRow
      <4>1. OpeningStatus(Category(s)) \in OpenStatuses
        BY RulesShape DEF OpenStatuses
      <4> QED
        BY <4>1 DEF Opened, CaseRow
    <3> QED
      BY <2>2, <3>1
  <2>3. CASE t.cases[k] # NoCase
    BY <2>1, <2>3, WrittenShape
  <2> QED
    BY <2>2, <2>3
<1>5. cases' = [cases EXCEPT ![k] = row]
  BY <1>1, <1>2, <1>3, <1>4 DEF WriteCase
<1>6. /\ cases' \in [Keys -> CaseRow \cup {NoCase}]
      /\ \A x \in Keys : cases[x] # NoCase => cases'[x] # NoCase
  BY <1>5, CaseShape DEF TypeInv, TypeOK
<1>7. PICK u \in TxStates : u = [t EXCEPT !.unnotified = {k}]
  BY WritingSteps DEF TxStates
<1>8. StillThere(u, cases')
  <2>1. StillThere(u, cases)
    BY <1>1, <1>7, WritingSteps
  <2>2. u.pc = "writing" /\ u.cases = t.cases
    BY <1>7 DEF Writing
  <2> QED
    BY <2>1, <2>2, <1>6 DEF StillThere
<1>9. /\ Write(w, u) /\ UNCHANGED served /\ requests' \in [Requests -> RequestRow]
      /\ notices' \in [Keys -> {"NONE", "UNREAD", "READ"}]
  BY <1>1, <1>2, <1>3, <1>7 DEF WriteCase, TypeInv, TypeOK
<1> QED
  BY <1>6, <1>8, <1>9, WriteTypes

(* A stale case keeps its prints.                                          *)
LEMMA ResolveStaleTypes ==
    ASSUME TypeInv, NEW w \in Workers, NEW k \in Keys, ResolveStale(w, k) PROVE TypeInv'
<1>1. PICK t \in Writing : t = tx[w] /\ StillThere(t, cases)
  BY TxShape DEF ResolveStale
<1>2. cases[k] \in CaseRow
  <2>1. t.cases[k] # NoCase
    BY <1>1, CaseShape DEF ResolveStale, StaleKeys
  <2>2. cases[k] # NoCase
    BY <2>1, <1>1 DEF StillThere, Writing
  <2> QED
    BY <2>2 DEF TypeInv, TypeOK
<1>3. PICK row \in CaseRow : row = [cases[k] EXCEPT !.status = "RESOLVED"]
  BY <1>2 DEF CaseRow
<1>5. cases' = [cases EXCEPT ![k] = row]
  BY <1>3 DEF ResolveStale
<1>6. /\ cases' \in [Keys -> CaseRow \cup {NoCase}]
      /\ \A x \in Keys : cases[x] # NoCase => cases'[x] # NoCase
  BY <1>5, CaseShape DEF TypeInv, TypeOK
<1>7. PICK u \in TxStates : u = [t EXCEPT !.unnotified = {k}]
  BY WritingSteps DEF TxStates
<1>8. StillThere(u, cases')
  <2>1. StillThere(u, cases)
    BY <1>1, <1>7, WritingSteps
  <2>2. u.pc = "writing" /\ u.cases = t.cases
    BY <1>7 DEF Writing
  <2> QED
    BY <2>1, <2>2, <1>6 DEF StillThere
<1>9. /\ Write(w, u) /\ UNCHANGED served /\ requests' \in [Requests -> RequestRow]
      /\ notices' \in [Keys -> {"NONE", "UNREAD", "READ"}]
  BY <1>1, <1>7 DEF ResolveStale, TypeInv, TypeOK
<1> QED
  BY <1>6, <1>8, <1>9, WriteTypes

(* A notification is left unread or read.                                  *)
LEMMA NotifyTypes ==
    ASSUME TypeInv, NEW w \in Workers, NEW k \in Keys, NotifyCase(w, k) PROVE TypeInv'
<1>1. PICK t \in Writing : t = tx[w] /\ StillThere(t, cases)
  BY TxShape DEF NotifyCase
<1>2. PICK u \in TxStates : u = [t EXCEPT !.unnotified = {}, !.done = @ \cup {k}]
  BY WritingSteps DEF TxStates
<1>3. NoticeFor(t, k) \in {"UNREAD", "READ"}
  BY DEF NoticeFor
<1>4. /\ notices' \in [Keys -> {"NONE", "UNREAD", "READ"}]
      /\ UNCHANGED <<requests, cases, served>> /\ Write(w, u)
  BY <1>1, <1>2, <1>3 DEF NotifyCase, TypeInv, TypeOK
<1>5. StillThere(u, cases')
  BY <1>1, <1>2, <1>4, WritingSteps
<1>6. requests' \in [Requests -> RequestRow] /\ cases' \in [Keys -> CaseRow \cup {NoCase}]
  BY <1>4 DEF TypeInv, TypeOK
<1> QED
  BY <1>4, <1>5, <1>6, WriteTypes

(* Reading and ending: the steps of a synchronization that write nothing.  *)
LEMMA SyncReadTypes ==
    ASSUME TypeInv, NEW w \in Workers,
           ReadRequests(w) \/ ReadLedgers(w) \/ ReadCases(w) \/ EndSync(w)
    PROVE  TypeInv'
<1>0. UNCHANGED <<requests, cases, notices, served>>
  BY DEF ReadRequests, ReadLedgers, ReadCases, EndSync
<1>00. served' \in 0..MaxServed /\ requests \in [Requests -> RequestRow]
  BY <1>0 DEF TypeInv, TypeOK
<1>1. CASE ReadRequests(w)
  <2>1. PICK t \in Starting : t = tx[w]
    BY <1>1, TxShape DEF ReadRequests
  <2>2. PICK u \in WithRows : u = [pc |-> "rowsRead", goal |-> t.goal, quiet |-> t.quiet,
                                  rows |-> requests]
    BY <1>00, <2>1 DEF Starting, WithRows
  <2>3. u \in TxStates /\ StillThere(u, cases) /\ Proceed(w, u)
    BY <1>1, <2>1, <2>2 DEF ReadRequests, TxStates, StillThere
  <2> QED
    BY <1>0, <1>00, <2>3, ReadTypes
<1>2. CASE ReadLedgers(w)
  <2>1. PICK t \in WithRows : t = tx[w]
    BY <1>2, TxShape DEF ReadLedgers
  <2>2. PICK seen \in [Requests -> Prints] :
          seen = [r \in Requests |->
                    LET row == t.rows[r].ledger  l == requests[r].ledger IN
                    Signal(row.request, l.payment, l.receipt, row.fulfillment,
                           t.rows[r].paused, l.attemptCount)]
    <3>1. ASSUME NEW r \in Requests
          PROVE  Signal(t.rows[r].ledger.request, requests[r].ledger.payment,
                        requests[r].ledger.receipt, t.rows[r].ledger.fulfillment,
                        t.rows[r].paused, requests[r].ledger.attemptCount) \in Prints
      <4>1. /\ t.rows[r].ledger \in LedgerRow /\ requests[r].ledger \in LedgerRow
            /\ t.rows[r].paused \in BOOLEAN
        BY <1>00, <2>1 DEF WithRows, RequestRow
      <4> QED
        BY <4>1, SignalShape
    <3> QED
      BY <3>1
  <2>3. PICK u \in WithSeen : u = [pc |-> "signalsRead", goal |-> t.goal, quiet |-> t.quiet,
                                  seen |-> seen]
    BY <2>1, <2>2 DEF WithRows, WithSeen
  <2>4. u \in TxStates /\ StillThere(u, cases) /\ Proceed(w, u)
    BY <1>2, <2>1, <2>2, <2>3 DEF ReadLedgers, TxStates, StillThere
  <2> QED
    BY <1>0, <1>00, <2>4, ReadTypes
<1>3. CASE ReadCases(w)
  <2>1. PICK t \in WithSeen : t = tx[w]
    BY <1>3, TxShape DEF ReadCases
  <2>2. PICK u \in Writing : u = [pc |-> "writing", goal |-> t.goal, quiet |-> t.quiet,
                                 seen |-> t.seen, cases |-> cases, done |-> {}, unnotified |-> {}]
    BY <2>1 DEF WithSeen, Writing, TypeInv, TypeOK
  <2>3. u \in TxStates /\ StillThere(u, cases) /\ Proceed(w, u)
    BY <1>3, <2>1, <2>2 DEF ReadCases, TxStates, StillThere
  <2> QED
    BY <1>0, <1>00, <2>3, ReadTypes
<1>4. CASE EndSync(w)
  <2>1. PICK t \in Writing : t = tx[w]
    BY <1>4, TxShape DEF EndSync
  <2>2. PICK u \in Starting : u = [pc |-> "synced", goal |-> t.goal, quiet |-> t.quiet]
    BY <2>1 DEF Writing, Starting
  <2>3. u \in TxStates /\ StillThere(u, cases) /\ Proceed(w, u)
    BY <1>4, <2>1, <2>2 DEF EndSync, TxStates, StillThere
  <2> QED
    BY <1>0, <1>00, <2>3, ReadTypes
<1> QED
  BY <1>1, <1>2, <1>3, <1>4

(* A page is opened to look or to act on a case that is there.             *)
LEMMA OpenTypes ==
    ASSUME TypeInv, NEW w \in Workers, Open(w) PROVE TypeInv'
<1>1. PICK goal \in Goals : BeginSync(w, goal)
  <2>1. CASE BeginSync(w, View)
    BY <2>1 DEF View, Goals
  <2>2. ASSUME NEW a \in Actions, NEW k \in Keys, BeginSync(w, [action |-> a, key |-> k])
        PROVE  \E goal \in Goals : BeginSync(w, goal)
    <3>1. [action |-> a, key |-> k] \in Goals
      BY CasesAssumption DEF Goals
    <3> QED
      BY <2>2, <3>1
  <2> QED
    BY <2>1, <2>2 DEF Open
<1>2. Start(goal) \in TxStates /\ StillThere(Start(goal), cases)
  BY StartShape DEF StillThere
<1>3. served' \in 0..MaxServed
  BY <1>1, CasesAssumption DEF BeginSync, TypeInv, TypeOK
<1> QED
  BY <1>1, <1>2, <1>3, ReadTypes DEF BeginSync

(* The checks of an action, and the end of an invocation.                  *)
LEMMA ActReadTypes ==
    ASSUME TypeInv, NEW w \in Workers,
           ShowPage(w) \/ CheckAction(w) \/ ReadForAction(w) \/ Abort(w)
    PROVE  TypeInv'
<1>0. UNCHANGED <<requests, cases, notices, served>>
  BY DEF ShowPage, CheckAction, ReadForAction, Abort
<1>00. served' \in 0..MaxServed /\ requests \in [Requests -> RequestRow]
  BY <1>0 DEF TypeInv, TypeOK
<1>1. CASE ShowPage(w) \/ Abort(w)
  <2>1. Idle \in TxStates /\ StillThere(Idle, cases)
    BY DEF TxStates, StillThere, Idle
  <2> QED
    BY <1>0, <1>00, <1>1, <2>1, ReadTypes DEF ShowPage, Abort
<1>2. CASE CheckAction(w)
  <2>1. PICK t \in Starting : t = tx[w]
    BY <1>2, TxShape DEF CheckAction
  <2>2. t.goal.action \in ActionTypes /\ t.goal.key \in Keys
    <3>1. t.goal \in Goals /\ t.goal # View
      BY <1>2, <2>1 DEF CheckAction, Starting
    <3>2. \A g \in [action: {"VIEW"}] : g = View
      BY DEF View
    <3>3. t.goal \in [action: ActionTypes, key: Keys]
      BY <3>1, <3>2 DEF Goals
    <3> QED
      BY <3>3
  <2>3. PICK u \in Checked : u = [pc |-> "checked", action |-> t.goal.action, key |-> t.goal.key]
    BY <2>2 DEF Checked
  <2>4. u \in TxStates /\ StillThere(u, cases) /\ Proceed(w, u)
    BY <1>2, <2>1, <2>3 DEF CheckAction, TxStates, StillThere
  <2> QED
    BY <1>0, <1>00, <2>4, ReadTypes
<1>3. CASE ReadForAction(w)
  <2>1. PICK t \in Checked : t = tx[w] /\ StillThere(t, cases)
    BY <1>3, TxShape DEF ReadForAction
  <2>2. cases[t.key] \in CaseRow /\ requests[t.key[2]] \in RequestRow
    <3>1. t.key \in Keys /\ t.key[2] \in Requests
      BY <2>1, KeyRequest DEF Checked
    <3>2. cases[t.key] # NoCase
      BY <2>1 DEF StillThere, Checked
    <3> QED
      BY <1>00, <3>1, <3>2 DEF TypeInv, TypeOK
  <2>3. PICK u \in ActionRead :
          u = [pc |-> "actionRead", action |-> t.action, key |-> t.key,
               row |-> cases[t.key], request |-> requests[t.key[2]]]
    BY <2>1, <2>2 DEF Checked, ActionRead
  <2>4. u \in TxStates /\ Proceed(w, u)
    BY <1>3, <2>1, <2>3 DEF ReadForAction, TxStates
  <2>5. StillThere(u, cases)
    BY <2>2, <2>3, CaseShape DEF StillThere
  <2> QED
    BY <1>0, <1>00, <2>4, <2>5, ReadTypes
<1> QED
  BY <1>1, <1>2, <1>3

(* The action rewrites the case it read, and perhaps the pause.            *)
LEMMA CommitTypes ==
    ASSUME TypeInv, NEW w \in Workers, CommitAction(w) PROVE TypeInv'
<1>1. PICK t \in ActionRead : t = tx[w]
  BY TxShape DEF CommitAction
<1>2. t.key \in Keys /\ t.key[2] \in Requests
  BY <1>1, KeyRequest DEF ActionRead
<1>3. PICK row \in CaseRow :
        row = [status |-> StatusAfter(t.action), print |-> t.row.print,
               resolvedPrint |-> IF t.action = "RESOLVE_CASE" THEN t.row.print
                                 ELSE t.row.resolvedPrint]
  <2>1. StatusAfter(t.action) \in OpenStatuses \cup {"RESOLVED"}
    BY RulesShape DEF OpenStatuses
  <2>2. t.row.print \in Prints /\ t.row.resolvedPrint \in Prints \cup {NoPrint}
    BY <1>1 DEF ActionRead, CaseRow
  <2>3. PICK kept \in Prints \cup {NoPrint} :
          kept = IF t.action = "RESOLVE_CASE" THEN t.row.print ELSE t.row.resolvedPrint
    BY <2>2
  <2>4. [status |-> StatusAfter(t.action), print |-> t.row.print, resolvedPrint |-> kept] \in CaseRow
    BY <2>1, <2>2, <2>3 DEF CaseRow
  <2> QED
    BY <2>3, <2>4
<1>4. /\ cases' \in [Keys -> CaseRow \cup {NoCase}]
      /\ \A x \in Keys : cases[x] # NoCase => cases'[x] # NoCase
  BY <1>1, <1>2, <1>3, CaseShape DEF CommitAction, TypeInv, TypeOK
<1>5. notices' \in [Keys -> {"NONE", "UNREAD", "READ"}]
  BY <1>1, <1>2 DEF CommitAction, TypeInv, TypeOK
<1>6. requests' \in [Requests -> RequestRow]
  <2>1. CASE t.action \notin {"PAUSE_REQUEST", "RELEASE_REQUEST"}
    BY <1>1, <2>1 DEF CommitAction, TypeInv, TypeOK
  <2>2. CASE t.action \in {"PAUSE_REQUEST", "RELEASE_REQUEST"}
    <3>1. PICK p \in BOOLEAN : p = (t.action = "PAUSE_REQUEST")
      OBVIOUS
    <3>2. PICK f \in {"NONE", "DELIVERED", "FAILED"} : f = t.request.ledger.fulfillment
      BY <1>1 DEF ActionRead, RequestRow, LedgerRow
    <3>3. requests' = [requests EXCEPT ![t.key[2]].paused = p, ![t.key[2]].ledger.fulfillment = f]
      BY <1>1, <2>2, <3>1, <3>2 DEF CommitAction
    <3>4. requests \in [Requests -> RequestRow]
      BY DEF TypeInv, TypeOK
    <3> QED
      BY <1>2, <3>3, <3>4 DEF RequestRow, LedgerRow
  <2> QED
    BY <2>1, <2>2
<1>7. Start(View) \in TxStates /\ StillThere(Start(View), cases')
  BY StartShape DEF StillThere, Goals, View
<1>8. Write(w, Start(View)) /\ UNCHANGED served
  BY DEF CommitAction
<1> QED
  BY <1>4, <1>5, <1>6, <1>7, <1>8, WriteTypes

(* A requeue, its payment and its record.                                  *)
LEMMA RequeueTypes ==
    ASSUME TypeInv, NEW w \in Workers,
           (\E l \in Ledgers : PayRequeue(w, l)) \/ RecordRequeue(w)
    PROVE  TypeInv'
<1>1. ASSUME NEW l \in Ledgers, PayRequeue(w, l) PROVE TypeInv'
  <2>1. PICK t \in Checked : t = tx[w] /\ StillThere(t, cases)
    BY <1>1, TxShape DEF PayRequeue
  <2>2. t.key \in Keys /\ t.key[2] \in Requests /\ cases[t.key] # NoCase
    BY <2>1, KeyRequest DEF Checked, StillThere
  <2>3. requests' \in [Requests -> RequestRow]
    BY <1>1, <2>1, <2>2, CasesAssumption DEF PayRequeue, TypeInv, TypeOK, RequestRow
  <2>4. PICK u \in Paid : u = [pc |-> "paid", key |-> t.key]
    BY <2>2 DEF Paid
  <2>5. u \in TxStates /\ Write(w, u) /\ UNCHANGED <<cases, notices, served>>
    BY <1>1, <2>1, <2>4 DEF PayRequeue, TxStates
  <2>6. StillThere(u, cases')
    BY <2>2, <2>4, <2>5 DEF StillThere
  <2>7. /\ cases' \in [Keys -> CaseRow \cup {NoCase}]
        /\ notices' \in [Keys -> {"NONE", "UNREAD", "READ"}]
    BY <2>5 DEF TypeInv, TypeOK
  <2> QED
    BY <2>3, <2>5, <2>6, <2>7, WriteTypes
<1>2. CASE RecordRequeue(w)
  <2>1. PICK k \in Keys : k = tx[w].key /\ cases[k] # NoCase
    BY <1>2, TxShape DEF RecordRequeue, Paid, StillThere
  <2>2. PICK row \in CaseRow : row = [cases[k] EXCEPT !.status = "INVESTIGATING"]
    <3>1. cases[k] \in CaseRow
      BY <2>1 DEF TypeInv, TypeOK
    <3> QED
      BY <3>1 DEF CaseRow, OpenStatuses
  <2>3. /\ cases' \in [Keys -> CaseRow \cup {NoCase}]
        /\ \A x \in Keys : cases[x] # NoCase => cases'[x] # NoCase
    BY <1>2, <2>1, <2>2, CaseShape DEF RecordRequeue, TypeInv, TypeOK
  <2>4. notices' \in [Keys -> {"NONE", "UNREAD", "READ"}]
    BY <1>2, <2>1 DEF RecordRequeue, TypeInv, TypeOK
  <2>5. Start(View) \in TxStates /\ StillThere(Start(View), cases')
    BY StartShape DEF StillThere, Goals, View
  <2>6. Write(w, Start(View)) /\ UNCHANGED served /\ requests' \in [Requests -> RequestRow]
    BY <1>2 DEF RecordRequeue, TypeInv, TypeOK
  <2> QED
    BY <2>3, <2>4, <2>5, <2>6, WriteTypes
<1> QED
  BY <1>1, <1>2

(* Every step keeps the types.                                             *)
LEMMA TypeStep == TypeInv /\ [Next]_vars => TypeInv'
<1> SUFFICES ASSUME TypeInv, [Next]_vars PROVE TypeInv'
  OBVIOUS
<1>1. CASE UNCHANGED vars
  BY <1>1 DEF vars, TypeInv, TypeOK, StillThere, IsSyncing
<1>2. ASSUME NEW r \in Requests, NEW l \in Ledgers, Progress(r, l) PROVE TypeInv'
  BY <1>2, ProgressTypes
<1>3. ASSUME NEW w \in Workers, Open(w) \/ Abort(w) PROVE TypeInv'
  BY <1>3, OpenTypes, ActReadTypes
<1>4. ASSUME NEW w \in Workers, Sync(w) PROVE TypeInv'
  BY <1>4, SyncReadTypes, WriteCaseTypes, ResolveStaleTypes, NotifyTypes DEF Sync
<1>5. ASSUME NEW w \in Workers, Act(w) PROVE TypeInv'
  BY <1>5, ActReadTypes, CommitTypes, RequeueTypes DEF Act
<1> QED
  BY <1>1, <1>2, <1>3, <1>4, <1>5 DEF Next

(* What the rows, the notifications and every invocation in flight hold is *)
(* what the code reads out of them; what an invocation has seen is there.  *)
THEOREM TypeCorrect == Spec => []TypeOK
<1>1. TypeInv => TypeOK
  BY DEF TypeInv
<1> QED
  BY InitTypes, TypeStep, <1>1, PTL DEF Spec

-----------------------------------------------------------------------------
(* Quiet synchronizations.                                                 *)

(* What holds of an invocation is about the rows alone.                    *)
LEMMA QuietUnchanged ==
    ASSUME NEW t, UNCHANGED <<requests, cases, notices>>, QuietHolds(t) PROVE QuietHolds(t)'
BY DEF QuietHolds, SeesRequests, WroteCases, WroteNotices, IsExact, SignalOf

(* A step that writes no row keeps what holds of the others.               *)
LEMMA QuietRead ==
    ASSUME SyncInv, NEW w \in Workers, NEW t, Proceed(w, t), UNCHANGED <<requests, cases, notices>>,
           QuietHolds(t)
    PROVE  (\A v \in Workers : QuietHolds(tx[v]))'
<1>1. tx' = [tx EXCEPT ![w] = t] /\ tx \in [Workers -> TxStates]
  BY DEF Proceed, SyncInv, TypeInv
<1>2. ASSUME NEW v \in Workers PROVE QuietHolds(tx[v])'
  <2>1. CASE v = w
    <3>1. tx'[v] = t
      BY <1>1, <2>1
    <3>2. QuietHolds(t)'
      BY QuietUnchanged
    <3> QED
      BY <3>1, <3>2
           DEF QuietHolds, SeesRequests, WroteCases, WroteNotices, IsExact, SignalOf
  <2>2. CASE v # w
    <3>1. tx'[v] = tx[v] /\ QuietHolds(tx[v])
      BY <1>1, <2>2 DEF SyncInv
    <3> QED
      BY <3>1 DEF QuietHolds, SeesRequests, WroteCases, WroteNotices, IsExact, SignalOf
  <2> QED
    BY <2>1, <2>2
<1> QED
  BY <1>2

(* A step that writes disturbs the others.                                 *)
LEMMA QuietWrite ==
    ASSUME SyncInv, NEW w \in Workers, NEW t, Write(w, t), QuietHolds(t)'
    PROVE  (\A v \in Workers : QuietHolds(tx[v]))'
<1>1. tx' = [x \in Workers |-> IF x = w THEN t ELSE Disturbed(tx[x])]
  BY DEF Write
<1>2. ASSUME NEW v \in Workers PROVE QuietHolds(tx[v])'
  <2>1. CASE v = w
    <3>1. tx'[v] = t
      BY <1>1, <2>1
    <3> QED
      BY <3>1 DEF QuietHolds, SeesRequests, WroteCases, WroteNotices, IsExact, SignalOf
  <2>2. CASE v # w
    <3>1. tx'[v] = Disturbed(tx[v]) /\ tx[v] \in TxStates
      BY <1>1, <2>2 DEF SyncInv, TypeInv
    <3>2. ~(IsSyncing(tx'[v]) /\ tx'[v].quiet)
      BY <3>1, DisturbedShape
    <3> QED
      BY <3>2 DEF QuietHolds, IsSyncing
  <2> QED
    BY <2>1, <2>2
<1> QED
  BY <1>2

(* Nothing is promised of an invocation that has not begun or is no longer *)
(* synchronizing.                                                          *)
LEMMA NothingSeen ==
    ASSUME NEW t, t.pc \in {"idle", "start", "checked", "actionRead", "paid"}
    PROVE  QuietHolds(t) /\ QuietHolds(t)'
BY DEF QuietHolds, SeesRequests, WroteCases, WroteNotices, IsSyncing

(* What a synchronization means depends on what it has read, not on how    *)
(* much of it is written.                                                  *)
LEMMA SameMeaning ==
    ASSUME NEW t, NEW u, u.seen = t.seen, u.cases = t.cases
    PROVE  /\ ActiveKeys(u) = ActiveKeys(t) /\ StaleKeys(u) = StaleKeys(t)
           /\ \A k : Meant(u, k) = Meant(t, k) /\ NoticeFor(u, k) = NoticeFor(t, k)
<1>1. ActiveKeys(u) = ActiveKeys(t)
  BY DEF ActiveKeys, Exceptional
<1> QED
  BY <1>1 DEF StaleKeys, Meant, NoticeFor

(* Reading: a quiet synchronization sees the requests as they are, though  *)
(* it reads them and their relations in two statements.                    *)
LEMMA SyncReads ==
    ASSUME SyncInv, NEW w \in Workers, ReadRequests(w) \/ ReadLedgers(w) \/ ReadCases(w)
    PROVE  (\A v \in Workers : QuietHolds(tx[v]))'
<1>0. UNCHANGED <<requests, cases, notices>>
  BY DEF ReadRequests, ReadLedgers, ReadCases
<1>1. CASE ReadRequests(w)
  <2>1. PICK t : t = tx[w]
    OBVIOUS
  <2>2. PICK u : u = [pc |-> "rowsRead", goal |-> t.goal, quiet |-> t.quiet, rows |-> requests]
    OBVIOUS
  <2>3. Proceed(w, u)
    BY <1>1, <2>1, <2>2 DEF ReadRequests
  <2>4. QuietHolds(u)
    BY <2>2 DEF QuietHolds, SeesRequests, WroteCases, WroteNotices
  <2> QED
    BY <1>0, <2>3, <2>4, QuietRead
<1>2. CASE ReadLedgers(w)
  <2>1. PICK t : t = tx[w] /\ QuietHolds(t)
    BY DEF SyncInv
  <2>2. PICK seen :
          seen = [r \in Requests |->
                    LET row == t.rows[r].ledger  l == requests[r].ledger IN
                    Signal(row.request, l.payment, l.receipt, row.fulfillment,
                           t.rows[r].paused, l.attemptCount)]
    OBVIOUS
  <2>3. PICK u : u = [pc |-> "signalsRead", goal |-> t.goal, quiet |-> t.quiet, seen |-> seen]
    OBVIOUS
  <2>4. Proceed(w, u) /\ t.pc = "rowsRead"
    BY <1>2, <2>1, <2>2, <2>3 DEF ReadLedgers
  <2>5. t.quiet => \A r \in Requests : seen[r] = SignalOf(r)
    BY <2>1, <2>2, <2>4 DEF QuietHolds, SeesRequests, IsSyncing, SignalOf
  <2>6. QuietHolds(u)
    BY <2>3, <2>5 DEF QuietHolds, SeesRequests, WroteCases, WroteNotices
  <2> QED
    BY <1>0, <2>4, <2>6, QuietRead
<1>3. CASE ReadCases(w)
  <2>1. PICK t : t = tx[w] /\ QuietHolds(t)
    BY DEF SyncInv
  <2>2. PICK u : u = [pc |-> "writing", goal |-> t.goal, quiet |-> t.quiet, seen |-> t.seen,
                      cases |-> cases, done |-> {}, unnotified |-> {}]
    OBVIOUS
  <2>3. Proceed(w, u) /\ t.pc = "signalsRead"
    BY <1>3, <2>1, <2>2 DEF ReadCases
  <2>4. t.quiet => \A r \in Requests : u.seen[r] = SignalOf(r)
    BY <2>1, <2>2, <2>3 DEF QuietHolds, SeesRequests, IsSyncing
  <2>5. QuietHolds(u)
    BY <2>2, <2>4 DEF QuietHolds, SeesRequests, WroteCases, WroteNotices
  <2> QED
    BY <1>0, <2>3, <2>5, QuietRead
<1> QED
  BY <1>1, <1>2, <1>3

(* The row of an exception is written as it was meant.                     *)
LEMMA SyncWrites ==
    ASSUME SyncInv, NEW w \in Workers, NEW r \in Requests, WriteCase(w, r)
    PROVE  (\A v \in Workers : QuietHolds(tx[v]))'
<1>1. PICK t \in Writing : t = tx[w] /\ QuietHolds(t)
  BY TxShape DEF WriteCase, SyncInv
<1>2. PICK k \in Keys : k = KeyOf(r, t.seen[r]) /\ k \in ActiveKeys(t) /\ k[2] = r
  <2>1. r \in Exceptional(t)
    BY <1>1 DEF WriteCase
  <2>2. Category(t.seen[r]) \in Categories
    BY <2>1, RulesShape DEF Exceptional
  <2> QED
    BY <2>1, <2>2, KeyShape, SeenKeys DEF KeyOf
<1>3. PICK u : u = [t EXCEPT !.unnotified = {k}]
  OBVIOUS
<1>4. /\ Write(w, u) /\ UNCHANGED <<requests, notices>> /\ t.unnotified = {}
      /\ cases' = [cases EXCEPT ![k] = Meant(t, k)]
  BY <1>1, <1>2, <1>3 DEF WriteCase, Meant
<1>5. /\ u.pc = "writing" /\ t.pc = "writing" /\ u.quiet = t.quiet /\ u.seen = t.seen
      /\ u.cases = t.cases /\ u.done = t.done /\ u.unnotified = {k}
  BY <1>3 DEF Writing
<1>6. ASSUME t.quiet
      PROVE  SeesRequests(t) /\ WroteCases(t, cases) /\ WroteNotices(t, notices)
  BY <1>1, <1>5, <1>6 DEF QuietHolds, IsSyncing
<1>7. ASSUME t.quiet PROVE SeesRequests(u)'
  BY <1>4, <1>5, <1>6, <1>7 DEF SeesRequests, SignalOf
<1>8. ASSUME t.quiet PROVE WroteCases(u, cases')
  <2>1. cases' \in [Keys -> CaseRow \cup {NoCase}] /\ cases \in [Keys -> CaseRow \cup {NoCase}]
    BY WriteCaseTypes DEF SyncInv, TypeInv, TypeOK
  <2>2. u.done \cup u.unnotified \subseteq ActiveKeys(u) \cup StaleKeys(u)
    BY <1>2, <1>5, <1>6, <1>8, SameMeaning DEF WroteCases
  <2>3. \A x \in Keys : cases'[x] = IF x \in u.done \cup u.unnotified THEN Meant(u, x)
                                     ELSE u.cases[x]
    <3>1. \A x \in Keys : cases'[x] = IF x = k THEN Meant(t, k) ELSE cases[x]
      BY <1>4, <2>1
    <3>2. \A x \in Keys : cases[x] = IF x \in t.done THEN Meant(t, x) ELSE t.cases[x]
      BY <1>4, <1>5, <1>6, <1>8 DEF WroteCases
    <3> QED
      BY <1>5, <3>1, <3>2, SameMeaning
  <2> QED
    BY <1>5, <2>2, <2>3 DEF WroteCases
<1>9. ASSUME t.quiet PROVE WroteNotices(u, notices')
  BY <1>4, <1>5, <1>6, <1>9, SameMeaning DEF WroteNotices
<1>10. QuietHolds(u)'
  BY <1>5, <1>7, <1>8, <1>9 DEF QuietHolds
<1> QED
  BY <1>4, <1>10, QuietWrite

(* So is a stale case.                                                     *)
LEMMA SyncResolves ==
    ASSUME SyncInv, NEW w \in Workers, NEW k \in Keys, ResolveStale(w, k)
    PROVE  (\A v \in Workers : QuietHolds(tx[v]))'
<1>1. PICK t \in Writing : t = tx[w] /\ QuietHolds(t)
  BY TxShape DEF ResolveStale, SyncInv
<1>2. k \in StaleKeys(t) /\ k \notin t.done /\ k \notin ActiveKeys(t)
  BY <1>1 DEF ResolveStale, StaleKeys
<1>3. PICK u : u = [t EXCEPT !.unnotified = {k}]
  OBVIOUS
<1>4. /\ Write(w, u) /\ UNCHANGED <<requests, notices>> /\ t.unnotified = {}
      /\ cases' = [cases EXCEPT ![k] = [cases[k] EXCEPT !.status = "RESOLVED"]]
  BY <1>1, <1>3 DEF ResolveStale
<1>5. /\ u.pc = "writing" /\ t.pc = "writing" /\ u.quiet = t.quiet /\ u.seen = t.seen
      /\ u.cases = t.cases /\ u.done = t.done /\ u.unnotified = {k}
  BY <1>3 DEF Writing
<1>6. ASSUME t.quiet
      PROVE  SeesRequests(t) /\ WroteCases(t, cases) /\ WroteNotices(t, notices)
  BY <1>1, <1>5, <1>6 DEF QuietHolds, IsSyncing
<1>7. ASSUME t.quiet PROVE SeesRequests(u)'
  BY <1>4, <1>5, <1>6, <1>7 DEF SeesRequests, SignalOf
<1>8. ASSUME t.quiet PROVE WroteCases(u, cases')
  <2>1. cases \in [Keys -> CaseRow \cup {NoCase}]
    BY DEF SyncInv, TypeInv, TypeOK
  <2>2. u.done \cup u.unnotified \subseteq ActiveKeys(u) \cup StaleKeys(u)
    BY <1>2, <1>5, <1>6, <1>8, SameMeaning DEF WroteCases
  <2>3. \A x \in Keys : cases'[x] = IF x \in u.done \cup u.unnotified THEN Meant(u, x)
                                     ELSE u.cases[x]
    <3>1. \A x \in Keys : cases[x] = IF x \in t.done THEN Meant(t, x) ELSE t.cases[x]
      BY <1>4, <1>5, <1>6, <1>8 DEF WroteCases
    <3>2. cases[k] = t.cases[k]
      BY <1>2, <3>1
    <3>3. Meant(t, k) = [t.cases[k] EXCEPT !.status = "RESOLVED"]
      BY <1>2 DEF Meant
    <3>4. cases' = [cases EXCEPT ![k] = Meant(t, k)]
      BY <1>4, <3>2, <3>3
    <3>5. \A x \in Keys : cases'[x] = IF x = k THEN Meant(t, k) ELSE cases[x]
      BY <2>1, <3>4
    <3> QED
      BY <1>5, <3>1, <3>5, SameMeaning
  <2> QED
    BY <1>5, <2>2, <2>3 DEF WroteCases
<1>9. ASSUME t.quiet PROVE WroteNotices(u, notices')
  BY <1>4, <1>5, <1>6, <1>9, SameMeaning DEF WroteNotices
<1>10. QuietHolds(u)'
  BY <1>5, <1>7, <1>8, <1>9 DEF QuietHolds
<1> QED
  BY <1>4, <1>10, QuietWrite

(* The notification follows its case before another case is written.       *)
LEMMA SyncNotifies ==
    ASSUME SyncInv, NEW w \in Workers, NEW k \in Keys, NotifyCase(w, k)
    PROVE  (\A v \in Workers : QuietHolds(tx[v]))'
<1>1. PICK t \in Writing : t = tx[w] /\ QuietHolds(t)
  BY TxShape DEF NotifyCase, SyncInv
<1>2. PICK u : u = [t EXCEPT !.unnotified = {}, !.done = @ \cup {k}]
  OBVIOUS
<1>3. /\ Write(w, u) /\ UNCHANGED <<requests, cases>> /\ k \in t.unnotified
      /\ notices' = [notices EXCEPT ![k] = NoticeFor(t, k)]
  BY <1>1, <1>2 DEF NotifyCase
<1>4. /\ u.pc = "writing" /\ t.pc = "writing" /\ u.quiet = t.quiet /\ u.seen = t.seen
      /\ u.cases = t.cases /\ u.done = t.done \cup {k} /\ u.unnotified = {}
      /\ t.done \subseteq Keys
  BY <1>2 DEF Writing
<1>5. ASSUME t.quiet
      PROVE  SeesRequests(t) /\ WroteCases(t, cases) /\ WroteNotices(t, notices)
  BY <1>1, <1>4, <1>5 DEF QuietHolds, IsSyncing
<1>6. ASSUME t.quiet PROVE SeesRequests(u)'
  BY <1>3, <1>4, <1>5, <1>6 DEF SeesRequests, SignalOf
<1>7. ASSUME t.quiet PROVE WroteCases(u, cases')
  <2>1. u.done \cup u.unnotified = t.done \cup t.unnotified
    BY <1>3, <1>4, <1>5, <1>7 DEF WroteCases
  <2> QED
    BY <1>3, <1>4, <1>5, <1>7, <2>1, SameMeaning DEF WroteCases
<1>8. ASSUME t.quiet PROVE WroteNotices(u, notices')
  <2>1. notices \in [Keys -> {"NONE", "UNREAD", "READ"}]
    BY DEF SyncInv, TypeInv, TypeOK
  <2>2. \A x \in Keys : notices'[x] = IF x = k THEN NoticeFor(t, k) ELSE notices[x]
    BY <1>3, <2>1
  <2>3. \A x \in t.done : notices[x] = NoticeFor(t, x)
    BY <1>4, <1>5, <1>8 DEF WroteNotices
  <2> QED
    BY <1>4, <2>2, <2>3, SameMeaning DEF WroteNotices
<1>9. QuietHolds(u)'
  BY <1>4, <1>6, <1>7, <1>8 DEF QuietHolds
<1> QED
  BY <1>3, <1>9, QuietWrite

(* A quiet synchronization that has written all it meant to leaves every   *)
(* request exact: its exception was opened, reopened or is resolved for    *)
(* this state, and any other open case of it was stale.                    *)
LEMMA DoneIsExact ==
    ASSUME SyncInv, NEW t \in Writing, QuietHolds(t), t.quiet, t.unnotified = {},
           ActiveKeys(t) \cup StaleKeys(t) \subseteq t.done, NEW r \in Requests
    PROVE  IsExact(r)
<1>1. PICK s \in Prints : s = SignalOf(r) /\ s = t.seen[r]
  BY DEF QuietHolds, SeesRequests, IsSyncing, Writing
<1>2. /\ \A k \in Keys : cases[k] = IF k \in ActiveKeys(t) \cup StaleKeys(t) THEN Meant(t, k)
                                   ELSE t.cases[k]
      /\ \A k \in ActiveKeys(t) \cup StaleKeys(t) : notices[k] = NoticeFor(t, k)
  BY DEF QuietHolds, WroteCases, WroteNotices, IsSyncing, Writing
<1>3. t.cases \in [Keys -> CaseRow \cup {NoCase}]
  BY DEF Writing
<1>4. ASSUME Category(s) # "NONE", NEW k, k = KeyOf(r, s)
      PROVE  /\ cases[k] # NoCase
             /\ IF cases[k].status \in Closed
                THEN cases[k].resolvedPrint = s /\ notices[k] = "READ"
                ELSE notices[k] = "UNREAD"
  <2>1. k \in Keys /\ k \in ActiveKeys(t) /\ k[2] = r
    <3>1. r \in Exceptional(t) /\ Category(s) \in Categories
      BY <1>1, <1>4, RulesShape DEF Exceptional
    <3> QED
      BY <1>1, <1>4, <3>1, SeenKeys, KeyShape DEF KeyOf
  <2>2. OpeningStatus(Category(s)) \notin Closed
    BY RulesShape DEF Closed
  <2>3. CASE t.cases[k] = NoCase
    <3>1. cases[k] = Opened(OpeningStatus(Category(s)), s) /\ notices[k] = "UNREAD"
      BY <1>1, <1>2, <2>1, <2>3 DEF Meant, NoticeFor
    <3>2. cases[k].status \notin Closed /\ cases[k] \in CaseRow
      BY <2>2, <3>1, RulesShape DEF Opened, CaseRow, OpenStatuses
    <3> QED
      BY <3>1, <3>2, CaseShape
  <2>4. CASE t.cases[k] # NoCase
    <3>1. PICK row \in CaseRow : row = t.cases[k]
      BY <1>3, <2>1, <2>4
    <3>2. /\ cases[k] = Refreshed(row, s)
          /\ notices[k] = IF Refreshed(row, s).status \notin Closed THEN "UNREAD" ELSE "READ"
      BY <1>1, <1>2, <2>1, <2>4, <3>1 DEF Meant, NoticeFor
    <3>3. Refreshed(row, s).status \in Closed => Refreshed(row, s).resolvedPrint = s
      BY <2>2 DEF Refreshed
    <3>4. Refreshed(row, s) # NoCase
      BY WrittenShape, CaseShape
    <3> QED
      BY <3>2, <3>3, <3>4
  <2> QED
    BY <2>3, <2>4
<1>5. ASSUME NEW c \in Categories, c # Category(s)
      PROVE  cases[CaseKey(r, c)].status \notin OpenStatuses
  <2>1. PICK k \in Keys : k = CaseKey(r, c) /\ k[2] = r
    BY KeyShape
  <2>2. k \notin ActiveKeys(t)
    <3>1. KeyOf(r, s) # k
      BY <1>5, <2>1, KeyShape DEF KeyOf
    <3> QED
      BY <1>1, <2>1, <3>1, SeenKeys
  <2>3. CASE k \in StaleKeys(t)
    <3>1. PICK row \in CaseRow : row = t.cases[k]
      BY <1>3, <2>3, CaseShape DEF StaleKeys
    <3>2. cases[k] = [row EXCEPT !.status = "RESOLVED"]
      BY <1>2, <2>2, <2>3, <3>1 DEF Meant
    <3>3. cases[k].status = "RESOLVED"
      BY <3>2 DEF CaseRow
    <3> QED
      BY <2>1, <3>3 DEF OpenStatuses
  <2>4. CASE k \notin StaleKeys(t)
    BY <1>2, <2>1, <2>2, <2>4 DEF StaleKeys
  <2> QED
    BY <2>3, <2>4
<1> QED
  BY <1>1, <1>4, <1>5 DEF IsExact

(* The end of a synchronization.                                           *)
LEMMA SyncEnds ==
    ASSUME SyncInv, NEW w \in Workers, EndSync(w)
    PROVE  (\A v \in Workers : QuietHolds(tx[v]))'
<1>1. PICK t \in Writing : t = tx[w] /\ QuietHolds(t)
  BY TxShape DEF EndSync, SyncInv
<1>2. PICK u : u = [pc |-> "synced", goal |-> t.goal, quiet |-> t.quiet]
  OBVIOUS
<1>3. Proceed(w, u) /\ UNCHANGED <<requests, cases, notices>>
  BY <1>1, <1>2 DEF EndSync
<1>4. t.quiet => \A r \in Requests : IsExact(r)
  BY <1>1, DoneIsExact DEF EndSync
<1>5. QuietHolds(u)
  BY <1>2, <1>4 DEF QuietHolds, SeesRequests, WroteCases, WroteNotices
<1> QED
  BY <1>3, <1>5, QuietRead

(* The steps after the synchronization, and before it.                     *)
LEMMA OtherSteps ==
    ASSUME SyncInv, NEW w \in Workers, Open(w) \/ Act(w) \/ Abort(w)
    PROVE  (\A v \in Workers : QuietHolds(tx[v]))'
<1>1. ASSUME NEW t, t.pc \in {"idle", "start", "checked", "actionRead", "paid"},
             \/ Proceed(w, t) /\ UNCHANGED <<requests, cases, notices>>
             \/ Write(w, t)
      PROVE  (\A v \in Workers : QuietHolds(tx[v]))'
  BY <1>1, NothingSeen, QuietRead, QuietWrite
<1>2. \A goal : Start(goal).pc = "start"
  BY DEF Start
<1>3. CASE Open(w)
  <2>1. PICK goal : BeginSync(w, goal)
    BY <1>3 DEF Open
  <2>2. PICK u : u = Start(goal) /\ u.pc = "start"
    BY <1>2
  <2> QED
    BY <1>1, <2>1, <2>2 DEF BeginSync
<1>4. CASE ShowPage(w) \/ Abort(w)
  BY <1>1, <1>4 DEF ShowPage, Abort, Idle
<1>5. CASE CheckAction(w)
  <2>1. PICK u : u = [pc |-> "checked", action |-> tx[w].goal.action, key |-> tx[w].goal.key]
    OBVIOUS
  <2> QED
    BY <1>1, <1>5, <2>1 DEF CheckAction
<1>6. CASE ReadForAction(w)
  <2>1. PICK u : u = [pc |-> "actionRead", action |-> tx[w].action, key |-> tx[w].key,
                      row |-> cases[tx[w].key], request |-> requests[tx[w].key[2]]]
    OBVIOUS
  <2> QED
    BY <1>1, <1>6, <2>1 DEF ReadForAction
<1>7. CASE CommitAction(w) \/ RecordRequeue(w)
  BY <1>1, <1>2, <1>7 DEF CommitAction, RecordRequeue
<1>8. ASSUME NEW l \in Ledgers, PayRequeue(w, l)
      PROVE  (\A v \in Workers : QuietHolds(tx[v]))'
  <2>1. PICK u : u = [pc |-> "paid", key |-> tx[w].key]
    OBVIOUS
  <2> QED
    BY <1>1, <1>8, <2>1 DEF PayRequeue
<1> QED
  BY <1>3, <1>4, <1>5, <1>6, <1>7, <1>8 DEF Act

(* The request moves on under every synchronization in flight.             *)
LEMMA ProgressDisturbs ==
    ASSUME SyncInv, NEW r \in Requests, NEW l \in Ledgers, Progress(r, l)
    PROVE  (\A v \in Workers : QuietHolds(tx[v]))'
<1>1. ASSUME NEW v \in Workers PROVE ~(IsSyncing(tx'[v]) /\ tx'[v].quiet)
  <2>1. tx'[v] = Disturbed(tx[v]) /\ tx[v] \in TxStates
    BY DEF Progress, SyncInv, TypeInv
  <2> QED
    BY <2>1, DisturbedShape
<1> QED
  BY <1>1 DEF QuietHolds, IsSyncing

(* The invariant is inductive.                                             *)
LEMMA SyncStep == SyncInv /\ [Next]_vars => SyncInv'
<1> SUFFICES ASSUME SyncInv, [Next]_vars PROVE SyncInv'
  OBVIOUS
<1>1. TypeInv'
  BY TypeStep DEF SyncInv
<1>2. CASE UNCHANGED vars
  BY <1>1, <1>2
       DEF vars, SyncInv, QuietHolds, SeesRequests, WroteCases, WroteNotices, IsExact, SignalOf
<1>3. ASSUME NEW r \in Requests, NEW l \in Ledgers, Progress(r, l) PROVE SyncInv'
  BY <1>1, <1>3, ProgressDisturbs DEF SyncInv
<1>4. ASSUME NEW w \in Workers, Open(w) \/ Act(w) \/ Abort(w) PROVE SyncInv'
  BY <1>1, <1>4, OtherSteps DEF SyncInv
<1>5. ASSUME NEW w \in Workers, Sync(w) PROVE SyncInv'
  BY <1>1, <1>5, SyncReads, SyncWrites, SyncResolves, SyncNotifies, SyncEnds DEF Sync, SyncInv
<1> QED
  BY <1>2, <1>3, <1>4, <1>5 DEF Next

(* A synchronization nobody writes beside leaves the case and the          *)
(* notification of every request exact, whatever it found.                 *)
THEOREM CleanSync == Spec => []CleanSyncIsExact
<1>1. Init => SyncInv
  <2> SUFFICES ASSUME Init PROVE SyncInv
    OBVIOUS
  <2>1. \A w \in Workers : tx[w].pc = "idle"
    BY DEF Init, Idle
  <2> QED
    BY <2>1, InitTypes, NothingSeen DEF SyncInv
<1>2. SyncInv => CleanSyncIsExact
  BY DEF SyncInv, CleanSyncIsExact, QuietHolds, IsSyncing
<1> QED
  BY <1>1, <1>2, SyncStep, PTL DEF Spec
================================================================================
