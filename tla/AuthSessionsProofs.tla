-------------------------- MODULE AuthSessionsProofs --------------------------
(***************************************************************************)
(* Proofs about AuthSessions, for any number of people, memberships,       *)
(* subjects, sessions and concurrent invocations.                          *)
(***************************************************************************)
EXTENDS AuthSessions, TLAPS

-----------------------------------------------------------------------------
(* Type correctness.                                                       *)

(* The point an invocation has reached tells what it has read.             *)
LEMMA TxShape ==
    ASSUME TypeOK, NEW w \in Workers
    PROVE  /\ tx[w] \in TxStates
           /\ tx[w].pc \in {"assigned", "linked"} => tx[w] \in Exchanging
           /\ tx[w].pc = "linkRead" => tx[w] \in LinkRead
           /\ tx[w].pc = "assignmentRead" => tx[w] \in AssignRead
           /\ tx[w].pc = "provisionRead" => tx[w] \in ProvisionRead
           /\ tx[w].pc \in {"sessionSeen", "linkSeen"} => tx[w] \in Checking
           /\ tx[w].pc = "checked" => tx[w] \in Checked
<1>1. tx[w] \in TxStates
  BY DEF TypeOK
<1> QED
  BY <1>1 DEF TxStates, Idle, Exchanging, LinkRead, AssignRead, ProvisionRead, Checking, Checked

(* The invocation of a worker goes on in a state of the right type.        *)
LEMMA ProceedType ==
    ASSUME TypeOK, NEW w \in Workers, NEW state \in TxStates, Proceed(w, state)
    PROVE  tx' \in [Workers -> TxStates]
BY DEF TypeOK, Proceed

(* What a commit of one invocation does to the others keeps their type.    *)
LEMMA DisturbedType ==
    ASSUME TypeOK, NEW w \in Workers
    PROVE  Disturbed(tx[w]) \in TxStates
<1>1. CASE tx[w].pc \in {"sessionSeen", "linkSeen"}
  <2>1. tx[w] \in Checking
    BY <1>1, TxShape
  <2>2. [tx[w] EXCEPT !.quiet = FALSE] \in Checking
    BY <2>1 DEF Checking
  <2> QED
    BY <1>1, <2>2 DEF Disturbed, TxStates
<1>2. CASE tx[w].pc = "checked"
  <2>1. tx[w] \in Checked
    BY <1>2, TxShape
  <2>2. [tx[w] EXCEPT !.quiet = FALSE] \in Checked
    BY <2>1 DEF Checked
  <2> QED
    BY <1>2, <2>2 DEF Disturbed, TxStates
<1>3. CASE tx[w].pc \notin {"sessionSeen", "linkSeen", "checked"}
  BY <1>3 DEF Disturbed, TypeOK
<1> QED
  BY <1>1, <1>2, <1>3

(* A commit keeps the type of every invocation.                            *)
LEMMA CommitType ==
    ASSUME TypeOK, NEW w \in Workers, Commit(w)
    PROVE  tx' \in [Workers -> TxStates]
<1>1. Idle \in TxStates
  BY DEF TxStates
<1>2. \A x \in Workers : (IF x = w THEN Idle ELSE Disturbed(tx[x])) \in TxStates
  BY <1>1, DisturbedType
<1> QED
  BY <1>2 DEF Commit

(* The steps that only read leave the rows alone and the types intact.     *)
Reading(w) ==
    \/ \E ask \in Exchange : BeginExchange(w, ask)
    \/ ReadLink(w)
    \/ \E s \in Sessions : ReadSession(w, s)
    \/ CheckLink(w) \/ CheckAssignment(w) \/ Answer(w) \/ Abort(w)
    \/ \E subject \in Subjects, action \in Lifecycle : ReadLinkForLifecycle(w, subject, action)
    \/ \E m \in Members, action \in Lifecycle : ReadAssignment(w, m, action)
    \/ \E m \in Members : ReadForProvision(w, m)

(* A step that only reads moves one invocation to a state of its type.     *)
LEMMA ReadingTypeOK ==
    ASSUME TypeOK, NEW w \in Workers, Reading(w)
    PROVE  /\ TypeOK'
           /\ UNCHANGED <<members, links, assignments, sessions>>
<1>1. UNCHANGED <<members, links, assignments, sessions>>
  BY DEF Reading, BeginExchange, ReadLink, ReadSession, CheckLink, CheckAssignment, Answer,
         Abort, ReadLinkForLifecycle, ReadAssignment, ReadForProvision
<1>2. tx' \in [Workers -> TxStates]
  <2>1. ASSUME NEW ask \in Exchange, BeginExchange(w, ask) PROVE tx' \in [Workers -> TxStates]
    <3>1. [pc |-> "assigned", ask |-> ask, link |-> NoLink] \in TxStates
      BY DEF TxStates, Exchanging
    <3> QED
      BY <2>1, <3>1 DEF TypeOK, BeginExchange, Begin
  <2>2. ASSUME ReadLink(w) PROVE tx' \in [Workers -> TxStates]
    <3> DEFINE link == links[tx[w].ask.subject]
    <3>1. tx[w] \in Exchanging
      BY <2>2, TxShape DEF ReadLink
    <3>2. link \in LinkRow \cup {NoLink}
      BY <3>1 DEF TypeOK, Exchanging, Exchange
    <3>3. [tx[w] EXCEPT !.pc = "linked", !.link = link] \in Exchanging
      BY <3>1, <3>2 DEF Exchanging
    <3>4. [tx[w] EXCEPT !.pc = "linked", !.link = link] \in TxStates
      BY <3>3 DEF TxStates
    <3> QED
      BY <2>2, <3>4, ProceedType DEF ReadLink
  <2>3. ASSUME NEW s \in Sessions, ReadSession(w, s) PROVE tx' \in [Workers -> TxStates]
    <3>1. [pc |-> "sessionSeen", session |-> s, quiet |-> TRUE] \in TxStates
      BY DEF TxStates, Checking
    <3>2. [pc |-> "checked", session |-> s, quiet |-> TRUE, admitted |-> FALSE] \in TxStates
      BY DEF TxStates, Checked
    <3> QED
      BY <2>3, <3>1, <3>2 DEF TypeOK, ReadSession, Begin
  <2>4. ASSUME NEW admitted \in BOOLEAN, tx[w].pc \in {"sessionSeen", "linkSeen"}
        PROVE  [pc |-> "checked", session |-> tx[w].session, quiet |-> tx[w].quiet,
                admitted |-> admitted] \in TxStates
    <3>1. tx[w] \in Checking
      BY <2>4, TxShape
    <3> QED
      BY <3>1 DEF TxStates, Checking, Checked
  <2>5. ASSUME CheckLink(w) PROVE tx' \in [Workers -> TxStates]
    <3>1. tx[w] \in Checking
      BY <2>5, TxShape DEF CheckLink
    <3>2. [tx[w] EXCEPT !.pc = "linkSeen"] \in Checking
      BY <3>1 DEF Checking
    <3>3. [tx[w] EXCEPT !.pc = "linkSeen"] \in TxStates
      BY <3>2 DEF TxStates
    <3> QED
      BY <2>5, <2>4, <3>3, ProceedType DEF CheckLink, Check
  <2>6. ASSUME CheckAssignment(w) PROVE tx' \in [Workers -> TxStates]
    BY <2>6, <2>4, ProceedType DEF CheckAssignment, Check
  <2>7. ASSUME Answer(w) \/ Abort(w) PROVE tx' \in [Workers -> TxStates]
    <3>1. Idle \in TxStates
      BY DEF TxStates
    <3> QED
      BY <2>7, <3>1, ProceedType DEF Answer, Abort
  <2>8. ASSUME NEW subject \in Subjects, NEW action \in Lifecycle,
               ReadLinkForLifecycle(w, subject, action)
        PROVE  tx' \in [Workers -> TxStates]
    <3>1. [pc |-> "linkRead", subject |-> subject, action |-> action] \in TxStates
      BY DEF TxStates, LinkRead
    <3> QED
      BY <2>8, <3>1 DEF TypeOK, ReadLinkForLifecycle, Begin
  <2>9. ASSUME NEW m \in Members, NEW action \in Lifecycle, ReadAssignment(w, m, action)
        PROVE  tx' \in [Workers -> TxStates]
    <3>1. [pc |-> "assignmentRead", member |-> m, action |-> action] \in TxStates
      BY DEF TxStates, AssignRead
    <3> QED
      BY <2>9, <3>1 DEF TypeOK, ReadAssignment, Begin
  <2>10. ASSUME NEW m \in Members, ReadForProvision(w, m) PROVE tx' \in [Workers -> TxStates]
    <3>1. assignments[m] \in {"NONE", "SUSPENDED", "REVOKED"}
      BY <2>10 DEF TypeOK, ReadForProvision, Statuses
    <3>2. [pc |-> "provisionRead", member |-> m, seen |-> assignments[m]] \in TxStates
      BY <3>1 DEF TxStates, ProvisionRead
    <3> QED
      BY <2>10, <3>2 DEF TypeOK, ReadForProvision, Begin
  <2> QED
    BY <2>1, <2>2, <2>3, <2>5, <2>6, <2>7, <2>8, <2>9, <2>10 DEF Reading
<1> QED
  BY <1>1, <1>2 DEF TypeOK

-----------------------------------------------------------------------------
(* The inductive invariant.                                                *)

(* A link that was read is still there, with its user.                     *)
LinkRemembered(w) ==
    /\ tx[w].pc = "linked" /\ tx[w].link # NoLink
            => links[tx[w].ask.subject].user = UserOf[tx[w].ask.member]
    /\ tx[w].pc = "linkRead" => links[tx[w].subject] # NoLink

(* A check that nobody disturbed is right in what it has found so far.     *)
CheckStands(w) ==
    /\ tx[w].pc \in {"sessionSeen", "linkSeen", "checked"} => tx[w].session \in Known
    /\ tx[w].pc \in {"sessionSeen", "linkSeen"} /\ tx[w].quiet
            => sessions[tx[w].session].state = "LIVE"
    /\ tx[w].pc = "linkSeen" /\ tx[w].quiet
            => links[sessions[tx[w].session].subject].status = "ACTIVE"

SessionsInv ==
    /\ TypeOK
    /\ SubjectNamesOneUser
    /\ SuspensionEndsSessions
    /\ QuietCheckIsExact
    /\ \A w \in Workers : LinkRemembered(w) /\ CheckStands(w)

(* The invariant holds of the empty workspace.                             *)
LEMMA InitSessionsInv == Init => SessionsInv
<1> SUFFICES ASSUME Init PROVE SessionsInv
  OBVIOUS
<1>1. TypeOK
  BY SessionsAssumption DEF Init, TypeOK, TxStates
<1>2. Known = {}
  BY DEF Init, Known
<1>3. \A w \in Workers : tx[w].pc = "idle"
  BY DEF Init, Idle
<1> QED
  BY <1>1, <1>2, <1>3 DEF SessionsInv, SubjectNamesOneUser, SuspensionEndsSessions,
     QuietCheckIsExact, LinkRemembered, CheckStands

(* What a read leaves: the rows and the other invocations as they were.    *)
LEMMA ReadingElsewhere ==
    ASSUME TypeOK, NEW w \in Workers, Reading(w), NEW x \in Workers, x # w
    PROVE  tx'[x] = tx[x]
BY DEF Reading, BeginExchange, ReadLink, ReadSession, CheckLink, CheckAssignment, Answer, Abort,
       ReadLinkForLifecycle, ReadAssignment, ReadForProvision, Begin, Proceed, Check, TypeOK

(* Every session that is known is a row.                                   *)
LEMMA KnownRow ==
    ASSUME TypeOK, NEW s \in Known
    PROVE  s \in Sessions /\ sessions[s] \in SessionRow
BY DEF TypeOK, Known

(* A read keeps what its own invocation remembers.                         *)
LEMMA ReadingRemembers ==
    ASSUME SessionsInv, NEW w \in Workers, Reading(w)
    PROVE  /\ LinkRemembered(w)' /\ CheckStands(w)'
           /\ tx'[w].pc = "checked" /\ tx'[w].quiet =>
                (tx'[w].admitted <=> /\ sessions[tx'[w].session].state = "LIVE"
                                     /\ Stands(sessions[tx'[w].session]))
<1>0. TypeOK /\ UNCHANGED <<members, links, assignments, sessions>>
  BY ReadingTypeOK DEF SessionsInv
<1>1. ASSUME NEW ask \in Exchange, BeginExchange(w, ask)
      PROVE  tx'[w].pc = "assigned"
  BY <1>0, <1>1 DEF BeginExchange, Begin, TypeOK
<1>2. ASSUME ReadLink(w)
      PROVE  /\ tx'[w].pc = "linked"
             /\ tx'[w].link # NoLink => links[tx'[w].ask.subject].user = UserOf[tx'[w].ask.member]
  <2>1. tx[w] \in Exchanging
    BY <1>0, <1>2, TxShape DEF ReadLink
  <2> QED
    BY <1>0, <1>2, <2>1 DEF ReadLink, Proceed, TypeOK, Exchanging, LinkAllows
<1>3. ASSUME NEW s \in Sessions, ReadSession(w, s)
      PROVE  /\ tx'[w].session = s /\ s \in Known
             /\ \/ tx'[w].pc = "sessionSeen" /\ sessions[s].state = "LIVE"
                \/ tx'[w].pc = "checked" /\ ~tx'[w].admitted /\ sessions[s].state # "LIVE"
  BY <1>0, <1>3 DEF ReadSession, Begin, TypeOK, Known
<1>4. ASSUME CheckLink(w)
      PROVE  /\ tx'[w].session = tx[w].session /\ tx'[w].quiet = tx[w].quiet
             /\ tx[w].pc = "sessionSeen"
             /\ \/ /\ tx'[w].pc = "linkSeen"
                   /\ links[sessions[tx[w].session].subject].status = "ACTIVE"
                \/ /\ tx'[w].pc = "checked" /\ ~tx'[w].admitted
                   /\ links[sessions[tx[w].session].subject].status # "ACTIVE"
  <2>1. tx[w] \in Checking
    BY <1>0, <1>4, TxShape DEF CheckLink
  <2> QED
    BY <1>0, <1>4, <2>1 DEF CheckLink, Check, Proceed, TypeOK, Checking
<1>5. ASSUME CheckAssignment(w)
      PROVE  /\ tx'[w].session = tx[w].session /\ tx'[w].quiet = tx[w].quiet
             /\ tx[w].pc = "linkSeen" /\ tx'[w].pc = "checked"
             /\ tx'[w].admitted <=>
                    (sessions[tx[w].session].mode = "EXTERNAL_OIDC"
                        => assignments[sessions[tx[w].session].member] = "ACTIVE")
  <2>1. tx[w] \in Checking
    BY <1>0, <1>5, TxShape DEF CheckAssignment
  <2> QED
    BY <1>0, <1>5, <2>1 DEF CheckAssignment, Check, Proceed, TypeOK, Checking
<1>6. ASSUME Answer(w) \/ Abort(w) PROVE tx'[w].pc = "idle"
  BY <1>0, <1>6 DEF Answer, Abort, Proceed, TypeOK, Idle
<1>7. ASSUME NEW subject \in Subjects, NEW action \in Lifecycle,
             ReadLinkForLifecycle(w, subject, action)
      PROVE  tx'[w].pc = "linkRead" /\ links[tx'[w].subject] # NoLink
  <2>1. links[subject].status # "NONE"
    BY <1>7 DEF ReadLinkForLifecycle, MayTake, Lifecycle
  <2>2. tx'[w] = [pc |-> "linkRead", subject |-> subject, action |-> action]
    BY <1>0, <1>7 DEF ReadLinkForLifecycle, Begin, TypeOK
  <2> QED
    BY <2>1, <2>2 DEF NoLink
<1>8. ASSUME NEW m \in Members, NEW action \in Lifecycle, ReadAssignment(w, m, action)
      PROVE  tx'[w].pc = "assignmentRead"
  BY <1>0, <1>8 DEF ReadAssignment, Begin, TypeOK
<1>9. ASSUME NEW m \in Members, ReadForProvision(w, m) PROVE tx'[w].pc = "provisionRead"
  BY <1>0, <1>9 DEF ReadForProvision, Begin, TypeOK
<1>10. CheckStands(w)
  BY DEF SessionsInv
<1>11. LinkRemembered(w)'
  BY <1>0, <1>1, <1>2, <1>3, <1>4, <1>5, <1>6, <1>7, <1>8, <1>9 DEF Reading, LinkRemembered
<1>12. CheckStands(w)'
  BY <1>0, <1>1, <1>2, <1>3, <1>4, <1>5, <1>6, <1>7, <1>8, <1>9, <1>10
     DEF Reading, CheckStands, Known
<1>13. ASSUME tx'[w].pc = "checked", tx'[w].quiet
       PROVE  tx'[w].admitted <=> /\ sessions[tx'[w].session].state = "LIVE"
                                  /\ Stands(sessions[tx'[w].session])
  BY <1>0, <1>1, <1>2, <1>3, <1>4, <1>5, <1>6, <1>7, <1>8, <1>9, <1>10, <1>13
     DEF Reading, CheckStands, Stands
<1> QED
  BY <1>11, <1>12, <1>13

(* A step that only reads keeps the invariant.                             *)
LEMMA ReadingKeeps ==
    ASSUME SessionsInv, NEW w \in Workers, Reading(w)
    PROVE  SessionsInv'
<1>1. TypeOK' /\ UNCHANGED <<members, links, assignments, sessions>>
  BY ReadingTypeOK DEF SessionsInv
<1>2. \A x \in Workers : x # w => tx'[x] = tx[x]
  BY ReadingElsewhere DEF SessionsInv
<1>3. SubjectNamesOneUser' /\ SuspensionEndsSessions'
  BY <1>1 DEF SessionsInv, SubjectNamesOneUser, SuspensionEndsSessions, Known, Stands
<1>4. \A x \in Workers : LinkRemembered(x)' /\ CheckStands(x)'
  BY <1>1, <1>2, ReadingRemembers DEF SessionsInv, LinkRemembered, CheckStands, Known
<1>5. QuietCheckIsExact'
  BY <1>1, <1>2, ReadingRemembers DEF SessionsInv, QuietCheckIsExact, Stands
<1> QED
  BY <1>1, <1>3, <1>4, <1>5 DEF SessionsInv

-----------------------------------------------------------------------------
(* The steps that write.                                                   *)

Interrupted == \A x \in Workers : tx'[x] = Idle \/ tx'[x] = Disturbed(tx[x])

(* A commit ends one invocation and disturbs the others.                   *)
LEMMA CommitInterrupts ==
    ASSUME NEW w \in Workers, Commit(w)
    PROVE  Interrupted
BY DEF Commit, Interrupted

(* An interrupted invocation remembers what it did, and is quiet no more.  *)
LEMMA DisturbedShape ==
    ASSUME TypeOK, NEW x \in Workers, tx'[x] = Idle \/ tx'[x] = Disturbed(tx[x])
    PROVE  /\ tx'[x].pc \in {"linked", "linkRead"} => tx'[x] = tx[x]
           /\ tx'[x].pc \in {"sessionSeen", "linkSeen", "checked"} =>
                /\ tx[x].pc = tx'[x].pc
                /\ tx'[x].session = tx[x].session
                /\ ~tx'[x].quiet
<1>1. CASE tx'[x] = Idle
  BY <1>1 DEF Idle
<1>2. CASE tx'[x] = Disturbed(tx[x]) /\ tx[x].pc \in {"sessionSeen", "linkSeen"}
  <2>1. tx[x] \in Checking
    BY <1>2, TxShape
  <2> QED
    BY <1>2, <2>1 DEF Disturbed, Checking
<1>3. CASE tx'[x] = Disturbed(tx[x]) /\ tx[x].pc = "checked"
  <2>1. tx[x] \in Checked
    BY <1>3, TxShape
  <2> QED
    BY <1>3, <2>1 DEF Disturbed, Checked
<1>4. CASE tx'[x] = Disturbed(tx[x]) /\ tx[x].pc \notin {"sessionSeen", "linkSeen", "checked"}
  BY <1>4 DEF Disturbed
<1> QED
  BY <1>1, <1>2, <1>3, <1>4

(* Links keep their user and sessions their place: what the other          *)
(* invocations have read of them stays true when they are interrupted.     *)
LEMMA InterruptedRemember ==
    ASSUME SessionsInv, Interrupted,
           \A u \in Subjects : links[u] # NoLink =>
                links'[u] # NoLink /\ links'[u].user = links[u].user,
           Known \subseteq Known'
    PROVE  /\ \A x \in Workers : LinkRemembered(x)' /\ CheckStands(x)'
           /\ QuietCheckIsExact'
<1> USE DEF SessionsInv
<1>1. ASSUME NEW x \in Workers PROVE LinkRemembered(x)'
  <2>1. LinkRemembered(x) /\ (tx'[x].pc \in {"linked", "linkRead"} => tx'[x] = tx[x])
    BY DisturbedShape DEF Interrupted
  <2>2. ASSUME tx'[x].pc = "linked", tx'[x].link # NoLink
        PROVE  links'[tx'[x].ask.subject].user = UserOf[tx'[x].ask.member]
    <3>1. tx[x] \in Exchanging /\ tx'[x] = tx[x]
      BY <2>1, <2>2, TxShape
    <3>2. tx[x].ask.subject \in Subjects /\ UserOf[tx[x].ask.member] \in Users
      BY <3>1, SessionsAssumption DEF Exchanging, Exchange
    <3>3. links[tx[x].ask.subject].user = UserOf[tx[x].ask.member]
      BY <2>1, <2>2, <3>1 DEF LinkRemembered
    <3>4. links[tx[x].ask.subject] # NoLink
      BY <3>2, <3>3, SessionsAssumption DEF NoLink
    <3> QED
      BY <3>1, <3>2, <3>3, <3>4
  <2>3. ASSUME tx'[x].pc = "linkRead" PROVE links'[tx'[x].subject] # NoLink
    <3>1. tx[x] \in LinkRead /\ tx'[x] = tx[x]
      BY <2>1, <2>3, TxShape
    <3> QED
      BY <2>1, <2>3, <3>1 DEF LinkRemembered, LinkRead
  <2> QED
    BY <2>2, <2>3 DEF LinkRemembered
<1>2. ASSUME NEW x \in Workers PROVE CheckStands(x)'
  BY DisturbedShape DEF Interrupted, CheckStands
<1>3. QuietCheckIsExact'
  BY DisturbedShape DEF Interrupted, QuietCheckIsExact
<1> QED
  BY <1>1, <1>2, <1>3

(* A session whose state alone is written is the same in all else.         *)
LEMMA StateWritten ==
    ASSUME NEW row \in SessionRow, NEW state \in {"LIVE", "REVOKED", "EXPIRED"}
    PROVE  LET new == [row EXCEPT !.state = state] IN
           /\ new \in SessionRow /\ new # NoSession
           /\ new.subject = row.subject /\ new.member = row.member
           /\ new.mode = row.mode /\ new.raced = row.raced
           /\ new.state = state
BY DEF SessionRow, NoSession

(* The sessions after a lifecycle action are those before, some revoked.   *)
LEMMA WithoutShape ==
    ASSUME TypeOK, NEW action \in Lifecycle, NEW covered \in SUBSET Known,
           sessions' = Without(action, covered)
    PROVE  /\ sessions' \in [Sessions -> SessionRow \cup {NoSession}]
           /\ Known' = Known
           /\ \A s \in Known :
                /\ sessions'[s].subject = sessions[s].subject
                /\ sessions'[s].member = sessions[s].member
                /\ sessions'[s].mode = sessions[s].mode
                /\ sessions'[s].raced = sessions[s].raced
                /\ sessions'[s].state = "LIVE" =>
                     /\ sessions[s].state = "LIVE"
                     /\ s \in covered => action = "REACTIVATE"
<1>1. ASSUME NEW s \in Known
      PROVE  /\ sessions'[s] \in SessionRow /\ sessions'[s] # NoSession
             /\ sessions'[s].subject = sessions[s].subject
             /\ sessions'[s].member = sessions[s].member
             /\ sessions'[s].mode = sessions[s].mode
             /\ sessions'[s].raced = sessions[s].raced
             /\ sessions'[s].state = "LIVE" =>
                  /\ sessions[s].state = "LIVE"
                  /\ s \in covered => action = "REACTIVATE"
  <2>1. s \in Sessions /\ sessions[s] \in SessionRow /\ sessions[s] # NoSession
    BY KnownRow DEF Known
  <2>2. CASE action # "REACTIVATE" /\ s \in covered /\ sessions[s].state = "LIVE"
    BY <2>1, <2>2, StateWritten DEF Without
  <2>3. CASE ~(action # "REACTIVATE" /\ s \in covered /\ sessions[s].state = "LIVE")
    BY <2>1, <2>3 DEF Without
  <2> QED
    BY <2>2, <2>3
<1>2. ASSUME NEW s \in Sessions, s \notin Known PROVE sessions'[s] = NoSession
  BY <1>2 DEF Without, Known
<1>3. sessions' \in [Sessions -> SessionRow \cup {NoSession}]
  <2>1. \A s \in Sessions : sessions'[s] \in SessionRow \cup {NoSession}
    BY <1>1, <1>2
  <2> QED
    BY <2>1 DEF Without
<1>4. Known' = Known
  BY <1>1, <1>2 DEF Known
<1> QED
  BY <1>1, <1>3, <1>4

(* A status an action leads to.                                            *)
LEMMA StatusAfterType ==
    ASSUME NEW action \in Lifecycle
    PROVE  /\ StatusAfter(action) \in Statuses
           /\ action = "REACTIVATE" => StatusAfter(action) = "ACTIVE"
BY DEF Lifecycle, StatusAfter, Statuses

(* An exchange links its subject to the user it names, or found it so, and *)
(* a session of a suspended link or assignment is marked as raced.         *)
LEMMA CommitExchangeKeeps ==
    ASSUME SessionsInv, NEW w \in Workers, NEW s \in Sessions, CommitExchange(w, s)
    PROVE  SessionsInv'
<1> USE DEF SessionsInv
<1> DEFINE ask == tx[w].ask
           row == [member |-> ask.member, subject |-> ask.subject, mode |-> ask.mode,
                   state |-> "LIVE", raced |-> IsRaced(tx[w])]
           link == [user |-> UserOf[ask.member], status |-> "ACTIVE"]
<1>1. /\ tx[w] \in Exchanging /\ tx[w].pc = "linked" /\ sessions[s] = NoSession
      /\ ask.member \in Members /\ ask.subject \in Subjects /\ ask.mode \in Modes
  BY TxShape DEF CommitExchange, Exchanging, Exchange
<1>2. /\ row \in SessionRow /\ row # NoSession
      /\ link \in LinkRow /\ link # NoLink
  BY <1>1, SessionsAssumption DEF SessionRow, NoSession, LinkRow, Statuses, NoLink, IsRaced
<1>3. /\ sessions' = [sessions EXCEPT ![s] = row]
      /\ links' = IF tx[w].link # NoLink THEN links ELSE [links EXCEPT ![ask.subject] = link]
      /\ members' = members /\ assignments' = assignments
      /\ tx[w].link = NoLink => links[ask.subject] = NoLink
  BY DEF CommitExchange, LinkIsFree
<1>4. TypeOK'
  <2>1. tx' \in [Workers -> TxStates]
    BY CommitType DEF CommitExchange
  <2> QED
    BY <1>1, <1>2, <1>3, <2>1 DEF TypeOK
<1>5. Known' = Known \cup {s} /\ s \notin Known
  BY <1>1, <1>2, <1>3 DEF Known, TypeOK
<1>6. \A k \in Known : sessions'[k] = sessions[k]
  BY <1>3, <1>5 DEF TypeOK, Known
<1>7. sessions'[s] = row
  BY <1>3 DEF TypeOK
<1>8. \A u \in Subjects : links[u] # NoLink => links'[u] = links[u]
  BY <1>1, <1>3 DEF TypeOK
<1>9. links'[ask.subject].user = UserOf[ask.member]
  <2>1. CASE tx[w].link = NoLink
    BY <1>1, <1>3, <2>1 DEF TypeOK
  <2>2. CASE tx[w].link # NoLink
    BY <1>1, <1>3, <2>2 DEF LinkRemembered
  <2> QED
    BY <2>1, <2>2
<1>10. ASSUME NEW k \in Known
       PROVE  /\ sessions[k].subject \in Subjects
              /\ links'[sessions[k].subject] = links[sessions[k].subject]
  <2>1. sessions[k] \in SessionRow
    BY KnownRow
  <2>2. links[sessions[k].subject].user \in Users
    BY <2>1, SessionsAssumption DEF SubjectNamesOneUser, SessionRow
  <2>3. links[sessions[k].subject] # NoLink
    BY <2>2, SessionsAssumption DEF NoLink
  <2> QED
    BY <2>1, <2>3, <1>8 DEF SessionRow
<1>11. SubjectNamesOneUser'
  <2>1. ASSUME NEW k \in Known PROVE links'[sessions'[k].subject].user = UserOf[sessions'[k].member]
    BY <1>6, <1>10 DEF SubjectNamesOneUser
  <2>2. links'[sessions'[s].subject].user = UserOf[sessions'[s].member]
    BY <1>7, <1>9
  <2> QED
    BY <1>5, <2>1, <2>2 DEF SubjectNamesOneUser
<1>12. SuspensionEndsSessions'
  <2>1. ASSUME NEW k \in Known, sessions'[k].state = "LIVE", ~sessions'[k].raced
        PROVE  Stands(sessions[k])'
    BY <1>3, <1>6, <1>10, <2>1 DEF SuspensionEndsSessions, Stands
  <2>2. ASSUME ~row.raced PROVE Stands(sessions[s])'
    <3>1. ~IsRaced(tx[w])
      BY <2>2
    <3>2. links'[ask.subject].status = "ACTIVE"
      <4>1. CASE tx[w].link = NoLink
        BY <1>1, <1>3, <4>1 DEF TypeOK
      <4>2. CASE tx[w].link # NoLink
        BY <1>3, <3>1, <4>2 DEF IsRaced
      <4> QED
        BY <4>1, <4>2
    <3>3. ask.mode = "EXTERNAL_OIDC" => assignments'[ask.member] = "ACTIVE"
      BY <1>3, <3>1 DEF IsRaced
    <3> QED
      BY <1>7, <3>2, <3>3 DEF Stands
  <2> QED
    BY <1>5, <1>7, <2>1, <2>2 DEF SuspensionEndsSessions
<1>13. (\A x \in Workers : LinkRemembered(x)' /\ CheckStands(x)') /\ QuietCheckIsExact'
  <2>1. Interrupted
    BY CommitInterrupts DEF CommitExchange
  <2> QED
    BY <1>5, <1>8, <2>1, InterruptedRemember
<1> QED
  BY <1>4, <1>11, <1>12, <1>13

(* A lifecycle action on a link, and what it does to its sessions.         *)
LEMMA CommitLinkLifecycleKeeps ==
    ASSUME SessionsInv, NEW w \in Workers, CommitLinkLifecycle(w)
    PROVE  SessionsInv'
<1> USE DEF SessionsInv
<1> DEFINE u == tx[w].subject
           action == tx[w].action
           covered == {k \in Known : sessions[k].subject = u}
<1>1. /\ tx[w] \in LinkRead /\ u \in Subjects /\ action \in Lifecycle
      /\ links[u] # NoLink
  BY TxShape DEF CommitLinkLifecycle, LinkRead, LinkRemembered
<1>2. links[u] \in LinkRow
  BY <1>1 DEF TypeOK
<1>3. /\ links' = [links EXCEPT ![u].status = StatusAfter(action)]
      /\ sessions' = Without(action, covered)
      /\ members' = members /\ assignments' = assignments
  BY DEF CommitLinkLifecycle
<1>4. /\ links'[u] \in LinkRow /\ links'[u] # NoLink
      /\ links'[u].user = links[u].user /\ links'[u].status = StatusAfter(action)
      /\ \A v \in Subjects : v # u => links'[v] = links[v]
  BY <1>1, <1>2, <1>3, StatusAfterType, SessionsAssumption DEF TypeOK, LinkRow, NoLink
<1>5. /\ sessions' \in [Sessions -> SessionRow \cup {NoSession}]
      /\ Known' = Known
      /\ \A k \in Known :
           /\ sessions'[k].subject = sessions[k].subject
           /\ sessions'[k].member = sessions[k].member
           /\ sessions'[k].mode = sessions[k].mode
           /\ sessions'[k].raced = sessions[k].raced
           /\ sessions'[k].state = "LIVE" =>
                /\ sessions[k].state = "LIVE"
                /\ k \in covered => action = "REACTIVATE"
  BY <1>1, <1>3, WithoutShape
<1>6. TypeOK'
  <2>1. tx' \in [Workers -> TxStates]
    BY CommitType DEF CommitLinkLifecycle
  <2>2. links' \in [Subjects -> LinkRow \cup {NoLink}]
    <3>1. \A v \in Subjects : links'[v] \in LinkRow \cup {NoLink}
      BY <1>4 DEF TypeOK
    <3> QED
      BY <1>3, <3>1 DEF TypeOK
  <2> QED
    BY <1>3, <1>5, <2>1, <2>2 DEF TypeOK
<1>7. \A k \in Known : sessions[k].subject \in Subjects
  BY KnownRow DEF SessionRow
<1>8. SubjectNamesOneUser'
  BY <1>4, <1>5, <1>7 DEF SubjectNamesOneUser
<1>9. SuspensionEndsSessions'
  <2>1. ASSUME NEW k \in Known, sessions'[k].state = "LIVE", ~sessions'[k].raced
        PROVE  Stands(sessions[k])'
    <3>1. Stands(sessions[k])
      BY <1>5, <2>1 DEF SuspensionEndsSessions
    <3>2. links'[sessions[k].subject].status = "ACTIVE"
      <4>1. CASE sessions[k].subject = u
        BY <1>1, <1>4, <1>5, <2>1, <4>1, StatusAfterType
      <4>2. CASE sessions[k].subject # u
        BY <1>4, <1>7, <3>1, <4>2 DEF Stands
      <4> QED
        BY <4>1, <4>2
    <3> QED
      BY <1>3, <1>5, <3>1, <3>2 DEF Stands
  <2> QED
    BY <1>5, <2>1 DEF SuspensionEndsSessions
<1>10. (\A x \in Workers : LinkRemembered(x)' /\ CheckStands(x)') /\ QuietCheckIsExact'
  <2>1. Interrupted
    BY CommitInterrupts DEF CommitLinkLifecycle
  <2> QED
    BY <1>4, <1>5, <2>1, InterruptedRemember
<1> QED
  BY <1>6, <1>8, <1>9, <1>10

(* A lifecycle action on an assignment ends every session of its member.   *)
LEMMA CommitAssignmentLifecycleKeeps ==
    ASSUME SessionsInv, NEW w \in Workers, CommitAssignmentLifecycle(w)
    PROVE  SessionsInv'
<1> USE DEF SessionsInv
<1> DEFINE m == tx[w].member
           action == tx[w].action
           covered == {k \in Known : sessions[k].member = m}
<1>1. tx[w] \in AssignRead /\ m \in Members /\ action \in Lifecycle
  BY TxShape DEF CommitAssignmentLifecycle, AssignRead
<1>2. /\ assignments' = [assignments EXCEPT ![m] = StatusAfter(action)]
      /\ sessions' = Without(action, covered)
      /\ members' = members /\ links' = links
  BY DEF CommitAssignmentLifecycle
<1>3. /\ sessions' \in [Sessions -> SessionRow \cup {NoSession}]
      /\ Known' = Known
      /\ \A k \in Known :
           /\ sessions'[k].subject = sessions[k].subject
           /\ sessions'[k].member = sessions[k].member
           /\ sessions'[k].mode = sessions[k].mode
           /\ sessions'[k].raced = sessions[k].raced
           /\ sessions'[k].state = "LIVE" =>
                /\ sessions[k].state = "LIVE"
                /\ k \in covered => action = "REACTIVATE"
  BY <1>1, <1>2, WithoutShape
<1>4. /\ assignments' \in [Members -> Statuses \cup {"NONE"}]
      /\ assignments'[m] = StatusAfter(action)
      /\ \A n \in Members : n # m => assignments'[n] = assignments[n]
  BY <1>1, <1>2, StatusAfterType DEF TypeOK
<1>5. TypeOK'
  <2>1. tx' \in [Workers -> TxStates]
    BY CommitType DEF CommitAssignmentLifecycle
  <2> QED
    BY <1>2, <1>3, <1>4, <2>1 DEF TypeOK
<1>6. SubjectNamesOneUser'
  BY <1>2, <1>3 DEF SubjectNamesOneUser
<1>7. SuspensionEndsSessions'
  <2>1. ASSUME NEW k \in Known, sessions'[k].state = "LIVE", ~sessions'[k].raced
        PROVE  Stands(sessions[k])'
    <3>1. Stands(sessions[k]) /\ sessions[k].member \in Members
      BY <1>3, <2>1, KnownRow DEF SuspensionEndsSessions, SessionRow
    <3>2. sessions[k].mode = "EXTERNAL_OIDC" => assignments'[sessions[k].member] = "ACTIVE"
      <4>1. CASE sessions[k].member = m
        BY <1>1, <1>3, <1>4, <2>1, <4>1, StatusAfterType
      <4>2. CASE sessions[k].member # m
        BY <1>4, <3>1, <4>2 DEF Stands
      <4> QED
        BY <4>1, <4>2
    <3> QED
      BY <1>2, <1>3, <3>1, <3>2 DEF Stands
  <2> QED
    BY <1>3, <2>1 DEF SuspensionEndsSessions
<1>8. (\A x \in Workers : LinkRemembered(x)' /\ CheckStands(x)') /\ QuietCheckIsExact'
  <2>1. Interrupted
    BY CommitInterrupts DEF CommitAssignmentLifecycle
  <2> QED
    BY <1>2, <1>3, <2>1, InterruptedRemember
<1> QED
  BY <1>5, <1>6, <1>7, <1>8

(* A provisioned assignment is active, and takes nothing from a session.   *)
LEMMA CommitProvisionKeeps ==
    ASSUME SessionsInv, NEW w \in Workers, CommitProvision(w)
    PROVE  SessionsInv'
<1> USE DEF SessionsInv
<1> DEFINE m == tx[w].member
<1>1. tx[w] \in ProvisionRead /\ m \in Members
  BY TxShape DEF CommitProvision, ProvisionRead
<1>2. /\ members' = members \cup {m} /\ assignments' = [assignments EXCEPT ![m] = "ACTIVE"]
      /\ links' = links /\ sessions' = sessions
  BY DEF CommitProvision
<1>3. TypeOK'
  <2>1. tx' \in [Workers -> TxStates]
    BY CommitType DEF CommitProvision
  <2> QED
    BY <1>1, <1>2, <2>1 DEF TypeOK, Statuses
<1>4. SubjectNamesOneUser' /\ SuspensionEndsSessions'
  BY <1>1, <1>2, KnownRow
     DEF SubjectNamesOneUser, SuspensionEndsSessions, Stands, Known, TypeOK, SessionRow
<1>5. (\A x \in Workers : LinkRemembered(x)' /\ CheckStands(x)') /\ QuietCheckIsExact'
  <2>1. Interrupted /\ Known' = Known
    BY <1>2, CommitInterrupts DEF CommitProvision, Known
  <2> QED
    BY <1>2, <2>1, InterruptedRemember
<1> QED
  BY <1>3, <1>4, <1>5

(* A session that is ended, by its holder or by its time.                  *)
LEMMA EndedKeeps ==
    ASSUME SessionsInv, NEW s \in Known, NEW state \in {"REVOKED", "EXPIRED"},
           sessions' = [sessions EXCEPT ![s].state = state],
           UNCHANGED <<members, links, assignments>>,
           tx' \in [Workers -> TxStates], Interrupted
    PROVE  SessionsInv'
<1> USE DEF SessionsInv
<1>1. s \in Sessions /\ sessions[s] \in SessionRow
  BY KnownRow
<1>2. /\ sessions'[s] \in SessionRow /\ sessions'[s] # NoSession
      /\ sessions'[s].subject = sessions[s].subject
      /\ sessions'[s].member = sessions[s].member
      /\ sessions'[s].state # "LIVE"
      /\ \A k \in Sessions : k # s => sessions'[k] = sessions[k]
  <2>1. sessions'[s] = [sessions[s] EXCEPT !.state = state]
    BY <1>1 DEF TypeOK
  <2>2. \A k \in Sessions : k # s => sessions'[k] = sessions[k]
    BY DEF TypeOK
  <2>3. state \in {"LIVE", "REVOKED", "EXPIRED"} /\ state # "LIVE"
    OBVIOUS
  <2>4. /\ sessions'[s] \in SessionRow /\ sessions'[s] # NoSession
        /\ sessions'[s].subject = sessions[s].subject
        /\ sessions'[s].member = sessions[s].member
        /\ sessions'[s].state = state
    BY <1>1, <2>1, <2>3 DEF SessionRow, NoSession
  <2> QED
    BY <2>2, <2>3, <2>4
<1>3. TypeOK'
  BY <1>1, <1>2 DEF TypeOK
<1>4. Known' = Known
  BY <1>1, <1>2 DEF Known
<1>5. SubjectNamesOneUser' /\ SuspensionEndsSessions'
  BY <1>2, <1>4, KnownRow DEF SubjectNamesOneUser, SuspensionEndsSessions, Stands
<1>6. (\A x \in Workers : LinkRemembered(x)' /\ CheckStands(x)') /\ QuietCheckIsExact'
  BY <1>4, InterruptedRemember
<1> QED
  BY <1>3, <1>5, <1>6

(* A revoked session was checked, and so is known.                         *)
LEMMA RevokeSessionKeeps ==
    ASSUME SessionsInv, NEW w \in Workers, RevokeSession(w)
    PROVE  SessionsInv'
<1>1. tx[w].session \in Known
  BY DEF SessionsInv, CheckStands, RevokeSession
<1>2. tx' \in [Workers -> TxStates] /\ Interrupted
  BY CommitType, CommitInterrupts DEF SessionsInv, RevokeSession
<1> QED
  BY <1>1, <1>2, EndedKeeps DEF RevokeSession

(* A session that runs out is known.                                       *)
LEMMA ExpireKeeps ==
    ASSUME SessionsInv, NEW s \in Sessions, Expire(s)
    PROVE  SessionsInv'
<1>1. s \in Known
  BY DEF Expire, Known, NoSession
<1>2. tx' \in [Workers -> TxStates] /\ Interrupted
  BY DisturbedType DEF SessionsInv, Expire, Interrupted
<1> QED
  BY <1>1, <1>2, EndedKeeps DEF Expire

-----------------------------------------------------------------------------
(* The theorems.                                                           *)

(* Every step keeps the invariant.                                         *)
LEMMA StepKeeps == SessionsInv /\ [Next]_vars => SessionsInv'
<1> SUFFICES ASSUME SessionsInv, [Next]_vars PROVE SessionsInv'
  OBVIOUS
<1>1. CASE UNCHANGED vars
  BY <1>1 DEF vars, SessionsInv, TypeOK, SubjectNamesOneUser, SuspensionEndsSessions,
     QuietCheckIsExact, LinkRemembered, CheckStands, Known, Stands
<1>2. ASSUME NEW s \in Sessions, Expire(s) PROVE SessionsInv'
  BY <1>2, ExpireKeeps
<1>3. ASSUME NEW w \in Workers, Serve(w) PROVE SessionsInv'
  <2>1. Reading(w)
    BY <1>3 DEF Serve, Reading
  <2> QED
    BY <2>1, ReadingKeeps
<1>4. ASSUME NEW w \in Workers, Continue(w) PROVE SessionsInv'
  <2>1. CASE ReadLink(w) \/ CheckLink(w) \/ CheckAssignment(w) \/ Answer(w) \/ Abort(w)
    <3>1. Reading(w)
      BY <2>1 DEF Reading
    <3> QED
      BY <3>1, ReadingKeeps
  <2> QED
    BY <1>4, <2>1, CommitExchangeKeeps, CommitLinkLifecycleKeeps, CommitAssignmentLifecycleKeeps,
       CommitProvisionKeeps, RevokeSessionKeeps DEF Continue
<1> QED
  BY <1>1, <1>2, <1>3, <1>4 DEF Next

(* The invariant is one of the specification.                              *)
THEOREM Invariance == Spec => []SessionsInv
<1> QED
  BY InitSessionsInv, StepKeeps, PTL DEF Spec

(* Rows and invocations stay within their types.                           *)
THEOREM TypeCorrect == Spec => []TypeOK
<1>1. SessionsInv => TypeOK
  BY DEF SessionsInv
<1> QED
  BY <1>1, Invariance, PTL

(* The sessions of a subject are those of one user, however many exchanges *)
(* of a subject that had no link run at once.                              *)
THEOREM SubjectSafety == Spec => []SubjectNamesOneUser
<1>1. SessionsInv => SubjectNamesOneUser
  BY DEF SessionsInv
<1> QED
  BY <1>1, Invariance, PTL

(* A suspension leaves no session alive but those whose exchange it raced. *)
THEOREM SuspensionSafety == Spec => []SuspensionEndsSessions
<1>1. SessionsInv => SuspensionEndsSessions
  BY DEF SessionsInv
<1> QED
  BY <1>1, Invariance, PTL

(* A check that nothing was committed beside is exact.                     *)
THEOREM CheckSafety == Spec => []QuietCheckIsExact
<1>1. SessionsInv => QuietCheckIsExact
  BY DEF SessionsInv
<1> QED
  BY <1>1, Invariance, PTL
=============================================================================
