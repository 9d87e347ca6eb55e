----------------------------- MODULE AuthSessions -----------------------------
(***************************************************************************)
(* Sessions of an identity provider: the exchange of an assertion for a    *)
(* session and the check of a session on every call (packages/database/    *)
(* src/auth-sessions.ts), the external identity assignments (external-     *)
(* identity-access.ts), and the lifecycle of provider links and the        *)
(* revocation of sessions (access-governance.ts).  The model has one       *)
(* provider, so a link is known by its subject and an assignment by its    *)
(* membership.                                                             *)
(***************************************************************************)
EXTENDS FiniteSets

CONSTANTS
    Users,      \* the people
    Members,    \* their memberships in buyer and seller organizations
    UserOf,     \* whose a membership is
    Seeded,     \* the memberships that exist from the start
    Subjects,   \* what the provider calls people
    Sessions,   \* the sessions that may be created
    Workers,    \* invocations that may be in flight together
    NoUser      \* the user of a link that does not exist

ASSUME SessionsAssumption ==
    /\ UserOf \in [Members -> Users]
    /\ Seeded \subseteq Members
    /\ NoUser \notin Users

VARIABLES
    members,        \* the memberships that exist
    links,          \* IdentityProviderLink rows
    assignments,    \* status of the ExternalIdentityAssignment rows
    sessions,       \* AuthSession rows; history: whether one was raced
    tx              \* what the invocation of each worker has read so far

vars == <<members, links, assignments, sessions, tx>>

Statuses  == {"ACTIVE", "SUSPENDED", "REVOKED"}
Modes     == {"IDENTITY_BRIDGE", "EXTERNAL_OIDC"}
Lifecycle == {"SUSPEND", "REACTIVATE", "REVOKE"}

-----------------------------------------------------------------------------
(* Rows.  A session is live until it is revoked or its time is over.       *)
NoLink     == [user |-> NoUser, status |-> "NONE"]
LinkRow    == [user: Users, status: Statuses]
NoSession  == [state |-> "NONE"]
SessionRow == [member: Members, subject: Subjects, mode: Modes,
               state: {"LIVE", "REVOKED", "EXPIRED"}, raced: BOOLEAN]

Idle == [pc |-> "idle"]
Exchange    == [member: Members, subject: Subjects, mode: Modes]
Exchanging  == [pc: {"assigned", "linked"}, ask: Exchange, link: LinkRow \cup {NoLink}]
LinkRead    == [pc: {"linkRead"}, subject: Subjects, action: Lifecycle]
AssignRead  == [pc: {"assignmentRead"}, member: Members, action: Lifecycle]
ProvisionRead == [pc: {"provisionRead"}, member: Members,
                  seen: {"NONE", "SUSPENDED", "REVOKED"}]
Checking    == [pc: {"sessionSeen", "linkSeen"}, session: Sessions, quiet: BOOLEAN]
Checked     == [pc: {"checked"}, session: Sessions, quiet: BOOLEAN, admitted: BOOLEAN]
TxStates    == {Idle} \cup Exchanging \cup LinkRead \cup AssignRead \cup ProvisionRead
                    \cup Checking \cup Checked

TypeOK ==
    /\ members     \subseteq Members
    /\ links       \in [Subjects -> LinkRow \cup {NoLink}]
    /\ assignments \in [Members -> Statuses \cup {"NONE"}]
    /\ sessions    \in [Sessions -> SessionRow \cup {NoSession}]
    /\ tx \in [Workers -> TxStates]

Init ==
    /\ members     = Seeded
    /\ links       = [s \in Subjects |-> NoLink]
    /\ assignments = [m \in Members |-> "NONE"]
    /\ sessions    = [s \in Sessions |-> NoSession]
    /\ tx          = [w \in Workers |-> Idle]

Begin(w, state)   == tx[w] = Idle /\ tx' = [tx EXCEPT ![w] = state]
Proceed(w, state) == tx' = [tx EXCEPT ![w] = state]

(* History: a check is quiet while nobody commits.                         *)
Disturbed(t) == IF t.pc \in {"sessionSeen", "linkSeen", "checked"}
                THEN [t EXCEPT !.quiet = FALSE] ELSE t
Commit(w)    == tx' = [x \in Workers |-> IF x = w THEN Idle ELSE Disturbed(tx[x])]

-----------------------------------------------------------------------------
(* exchangeIdentitySession: membership, assignment and link are checked    *)
(* before the transaction.  An external identity needs an assignment.      *)
BeginExchange(w, ask) ==
    /\ ask.member \in members
    /\ ask.mode = "EXTERNAL_OIDC" => assignments[ask.member] = "ACTIVE"
    /\ Begin(w, [pc |-> "assigned", ask |-> ask, link |-> NoLink])
    /\ UNCHANGED <<members, links, assignments, sessions>>

LinkAllows(link, ask) ==
    link # NoLink => link.user = UserOf[ask.member] /\ link.status = "ACTIVE"

ReadLink(w) ==
    LET t == tx[w]  link == links[t.ask.subject] IN
    /\ t.pc = "assigned"
    /\ LinkAllows(link, t.ask)
    /\ Proceed(w, [t EXCEPT !.pc = "linked", !.link = link])
    /\ UNCHANGED <<members, links, assignments, sessions>>

(* Faulty: the link is written whether or not there is one by now.         *)
LinkIsUpserted(t) == TRUE

(* A link that was read is updated by id, and so is there; one that was    *)
(* not is created, which its unique provider and subject may refuse.       *)
LinkIsFree(t) == t.link = NoLink => links[t.ask.subject] = NoLink

(* What the transaction does not read again.                               *)
IsRaced(t) ==
    \/ t.link # NoLink /\ links[t.ask.subject].status # "ACTIVE"
    \/ t.ask.mode = "EXTERNAL_OIDC" /\ assignments[t.ask.member] # "ACTIVE"

CommitExchange(w, s) ==
    LET t == tx[w] IN
    /\ t.pc = "linked"
    /\ LinkIsFree(t)
    /\ sessions[s] = NoSession
    /\ links' = IF t.link # NoLink THEN links
                ELSE [links EXCEPT ![t.ask.subject] =
                        [user |-> UserOf[t.ask.member], status |-> "ACTIVE"]]
    /\ sessions' = [sessions EXCEPT ![s] =
            [member |-> t.ask.member, subject |-> t.ask.subject, mode |-> t.ask.mode,
             state |-> "LIVE", raced |-> IsRaced(t)]]
    /\ Commit(w)
    /\ UNCHANGED <<members, assignments>>

-----------------------------------------------------------------------------
(* loadAuthSessionById: session, link and assignment are three reads; the  *)
(* first that fails answers null.                                          *)
Check(w, s, admitted) ==
    Proceed(w, [pc |-> "checked", session |-> s, quiet |-> tx[w].quiet, admitted |-> admitted])

ReadSession(w, s) ==
    /\ sessions[s] # NoSession
    /\ Begin(w, IF sessions[s].state = "LIVE"
                THEN [pc |-> "sessionSeen", session |-> s, quiet |-> TRUE]
                ELSE [pc |-> "checked", session |-> s, quiet |-> TRUE, admitted |-> FALSE])
    /\ UNCHANGED <<members, links, assignments, sessions>>

(* Faulty: only the assignment of a session is looked at again.            *)
CheckLinkNever(w) ==
    /\ tx[w].pc = "sessionSeen"
    /\ Proceed(w, [tx[w] EXCEPT !.pc = "linkSeen"])
    /\ UNCHANGED <<members, links, assignments, sessions>>

CheckLink(w) ==
    LET t == tx[w] IN
    /\ t.pc = "sessionSeen"
    /\ IF links[sessions[t.session].subject].status = "ACTIVE"
       THEN Proceed(w, [t EXCEPT !.pc = "linkSeen"])
       ELSE Check(w, t.session, FALSE)
    /\ UNCHANGED <<members, links, assignments, sessions>>

CheckAssignment(w) ==
    LET t == tx[w]  row == sessions[t.session] IN
    /\ t.pc = "linkSeen"
    /\ Check(w, t.session,
             row.mode = "EXTERNAL_OIDC" => assignments[row.member] = "ACTIVE")
    /\ UNCHANGED <<members, links, assignments, sessions>>

(* The caller goes on as that user, or is turned away.                     *)
Answer(w) ==
    /\ tx[w].pc = "checked"
    /\ Proceed(w, Idle)
    /\ UNCHANGED <<members, links, assignments, sessions>>

(* revokeIdentityProviderSession: the transaction reads the row again.     *)
RevokeSession(w) ==
    LET t == tx[w] IN
    /\ t.pc = "checked"
    /\ t.admitted
    /\ sessions[t.session].state = "LIVE"
    /\ sessions' = [sessions EXCEPT ![t.session].state = "REVOKED"]
    /\ Commit(w)
    /\ UNCHANGED <<members, links, assignments>>

-----------------------------------------------------------------------------
(* The lifecycle of links and assignments: the status is checked on the    *)
(* row that was read, and written by id.                                   *)
MayTake(action, status) ==
    CASE action = "SUSPEND"    -> status = "ACTIVE"
      [] action = "REACTIVATE" -> status = "SUSPENDED"
      [] action = "REVOKE"     -> status \in {"ACTIVE", "SUSPENDED"}

(* Faulty: the name of the action written as the status.                   *)
StatusAsAction(action) == action

StatusAfter(action) ==
    CASE action = "SUSPEND"    -> "SUSPENDED"
      [] action = "REACTIVATE" -> "ACTIVE"
      [] action = "REVOKE"     -> "REVOKED"

(* Faulty: a suspension leaves the sessions to the check of each call.     *)
WithoutOnRevoke(action, covered) ==
    [s \in Sessions |-> IF action = "REVOKE" /\ s \in covered /\ sessions[s].state = "LIVE"
                        THEN [sessions[s] EXCEPT !.state = "REVOKED"] ELSE sessions[s]]

(* All live sessions the link or assignment covers, unless reactivated.    *)
Without(action, covered) ==
    [s \in Sessions |-> IF action # "REACTIVATE" /\ s \in covered /\ sessions[s].state = "LIVE"
                        THEN [sessions[s] EXCEPT !.state = "REVOKED"] ELSE sessions[s]]

Known == {s \in Sessions : sessions[s] # NoSession}

ReadLinkForLifecycle(w, subject, action) ==
    /\ MayTake(action, links[subject].status)
    /\ Begin(w, [pc |-> "linkRead", subject |-> subject, action |-> action])
    /\ UNCHANGED <<members, links, assignments, sessions>>

CommitLinkLifecycle(w) ==
    LET t == tx[w] IN
    /\ t.pc = "linkRead"
    /\ links'    = [links EXCEPT ![t.subject].status = StatusAfter(t.action)]
    /\ sessions' = Without(t.action, {s \in Known : sessions[s].subject = t.subject})
    /\ Commit(w)
    /\ UNCHANGED <<members, assignments>>

ReadAssignment(w, m, action) ==
    /\ MayTake(action, assignments[m])
    /\ Begin(w, [pc |-> "assignmentRead", member |-> m, action |-> action])
    /\ UNCHANGED <<members, links, assignments, sessions>>

(* Sessions of the bridge are the provider's too, and go as well.          *)
CommitAssignmentLifecycle(w) ==
    LET t == tx[w] IN
    /\ t.pc = "assignmentRead"
    /\ assignments' = [assignments EXCEPT ![t.member] = StatusAfter(t.action)]
    /\ sessions'    = Without(t.action, {s \in Known : sessions[s].member = t.member})
    /\ Commit(w)
    /\ UNCHANGED <<members, links>>

(* provisionExternalIdentityAssignment.                                    *)
ReadForProvision(w, m) ==
    /\ assignments[m] # "ACTIVE"
    /\ Begin(w, [pc |-> "provisionRead", member |-> m, seen |-> assignments[m]])
    /\ UNCHANGED <<members, links, assignments, sessions>>

(* A missing membership is created on the way; a row that was not there    *)
(* must still not be there to be created.                                  *)
CommitProvision(w) ==
    LET t == tx[w] IN
    /\ t.pc = "provisionRead"
    /\ t.seen = "NONE" => assignments[t.member] = "NONE"
    /\ members'     = members \cup {t.member}
    /\ assignments' = [assignments EXCEPT ![t.member] = "ACTIVE"]
    /\ Commit(w)
    /\ UNCHANGED <<links, sessions>>

-----------------------------------------------------------------------------
Expire(s) ==
    /\ sessions[s].state = "LIVE"
    /\ sessions' = [sessions EXCEPT ![s].state = "EXPIRED"]
    /\ tx' = [x \in Workers |-> Disturbed(tx[x])]
    /\ UNCHANGED <<members, links, assignments>>

(* A refusal, a unique index, a lost connection or a crash.                *)
Abort(w) ==
    /\ tx[w] # Idle
    /\ Proceed(w, Idle)
    /\ UNCHANGED <<members, links, assignments, sessions>>

Continue(w) ==
    \/ ReadLink(w) \/ \E s \in Sessions : CommitExchange(w, s)
    \/ CheckLink(w) \/ CheckAssignment(w) \/ Answer(w) \/ RevokeSession(w)
    \/ CommitLinkLifecycle(w) \/ CommitAssignmentLifecycle(w) \/ CommitProvision(w)
    \/ Abort(w)

Serve(w) ==
    \/ \E ask \in Exchange : BeginExchange(w, ask)
    \/ \E s \in Sessions : ReadSession(w, s)
    \/ \E subject \in Subjects, action \in Lifecycle : ReadLinkForLifecycle(w, subject, action)
    \/ \E m \in Members, action \in Lifecycle : ReadAssignment(w, m, action)
    \/ \E m \in Members : ReadForProvision(w, m)

Next ==
    \/ \E s \in Sessions : Expire(s)
    \/ \E w \in Workers : Serve(w) \/ Continue(w)

Spec == Init /\ [][Next]_vars

-----------------------------------------------------------------------------
(* Safety.                                                                 *)

(* The sessions of one subject are sessions of the user it is linked to,   *)
(* although two first exchanges may both find no link.                     *)
SubjectNamesOneUser ==
    \A s \in Known : links[sessions[s].subject].user = UserOf[sessions[s].member]

Stands(row) ==
    /\ links[row.subject].status = "ACTIVE"
    /\ row.mode = "EXTERNAL_OIDC" => assignments[row.member] = "ACTIVE"

(* Suspending or revoking a link or an assignment ends its sessions: one   *)
(* that is live without both was created by an exchange that had checked   *)
(* them before they were suspended.                                        *)
SuspensionEndsSessions ==
    \A s \in Known :
        sessions[s].state = "LIVE" /\ ~sessions[s].raced => Stands(sessions[s])

(* A call is let in exactly when its session is live and stands on an      *)
(* active link and assignment, a raced session included; what is claimed   *)
(* is a check nobody commits beside.                                       *)
QuietCheckIsExact ==
    \A w \in Workers :
        tx[w].pc = "checked" /\ tx[w].quiet =>
            LET row == sessions[tx[w].session] IN
            tx[w].admitted <=> row.state = "LIVE" /\ Stands(row)
=============================================================================
