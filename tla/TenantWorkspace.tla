---------------------------- MODULE TenantWorkspace ----------------------------
(* The calls of a workspace: a session resolves to an actor, the workspace  *)
(* and the mode of the call are checked, and then rows are read and, for a  *)
(* support session, the read is audited before it is answered, or a wallet  *)
(* or a service is written.  Support grants change meanwhile.               *)
EXTENDS TenantScope

CONSTANTS
    Tokens,      \* [organization, role, persisted, grant], of a verified signature
    Grants,
    TargetOf,    \* the tenant of a support grant
    Addresses,   \* of wallets, all of one chain
    ServiceKeys,
    ServiceIds,
    Workers,
    MaxCalls     \* bound on the calls of a behaviour

ASSUME WorkspaceAssumption ==
    /\ TargetOf \in [Grants -> Tenants] /\ None \notin Grants
    /\ Tokens \subseteq [organization : Organizations, role : STRING,
                         persisted : BOOLEAN, grant : Grants \cup {None}]
    /\ \A t \in Tokens : t.grant # None => t.organization = Operator /\ ~t.persisted
    /\ MaxCalls \in Nat

Workspaces == {"BUYER", "SELLER", "OPERATOR"}
WalletStatuses == {"PENDING", "VERIFIED", "REVOKED"}
Mutations == {"register", "registerDefault", "verify", "createService", "updateService"}

(* A call names its workspace, its kind, a page, an address or a key, and   *)
(* the record, organization or service it is about, None without one.       *)
Op(workspace, kind, key, on) ==
    [workspace |-> workspace, kind |-> kind, key |-> key, on |-> on]

PageReads ==
    UNION {{Op(KindOf(o), kind, key, None) :
               kind \in {"surface", "list"}, key \in DOMAIN Lists(Actor(o, None))} : o \in Organizations}
AnalyticsReads ==
    UNION {{Op(KindOf(o), kind, key, None) :
               kind \in {"analytics", "export"}, key \in DOMAIN Analytics(Actor(o, None))} : o \in Organizations}
RecordReads ==
    {Op(KindOf(o), "detail", r.table, r) : o \in Organizations,
        r \in {s \in Database : s.table \in DetailTables}}
WalletReads == {Op(KindOf(o), "wallets", None, None) : o \in Tenants}
GovernanceReads ==
    {Op(KindOf(o), "governance", key, None) : o \in Organizations, key \in DOMAIN Governance(Actor(Operator, None))}
Reads == PageReads \cup AnalyticsReads \cup RecordReads \cup WalletReads \cup GovernanceReads

Writes ==
    {Op(KindOf(o), kind, x, None) : o \in Tenants, kind \in {"register", "registerDefault"}, x \in Addresses}
        \cup {Op("OPERATOR", "verify", x, o) : x \in Addresses, o \in Tenants}
        \cup {Op("SELLER", "createService", k, None) : k \in ServiceKeys}
        \cup {Op("SELLER", "updateService", k, v) : k \in ServiceKeys, v \in ServiceIds}

Steps == {"idle", "resolve", "markExpired", "markReview", "gate", "gateAudit", "load", "audit",
          "answered", "clear", "commit"}

(* open: the grant was usable when the call began, or became so since.      *)
(* seen: the wallets a registration clears.  disturbed: another default was *)
(* registered between the two statements.                                   *)
CallRow ==
    [step : Steps, number : 0..MaxCalls, token : Tokens \cup {None}, op : Reads \cup Writes \cup {None},
     open : BOOLEAN, answer : SUBSET Database, seen : SUBSET Addresses, disturbed : BOOLEAN]
Idle ==
    [step |-> "idle", number |-> 0, token |-> None, op |-> None,
     open |-> FALSE, answer |-> {}, seen |-> {}, disturbed |-> FALSE]

GrantRow ==
    [status : {"ACTIVE", "RECERTIFICATION_REQUIRED", "EXPIRED", "REVOKED"},
     due : {"CURRENT", "REVIEW", "EXPIRY"}]
NoWallet == [isDefault |-> FALSE, status |-> "NONE"]
Wallet == [isDefault : BOOLEAN, status : WalletStatuses]
NoService == [organization |-> None, key |-> None]
Service == [organization : Tenants, key : ServiceKeys]

VARIABLES
    grants,   \* supportAccessGrant, with what of its dates has passed
    ended,    \* tokens of persisted sessions that were ended
    call,     \* what each worker serves
    calls,    \* how many have begun
    audits,   \* support reads on file: [call, organization, grant]
    wallets,  \* organizationWallet by organization and address
    services, \* service
    quiet     \* the newest default of a tenant was registered undisturbed

vars == <<grants, ended, call, calls, audits, wallets, services, quiet>>
written == <<wallets, services, quiet>>

TypeOK ==
    /\ grants \in [Grants -> GrantRow]
    /\ ended \in SUBSET Tokens
    /\ call \in [Workers -> CallRow]
    /\ calls \in 0..MaxCalls
    /\ audits \in SUBSET [call : 1..MaxCalls, organization : Organizations, grant : Grants \cup {None}]
    /\ wallets \in [Tenants -> [Addresses -> Wallet \cup {NoWallet}]]
    /\ services \in [ServiceIds -> Service \cup {NoService}]
    /\ quiet \in [Tenants -> BOOLEAN]

Init ==
    /\ grants = [g \in Grants |-> [status |-> "ACTIVE", due |-> "CURRENT"]]
    /\ ended = {} /\ calls = 0 /\ audits = {}
    /\ call = [w \in Workers |-> Idle]
    /\ wallets = [o \in Tenants |-> [x \in Addresses |-> NoWallet]]
    /\ services = [v \in ServiceIds |-> NoService]
    /\ quiet = [o \in Tenants |-> TRUE]

-----------------------------------------------------------------------------
(* The session of a call.  A support session acts in the tenant of its      *)
(* grant; its own organization stays its principal.                         *)
ActorOf(t) ==
    Actor(IF t.grant = None THEN t.organization ELSE TargetOf[t.grant], t.grant)

Usable(g) == grants[g] = [status |-> "ACTIVE", due |-> "CURRENT"]

(* The definitions of the workspaces: who works in one.                    *)
CanAccessWorkspace(role, workspace, organization) ==
    /\ workspace = KindOf(organization)
    /\ role \in {"OWNER", "ADMIN", "OPERATOR"} \cup
                (IF workspace = "OPERATOR" THEN {} ELSE {"REVIEWER", "FINANCE"})

(* Who lists what governs the tenants; the rest is for owners and admins.   *)
Governs(a, role, key) ==
    /\ a.workspace = "OPERATOR"
    /\ key \in {"executions", "summary"} => ~IsSupport(a) \/ role = "OPERATOR"
    /\ key \in {"campaigns", "sessions", "links", "assignments", "integrations"} =>
          ~IsSupport(a) /\ role \in {"OWNER", "ADMIN"}

(* Reads ask for the right page; a support session neither exports nor      *)
(* writes.                                                                  *)
MayDo(a, role, op) ==
    CASE op.kind \in {"surface", "list"} -> op.key \in DOMAIN Lists(a)
      [] op.kind = "analytics"  -> op.key \in DOMAIN Analytics(a)
      [] op.kind = "export"     -> op.key \in DOMAIN Exports(a) /\ ~IsSupport(a)
      [] op.kind = "detail"     -> TRUE
      [] op.kind = "wallets"    -> a.workspace # "OPERATOR"
      [] op.kind = "governance" -> Governs(a, role, op.key)
      [] OTHER                  -> ~IsSupport(a)

FirstStep(a, op) ==
    CASE op.kind = "registerDefault"                    -> "clear"
      [] op.kind \in Mutations \ {"registerDefault"}    -> "commit"
      [] op.kind = "detail" /\ HasGate(a, op.key)       -> "gate"
      [] OTHER                                          -> "load"

Become(w, c) == call' = [call EXCEPT ![w] = c]
Go(w, step) == Become(w, [call[w] EXCEPT !.step = step])

(* A request arrives with a token that verifies; one that has expired is    *)
(* one that no call begins with any more.                                   *)
Begin(w, t, op) ==
    /\ call[w] = Idle /\ calls < MaxCalls
    /\ calls' = calls + 1
    /\ Become(w, [Idle EXCEPT !.step = "resolve", !.number = calls + 1, !.token = t, !.op = op,
                              !.open = t.grant # None /\ Usable(t.grant)])
    /\ UNCHANGED <<grants, ended, audits, written>>

Admit(w, a) ==
    LET c == call[w] IN
    IF CanAccessWorkspace(c.token.role, c.op.workspace, a.organization) /\ MayDo(a, c.token.role, c.op)
        THEN Go(w, FirstStep(a, c.op))
        ELSE Become(w, Idle)

(* An identity-provider session must still be on file.  A support session   *)
(* needs its grant active; of a grant whose time has run out that is        *)
(* written down first, and the call is refused.                             *)
Resolve(w) ==
    LET t == call[w].token IN
    /\ call[w].step = "resolve"
    /\ CASE t.grant = None -> IF t.persisted /\ t \in ended THEN Become(w, Idle) ELSE Admit(w, ActorOf(t))
         [] t.grant # None ->
              LET g == grants[t.grant] IN
              CASE g.due = "EXPIRY" /\ g.status \in {"ACTIVE", "RECERTIFICATION_REQUIRED"} -> Go(w, "markExpired")
                [] g.due = "REVIEW" /\ g.status = "ACTIVE" -> Go(w, "markReview")
                [] g.due = "CURRENT" /\ g.status = "ACTIVE" -> Admit(w, ActorOf(t))
                [] OTHER -> Become(w, Idle)
    /\ UNCHANGED <<grants, ended, calls, audits, written>>

(* Faulty: the name of the date is written for the status.                 *)
MarkWithDate(w) ==
    /\ call[w].step \in {"markExpired", "markReview"}
    /\ grants' = [grants EXCEPT ![call[w].token.grant].status = grants[call[w].token.grant].due]
    /\ Become(w, Idle)
    /\ UNCHANGED <<ended, calls, audits, written>>

Mark(w) ==
    /\ call[w].step \in {"markExpired", "markReview"}
    /\ grants' = [grants EXCEPT ![call[w].token.grant].status =
                     IF call[w].step = "markExpired" THEN "EXPIRED" ELSE "RECERTIFICATION_REQUIRED"]
    /\ Become(w, Idle)
    /\ UNCHANGED <<ended, calls, audits, written>>

-----------------------------------------------------------------------------
(* Reads.                                                                  *)
AuditRow(w) ==
    LET a == ActorOf(call[w].token) IN
    [call |-> call[w].number, organization |-> a.organization, grant |-> a.grant]
FileAudit(w) == audits' = audits \cup {AuditRow(w)}

(* The gate of a record's page; what it does not find ends the call.       *)
PassGate(w) ==
    LET c == call[w]
        a == ActorOf(c.token) IN
    /\ c.step = "gate"
    /\ IF c.op.on \notin Gate(a, c.op.key) THEN Become(w, Idle)
       ELSE Go(w, IF IsSupport(a) THEN "gateAudit" ELSE "load")
    /\ UNCHANGED <<grants, ended, calls, audits, written>>

AuditGate(w) ==
    /\ call[w].step = "gateAudit"
    /\ FileAudit(w)
    /\ Go(w, "load")
    /\ UNCHANGED <<grants, ended, calls, written>>

RowsOf(a, op) ==
    CASE op.kind = "surface"   -> Overview(a) \cup Lists(a)[op.key]
      [] op.kind = "list"      -> Lists(a)[op.key]
      [] op.kind = "analytics" -> Analytics(a)[op.key]
      [] op.kind = "export"    -> Exports(a)[op.key]
      [] op.kind = "detail"    -> Detail(a, op.on)
      [] op.kind = "governance" -> Governance(a)[op.key]
      [] OTHER                 -> {r \in In("wallet") : FiledBy(r, a.organization)}

(* Faulty: a record's page trusts the audit of its gate, where it has one. *)
AuditedOnce(a, op) ==
    \/ op.kind \in {"analytics", "export"}
    \/ IsSupport(a) /\ op.kind \in {"surface", "list"}

(* Analytics, exports and the governance of access are audited whoever asks, *)
(* other reads for support, the wallets for nobody.                         *)
Audited(a, op) ==
    \/ op.kind \in {"analytics", "export"}
    \/ op.kind = "governance" /\ op.key \in {"campaigns", "sessions", "links", "assignments"}
    \/ IsSupport(a) /\ op.kind \in {"surface", "list", "detail"}

Load(w) ==
    LET c == call[w]
        a == ActorOf(c.token)
        rows == RowsOf(a, c.op) IN
    /\ c.step = "load"
    /\ IF c.op.kind = "detail" /\ rows = {} THEN Become(w, Idle)
       ELSE Become(w, [c EXCEPT !.answer = rows, !.step = IF Audited(a, c.op) THEN "audit" ELSE "answered"])
    /\ UNCHANGED <<grants, ended, calls, audits, written>>

Audit(w) ==
    /\ call[w].step = "audit"
    /\ FileAudit(w)
    /\ Go(w, "answered")
    /\ UNCHANGED <<grants, ended, calls, written>>

(* The answer is sent, or the call fails where it awaits and has none.     *)
Finish(w) ==
    /\ call[w] # Idle
    /\ Become(w, Idle)
    /\ UNCHANGED <<grants, ended, calls, audits, written>>

-----------------------------------------------------------------------------
(* Wallets.  A registration as the default clears the defaults it sees and  *)
(* upserts its own wallet in one transaction; wallets inserted between the  *)
(* two statements keep their flag.                                          *)
Registered(o) == {x \in Addresses : wallets[o][x] # NoWallet}
Defaults(o) == {x \in Addresses : wallets[o][x].isDefault}

ClearDefaults(w) ==
    LET o == ActorOf(call[w].token).organization IN
    /\ call[w].step = "clear"
    /\ Become(w, [call[w] EXCEPT !.step = "commit", !.seen = Registered(o)])
    /\ UNCHANGED <<grants, ended, calls, audits, written>>

(* Faulty: nothing is cleared.                                             *)
RegisteredByAdding(o, x, default, seen) ==
    [wallets[o] EXCEPT ![x] = [isDefault |-> default, status |-> "PENDING"]]

RegisteredBy(o, x, default, seen) ==
    [y \in Addresses |->
        IF y = x THEN [isDefault |-> default, status |-> "PENDING"]
        ELSE IF y \in seen THEN [wallets[o][y] EXCEPT !.isDefault = FALSE]
        ELSE wallets[o][y]]

Disturb(v, w, o) ==
    /\ v # w /\ call[v].step = "commit" /\ call[v].op.kind = "registerDefault"
    /\ ActorOf(call[v].token).organization = o

CommitWallet(w) ==
    LET c == call[w]
        o == ActorOf(c.token).organization
        default == c.op.kind = "registerDefault" IN
    /\ c.step = "commit" /\ c.op.kind \in {"register", "registerDefault"}
    /\ wallets' = [wallets EXCEPT ![o] = RegisteredBy(o, c.op.key, default, c.seen)]
    /\ quiet' = [quiet EXCEPT ![o] = IF default THEN ~c.disturbed ELSE @]
    /\ call' = [v \in Workers |->
                   IF v = w THEN Idle
                   ELSE [call[v] EXCEPT !.disturbed = @ \/ (default /\ Disturb(v, w, o))]]
    /\ UNCHANGED <<grants, ended, calls, audits, services>>

(* An operator's verdict is written by the wallet's id, whatever it says by *)
(* then.                                                                    *)
CommitVerdict(w) ==
    LET c == call[w] IN
    /\ c.step = "commit" /\ c.op.kind = "verify"
    /\ \/ wallets[c.op.on][c.op.key] = NoWallet /\ UNCHANGED wallets
       \/ /\ wallets[c.op.on][c.op.key] # NoWallet
          /\ \E s \in WalletStatuses : wallets' = [wallets EXCEPT ![c.op.on][c.op.key].status = s]
    /\ Become(w, Idle)
    /\ UNCHANGED <<grants, ended, calls, audits, services, quiet>>

(* Services.  The key of a service is unique in its organization; an update *)
(* is of one found under the actor's own.                                   *)
KeyIsFree(o, k, v) ==
    \A u \in ServiceIds \ {v} : services[u] # [organization |-> o, key |-> k]

WriteService(w, v) ==
    LET c == call[w]
        o == ActorOf(c.token).organization IN
    /\ IF KeyIsFree(o, c.op.key, v)
           THEN services' = [services EXCEPT ![v] = [organization |-> o, key |-> c.op.key]]
           ELSE UNCHANGED services
    /\ Become(w, Idle)
    /\ UNCHANGED <<grants, ended, calls, audits, wallets, quiet>>

CreateService(w) ==
    /\ call[w].step = "commit" /\ call[w].op.kind = "createService"
    /\ \E v \in ServiceIds : services[v] = NoService /\ WriteService(w, v)

(* Faulty: the service is looked up by its id alone.                       *)
OwnServiceOfAnyone(w, v) == services[v] # NoService
OwnService(w, v) == services[v].organization = ActorOf(call[w].token).organization

UpdateService(w) ==
    /\ call[w].step = "commit" /\ call[w].op.kind = "updateService"
    /\ OwnService(w, call[w].op.on)
    /\ WriteService(w, call[w].op.on)

-----------------------------------------------------------------------------
(* What the owners of the other components do meanwhile (SupportAccess and  *)
(* AuthSessions model it).                                                  *)
ChangeGrant(g, row) ==
    /\ grants' = [grants EXCEPT ![g] = row]
    /\ UNCHANGED <<ended, calls, audits, written>>

FallDue(g) ==
    /\ \/ grants[g].due = "CURRENT" /\ ChangeGrant(g, [grants[g] EXCEPT !.due = "REVIEW"])
       \/ grants[g].due # "EXPIRY" /\ ChangeGrant(g, [grants[g] EXCEPT !.due = "EXPIRY"])
    /\ UNCHANGED call

Revoke(g) ==
    /\ grants[g].status \in {"ACTIVE", "RECERTIFICATION_REQUIRED"}
    /\ ChangeGrant(g, [grants[g] EXCEPT !.status = "REVOKED"])
    /\ UNCHANGED call

Recertify(g) ==
    /\ grants[g].status \in {"ACTIVE", "RECERTIFICATION_REQUIRED"} /\ grants[g].due # "EXPIRY"
    /\ ChangeGrant(g, [status |-> "ACTIVE", due |-> "CURRENT"])
    /\ call' = [w \in Workers |->
                   [call[w] EXCEPT !.open = @ \/ (call[w] # Idle /\ call[w].token.grant = g)]]

EndSession(t) ==
    /\ t.persisted
    /\ ended' = ended \cup {t}
    /\ UNCHANGED <<grants, call, calls, audits, written>>

Proceed(w) ==
    \/ Resolve(w) \/ Mark(w)
    \/ PassGate(w) \/ AuditGate(w) \/ Load(w) \/ Audit(w) \/ Finish(w)
    \/ ClearDefaults(w) \/ CommitWallet(w) \/ CommitVerdict(w)
    \/ CreateService(w) \/ UpdateService(w)

Elsewhere ==
    \/ \E g \in Grants : FallDue(g) \/ Revoke(g) \/ Recertify(g)
    \/ \E t \in Tokens : EndSession(t)

Next ==
    \/ \E w \in Workers, t \in Tokens, op \in Reads \cup Writes : Begin(w, t, op)
    \/ \E w \in Workers : Proceed(w)
    \/ Elsewhere

Spec == Init /\ [][Next]_vars

-----------------------------------------------------------------------------
(* Tenancy.  Every row of an answer concerns the organization that the call *)
(* acts for, the tenant of its grant for a support session; only an         *)
(* operator reads across organizations, and never on a support session.     *)
AnswersStayInTenant ==
    \A w \in Workers : \A r \in call[w].answer :
        LET t == call[w].token IN
        \/ t.grant = None /\ t.organization = Operator
        \/ Concerns(r, IF t.grant = None THEN t.organization ELSE TargetOf[t.grant])

(* Every link of an answered page to one of its records leads to a record   *)
(* that the same actor may open, though the page it is on, the gate of the  *)
(* record and the record's own read each have a where clause of their own.  *)
(* The cards of the demo, which every record's page shows, are the          *)
(* exception: they open for the buyer of their request, and nobody else.    *)
LinksOf(a, op) ==
    CASE op.kind = "surface" -> ActivityLinks(a) \cup ItemLinks(a, op.key)
      [] op.kind = "list"    -> ItemLinks(a, op.key)
      [] op.kind = "detail"  -> DetailLinks(a, op.on)
      [] OTHER               -> {}
CardsOf(a, op) ==
    CASE op.kind = "surface" /\ op.key = "overview" /\ a.workspace = "BUYER" -> FirstCards
      [] op.kind = "detail" -> DetailCards(a, op.on)
      [] OTHER              -> {}
LinksOpen ==
    \A w \in Workers :
        LET a == ActorOf(call[w].token) IN
        call[w].step = "answered" =>
            /\ \A r \in LinksOf(a, call[w].op) : Opens(a, r)
            /\ \A q \in CardsOf(a, call[w].op) : CardOpens(a, q) <=> BuyerOf[q] = a.organization


(* A support session is answered only under a grant that was usable at some *)
(* moment since the call began, and but for the wallets its read is on file *)
(* by then, with the tenant and the grant; it never exports.                *)
SupportReadsAreAccountable ==
    \A w \in Workers :
        LET c == call[w] IN
        c.step = "answered" /\ c.token.grant # None =>
            /\ c.open /\ c.op.kind # "export"
            /\ c.op.kind # "wallets" => AuditRow(w) \in audits

(* Wallets and services of a tenant are written by a session of its own,    *)
(* never by support; the verdict on a wallet by an operator, and nothing    *)
(* else of it.                                                              *)
ServicesOf(o) == {v \in ServiceIds : services[v].organization = o}
ByItself(o) ==
    \E w \in Workers : /\ call[w].step = "commit" /\ call[w].token.grant = None
                       /\ call[w].token.organization = o
ByVerdict(o) ==
    /\ \E w \in Workers : /\ call[w].step = "commit" /\ call[w].token.grant = None
                          /\ call[w].token.organization = Operator
    /\ \A x \in Addresses : /\ wallets[o][x].isDefault = wallets'[o][x].isDefault
                            /\ (wallets[o][x] = NoWallet) = (wallets'[o][x] = NoWallet)
WritesStayHome ==
    [][\A o \in Tenants :
          /\ wallets'[o] # wallets[o] => ByItself(o) \/ ByVerdict(o)
          /\ (\E v \in ServicesOf(o) \cup ServicesOf(o)' : services'[v] # services[v]) => ByItself(o)]_vars

(* A tenant has one default wallet, but for registrations that overlapped   *)
(* and until the next one.                                                  *)
QuietDefaultIsUnique ==
    \A o \in Tenants : quiet[o] => Cardinality(Defaults(o)) <= 1
===============================================================================
