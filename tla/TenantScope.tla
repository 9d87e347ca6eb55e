------------------------------ MODULE TenantScope ------------------------------
(* Which rows the reads of a workspace return.  The database is a fixed set *)
(* of requests, each with what hangs from it, and of the rows that an       *)
(* organization owns by itself.  A row stands for all rows of its table     *)
(* with its organization and its request, and a list for all rows its where *)
(* clause admits: the optional filters and the limits of a page only remove *)
(* some.  The names of the two organizations of a request, which most lists *)
(* show beside it, are left out there.                                      *)
EXTENDS FiniteSets, Integers, Sequences

CONSTANTS
    Buyers, Sellers, \* organizations of the two kinds of tenant
    Operator,        \* the organization of the operators
    Requests,
    BuyerOf,         \* organizationId of a request
    SellerOf,        \* its sellerOrganizationId, None when it has none
    DemoScenarios,   \* the seeded requests in the order of the demo
    MaxCards,        \* how many of them a page shows
    None

Tenants == Buyers \cup Sellers
Organizations == Tenants \cup {Operator}

ASSUME TenantAssumption ==
    /\ Buyers \cap Sellers = {} /\ Operator \notin Tenants
    /\ None \notin Organizations \cup Requests
    /\ BuyerOf \in [Requests -> Buyers]
    /\ SellerOf \in [Requests -> Sellers \cup {None}]

ASSUME DemoAssumption == DemoScenarios \in Seq(Requests) /\ MaxCards \in Nat \ {0}

KindOf(o) ==
    IF o \in Buyers THEN "BUYER" ELSE IF o \in Sellers THEN "SELLER" ELSE "OPERATOR"

-----------------------------------------------------------------------------
(* Rows.                                                                   *)
Row(t, o, q) == [table |-> t, organization |-> o, request |-> q]

(* A payment and a receipt copy the buyer of their request, which names an  *)
(* agent and a policy of the buyer and a service of the seller; the events  *)
(* of a request are filed by whoever acted on it.                           *)
Hanging(q) ==
    {Row(t, BuyerOf[q], q) : t \in {"request", "approval", "payment", "receipt", "agent", "policy"}}
        \cup {Row("service", o, q) : o \in {SellerOf[q]} \ {None}}
        \cup {Row("audit", o, q) : o \in {BuyerOf[q], SellerOf[q], Operator} \ {None}}

OwnTables ==
    {"organization", "membership", "agent", "policy", "service", "wallet", "audit",
     "session", "link", "assignment"}

(* What the operators keep about the tenants as a whole.                   *)
OperatorTables == {"campaign", "integration", "execution"}

Database ==
    (UNION {Hanging(q) : q \in Requests})
        \cup {Row(t, o, None) : t \in OwnTables, o \in Organizations}
        \cup {Row(t, Operator, None) : t \in OperatorTables}

In(t) == {r \in Database : r.table = t}

FiledBy(r, o) == r.organization = o
BoughtBy(r, o) == r.request # None /\ BuyerOf[r.request] = o
SoldBy(r, o) == r.request # None /\ SellerOf[r.request] = o

(* An actor, as a session resolves to it: the organization it acts in and   *)
(* the support grant it acts under, None but for support.                   *)
Actor(o, g) == [organization |-> o, workspace |-> KindOf(o), grant |-> g]
IsSupport(a) == a.grant # None

(* What the organization of an actor filed, bought, or sold.               *)
Filed(a) == {r \in Database : FiledBy(r, a.organization)}
Bought(a) == {r \in Database : BoughtBy(r, a.organization)}
Sold(a) == {r \in Database : SoldBy(r, a.organization)}

(* A where clause with a form for the buyer, a form for the seller, and no  *)
(* restriction for the operator.                                            *)
Scoped(t, a, bought, sold) ==
    CASE a.workspace = "BUYER"  -> In(t) \cap bought
      [] a.workspace = "SELLER" -> In(t) \cap sold
      [] OTHER                  -> In(t)

-----------------------------------------------------------------------------
(* What the buyer's lists read.                                            *)
BuyerAgents(o) == {r \in In("agent") : FiledBy(r, o)}
BuyerPolicies(o) == {r \in In("policy") : FiledBy(r, o)}
BuyerRequests(o) == {r \in In("request") : FiledBy(r, o)}
BuyerApprovals(o) == {r \in In("approval") : BoughtBy(r, o)}
BuyerActivity(o) == {r \in In("audit") : FiledBy(r, o) \/ BoughtBy(r, o)}

(* Organizations that were sent a request of this one.                     *)
BuyerSellers(o) ==
    {r \in In("organization") :
        \E q \in Requests : BuyerOf[q] = o /\ SellerOf[q] = r.organization}

BuyerOverview(o) ==
    BuyerAgents(o) \cup BuyerPolicies(o) \cup BuyerRequests(o) \cup BuyerApprovals(o)
        \cup {r \in In("payment") : FiledBy(r, o)}
BuyerOverviewItems(o) == BuyerAgents(o) \cup BuyerSellers(o) \cup BuyerApprovals(o)

(* What the seller's lists read.                                           *)
SellerServices(o) == {r \in In("service") : FiledBy(r, o)} \cup {r \in In("request") : SoldBy(r, o)}
SellerRequests(o) == {r \in In("service") : FiledBy(r, o)} \cup {r \in In("request") : SoldBy(r, o)}
SellerCustomers(o) ==
    {r \in In("organization") :
        \E q \in Requests : SellerOf[q] = o /\ BuyerOf[q] = r.organization}
SellerTeam(o) == {r \in In("membership") : FiledBy(r, o)}
SellerProfile(o) == {r \in In("organization") : FiledBy(r, o)} \cup SellerServices(o)
SellerAnalytics(o) == SellerRequests(o)
SellerOverview(o) ==
    SellerRequests(o) \cup SellerCustomers(o) \cup {r \in In("payment") : SoldBy(r, o)}
SellerOverviewItems(o) == SellerRequests(o) \cup SellerCustomers(o)

(* Payments and receipts are read by all three workspaces; a payment copies *)
(* the seller of its request, a receipt is asked for its request's.         *)
PaymentIntents(a) == Scoped("payment", a, Filed(a), Sold(a))
ReceiptRecords(a) == Scoped("receipt", a, Filed(a), Sold(a))

(* What the operator's lists read, without any restriction.                *)
OperatorOverview == UNION {In(t) : t \in {"organization", "approval", "request", "audit", "payment"}}
OperatorOverviewItems == In("request") \cup In("approval") \cup In("organization")
OperatorTransactions == In("request")
OperatorOrganizations == In("organization")
OperatorApprovals == In("approval") \cup In("request")
OperatorExceptions == In("request")
OperatorAudit == In("audit")

-----------------------------------------------------------------------------
(* Analytics read requests with their agent, approval, payment and receipt. *)
WithRelations(rows) ==
    {r \in Database :
        /\ r.table \in {"request", "agent", "approval", "payment", "receipt"}
        /\ \E s \in rows : s.request = r.request}

(* Faulty: the clause of the seller is lost among the optional ones.       *)
SellerRequestRowsOfAnyone(o) == WithRelations(In("request"))

BuyerRequestRows(o) == WithRelations({r \in In("request") : FiledBy(r, o)})
SellerRequestRows(o) == WithRelations({r \in In("request") : SoldBy(r, o)})
PlatformRequestRows == WithRelations(In("request"))

BuyerAnalytics(o) == BuyerRequestRows(o) \cup BuyerPolicies(o)
BuyerActivityEvents(o) == {r \in In("audit") : FiledBy(r, o)}
SellerRevenue(o) == SellerRequestRows(o)
PlatformAnalytics ==
    PlatformRequestRows \cup In("payment") \cup In("approval") \cup In("organization") \cup In("agent")
PlatformOrganizations ==
    UNION {In(t) : t \in {"organization", "request", "payment", "receipt", "audit"}}

-----------------------------------------------------------------------------
(* What the governance of the operators lists: tenants with their sessions, *)
(* links, assignments and wallets, and the rows of the operators; sessions  *)
(* are also counted beside links and assignments.  A link, which belongs to *)
(* a person, has a row for each organization the person is a member of.     *)
OfTenants(t) == {r \in In(t) : r.organization \in Tenants}

ReviewCampaigns(o) == {r \in In("campaign") : FiledBy(r, o)}
ProviderSessions == OfTenants("session")
ProviderLinks == OfTenants("link") \cup In("session")
IdentityAssignments == OfTenants("assignment") \cup OfTenants("session")
Integrations == In("integration")
Executions == In("execution") \cup In("integration")
ExecutionSummary == In("execution")
OperatorAuditEvents == In("audit")
SettlementOrganizations == OfTenants("organization") \cup OfTenants("wallet")

Governance(a) ==
    [campaigns |-> ReviewCampaigns(a.organization), sessions |-> ProviderSessions,
     links |-> ProviderLinks, assignments |-> IdentityAssignments,
     integrations |-> Integrations, executions |-> Executions, summary |-> ExecutionSummary,
     events |-> OperatorAuditEvents, settlements |-> SettlementOrganizations]

-----------------------------------------------------------------------------
(* A record's page reads twice: through the gate that the workflows share,  *)
(* which audits a support session, and again with all that hangs from it.   *)
(* Where the gate is missing only the second read is scoped.                *)
HasGate(a, t) ==
    \/ t \in {"payment", "receipt"}
    \/ a.workspace = "BUYER"    /\ t \in {"request", "approval", "audit"}
    \/ a.workspace = "SELLER"   /\ t \in {"request", "service"}
    \/ a.workspace = "OPERATOR" /\ t = "audit"

Gate(a, t) ==
    CASE t = "payment"  -> Scoped("payment", a, Filed(a), Sold(a))
      [] t = "receipt"  -> Scoped("receipt", a, Filed(a), Sold(a))
      [] t = "service"  -> {r \in In("service") : FiledBy(r, a.organization)}
      [] t = "approval" -> {r \in In("approval") : BoughtBy(r, a.organization)}
      [] t = "request"  -> Scoped("request", a, Filed(a), Sold(a))
      [] OTHER          -> IF a.workspace = "BUYER" THEN BuyerActivity(a.organization) ELSE In("audit")

RequestScope(a) == Scoped("request", a, Filed(a), Sold(a))
ApprovalScope(a) == Scoped("approval", a, Bought(a), Sold(a))
PaymentScope(a) == Scoped("payment", a, Filed(a), Sold(a))
ReceiptScope(a) == Scoped("receipt", a, Filed(a), Sold(a))
AuditScope(a) == Scoped("audit", a, Filed(a) \cup Bought(a), Sold(a))
ServiceScope(a) == {r \in In("service") : a.workspace = "SELLER" /\ FiledBy(r, a.organization)}

(* What the page of a request reads, and of a record that hangs from it.   *)
Page(q) ==
    IF q = None THEN {}
    ELSE Hanging(q) \cup {Row("organization", o, None) : o \in {BuyerOf[q], SellerOf[q]} \ {None}}

RequestDetail(a, r) == IF r \in RequestScope(a) THEN Page(r.request) ELSE {}
ApprovalDetail(a, r) == IF r \in ApprovalScope(a) THEN Page(r.request) ELSE {}
PaymentDetail(a, r) == IF r \in PaymentScope(a) THEN Page(r.request) ELSE {}
ReceiptDetail(a, r) == IF r \in ReceiptScope(a) THEN Page(r.request) ELSE {}
AuditDetail(a, r) ==
    IF r \in AuditScope(a) THEN {r} \cup Page(r.request) ELSE {}
ServiceDetail(a, r) ==
    IF r \in ServiceScope(a)
        THEN {r} \cup SellerRequests(a.organization) \cup BuyerActivityEvents(a.organization)
        ELSE {}

Detail(a, r) ==
    CASE r.table = "request"  -> RequestDetail(a, r)
      [] r.table = "approval" -> ApprovalDetail(a, r)
      [] r.table = "payment"  -> PaymentDetail(a, r)
      [] r.table = "receipt"  -> ReceiptDetail(a, r)
      [] r.table = "audit"    -> AuditDetail(a, r)
      [] OTHER                -> ServiceDetail(a, r)

DetailTables == {"request", "approval", "payment", "receipt", "audit", "service"}

-----------------------------------------------------------------------------
(* The reads of a workspace by the name of their page or route.            *)
Overview(a) ==
    CASE a.workspace = "BUYER"  -> BuyerOverview(a.organization)
      [] a.workspace = "SELLER" -> SellerOverview(a.organization)
      [] OTHER                  -> OperatorOverview

BuyerLists(a) ==
    LET o == a.organization IN
    [overview |-> BuyerOverviewItems(o), agents |-> BuyerAgents(o), policies |-> BuyerPolicies(o),
     requests |-> BuyerRequests(o), approvals |-> BuyerApprovals(o), activity |-> BuyerActivity(o),
     payments |-> PaymentIntents(a), receipts |-> ReceiptRecords(a)]

SellerLists(a) ==
    LET o == a.organization IN
    [overview |-> SellerOverviewItems(o), profile |-> SellerProfile(o), team |-> SellerTeam(o),
     services |-> SellerServices(o), requests |-> SellerRequests(o), customers |-> SellerCustomers(o),
     analytics |-> SellerAnalytics(o), payments |-> PaymentIntents(a), receipts |-> ReceiptRecords(a)]

OperatorLists(a) ==
    [overview |-> OperatorOverviewItems, transactions |-> OperatorTransactions,
     organizations |-> OperatorOrganizations, approvals |-> OperatorApprovals,
     exceptions |-> OperatorExceptions, audit |-> OperatorAudit,
     payments |-> PaymentIntents(a), receipts |-> ReceiptRecords(a)]

Lists(a) ==
    CASE a.workspace = "BUYER"  -> BuyerLists(a)
      [] a.workspace = "SELLER" -> SellerLists(a)
      [] OTHER                  -> OperatorLists(a)

Analytics(a) ==
    CASE a.workspace = "BUYER"  -> [overview |-> BuyerAnalytics(a.organization),
                                    requests |-> BuyerRequestRows(a.organization),
                                    activity |-> BuyerActivityEvents(a.organization)]
      [] a.workspace = "SELLER" -> [overview |-> SellerRevenue(a.organization),
                                    requests |-> SellerRequestRows(a.organization)]
      [] OTHER                  -> [overview |-> PlatformAnalytics,
                                    transactions |-> PlatformRequestRows,
                                    organizations |-> PlatformOrganizations]

Exports(a) ==
    CASE a.workspace = "BUYER"  -> [requests |-> BuyerRequestRows(a.organization)]
      [] a.workspace = "SELLER" -> [requests |-> SellerRequestRows(a.organization)]
      [] OTHER                  -> [transactions |-> PlatformRequestRows]

-----------------------------------------------------------------------------
(* Links.  A page names the surface of the record it links to; where the    *)
(* workspace has no page of that surface the item has no link.  The items   *)
(* of a list lead to one surface, and so do those of an overview's activity.*)
DetailSurfaces(workspace) ==
    CASE workspace = "BUYER"  -> {"requests", "approvals", "receipts", "activity"}
      [] workspace = "SELLER" -> {"requests", "services", "payments"}
      [] OTHER                -> {"transactions", "exceptions", "receipts", "audit"}

TableOf ==
    [requests |-> "request", transactions |-> "request", approvals |-> "approval", services |-> "service",
     payments |-> "payment", receipts |-> "receipt", activity |-> "audit", audit |-> "audit"]

Linked(a, surface, rows) ==
    IF surface \in DetailSurfaces(a.workspace) THEN {r \in rows : r.table = TableOf[surface]} ELSE {}

ItemSurface(workspace) ==
    CASE workspace = "BUYER"  -> [overview |-> "approvals", requests |-> "requests", approvals |-> "approvals",
                                  receipts |-> "receipts", activity |-> "activity"]
      [] workspace = "SELLER" -> [overview |-> "requests", services |-> "services", requests |-> "requests",
                                  payments |-> "payments"]
      [] OTHER                -> [overview |-> "transactions", transactions |-> "transactions",
                                  exceptions |-> "transactions", receipts |-> "receipts", audit |-> "audit"]

ItemLinks(a, key) ==
    IF key \in DOMAIN ItemSurface(a.workspace)
        THEN Linked(a, ItemSurface(a.workspace)[key], Lists(a)[key]) ELSE {}
ActivityLinks(a) ==
    Linked(a, IF a.workspace = "OPERATOR" THEN "audit" ELSE "requests", Overview(a))

RequestSurface(a) == IF a.workspace = "OPERATOR" THEN "transactions" ELSE "requests"

(* Faulty: the service is matched by its key alone.                        *)
MatchedServiceOfAnyone(q) == In("service")

(* The service a request names, of its seller's.                           *)
MatchedService(q) == {r \in In("service") : r.request = q /\ r.organization = SellerOf[q]}

(* The related records of the page of a request, which the pages of its     *)
(* approval and payment show too, and of the other pages.                   *)
RequestLinks(a, q) ==
    LET from == CASE a.workspace = "BUYER"  -> {"requests", "approvals", "receipts"}
                  [] a.workspace = "SELLER" -> {"requests", "payments"}
                  [] OTHER                  -> {"transactions", "receipts"} IN
    (UNION {Linked(a, s, Hanging(q)) : s \in from})
        \cup (IF a.workspace = "SELLER" THEN Linked(a, "services", MatchedService(q)) ELSE {})

ServiceLinks(a) == Linked(a, "requests", SellerRequests(a.organization))

ReceiptLinks(a, q) ==
    IF a.workspace = "SELLER" THEN {}
    ELSE Linked(a, RequestSurface(a), Hanging(q)) \cup Linked(a, "audit", Hanging(q))

AuditLinks(a, q) ==
    IF q = None \/ a.workspace = "SELLER" THEN {} ELSE Linked(a, RequestSurface(a), Hanging(q))

DetailLinks(a, r) ==
    CASE r.table \in {"request", "approval", "payment"} -> RequestLinks(a, r.request)
      [] r.table = "service" -> ServiceLinks(a)
      [] r.table = "receipt" -> ReceiptLinks(a, r.request)
      [] OTHER               -> AuditLinks(a, r.request)

(* The page of a record is found through its gate, if any, and once more.  *)
Opens(a, r) == (HasGate(a, r.table) => r \in Gate(a, r.table)) /\ Detail(a, r) # {}

(* The cards of the demo.  A page shows a stretch of the scenarios, from    *)
(* the one before its own request; where that is none of them, the first.   *)
Stretch(from) == {DemoScenarios[i] : i \in {i \in DOMAIN DemoScenarios : i \in from .. from + MaxCards - 1}}
FirstCards == Stretch(1)
FocusedCards(q) ==
    LET near == UNION {Stretch(IF i = 1 THEN 1 ELSE i - 1) : i \in {i \in DOMAIN DemoScenarios : DemoScenarios[i] = q}} IN
    IF Cardinality(near) >= 2 THEN near ELSE FirstCards

(* Every record's page has them, a service's around the latest request that *)
(* its seller was sent for it.                                              *)
DetailCards(a, r) ==
    IF r.table = "service"
        THEN FirstCards \cup UNION {FocusedCards(s.request) : s \in ServiceLinks(a)}
        ELSE FocusedCards(r.request)

(* A card leads to the buyer's page of its request, whoever it is shown to. *)
CardOpens(a, q) == a.workspace = "BUYER" /\ Opens(a, Row("request", BuyerOf[q], q))

-----------------------------------------------------------------------------
(* What an organization may see: its own rows, what hangs from a request it *)
(* bought or sold, and the organization at the other end of one.            *)
Concerns(r, o) ==
    \/ FiledBy(r, o) \/ BoughtBy(r, o) \/ SoldBy(r, o)
    \/ /\ r.table = "organization"
       /\ \E q \in Requests : {BuyerOf[q], SellerOf[q]} = {o, r.organization}
===============================================================================
