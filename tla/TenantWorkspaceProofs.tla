-------------------------- MODULE TenantWorkspaceProofs --------------------------
(***************************************************************************)
(* Proofs about TenantWorkspace, for any tenants, requests, tokens, grants *)
(* and workers: what the where clauses return, once and for all, and then  *)
(* what a call has passed by the time it reads or writes.                  *)
(***************************************************************************)
EXTENDS TenantWorkspace, FiniteSetTheorems, TLAPS

-----------------------------------------------------------------------------
(* Rows and actors.                                                        *)

Actors == {Actor(o, g) : o \in Organizations, g \in Grants \cup {None}}

(* The workspace of an actor is the kind of its organization.              *)
LEMMA ActorShape ==
    ASSUME NEW a \in Actors
    PROVE  /\ a.organization \in Organizations /\ a.grant \in Grants \cup {None}
           /\ a.workspace = KindOf(a.organization)
           /\ a.workspace = "BUYER" <=> a.organization \in Buyers
           /\ a.workspace = "SELLER" <=> a.organization \in Sellers
           /\ a.workspace = "OPERATOR" <=> a.organization = Operator
           /\ a.workspace \in Workspaces
BY TenantAssumption DEF Actors, Actor, KindOf, Organizations, Tenants, Workspaces

(* A token resolves to an actor; support acts in a tenant, so whoever acts *)
(* in the workspace of the operators is one of them.                       *)
LEMMA TokenActs ==
    ASSUME NEW t \in Tokens
    PROVE  /\ ActorOf(t) \in Actors
           /\ ActorOf(t).grant = t.grant
           /\ t.organization \in Organizations /\ t.grant \in Grants \cup {None}
           /\ ActorOf(t).organization = IF t.grant = None THEN t.organization ELSE TargetOf[t.grant]
           /\ ActorOf(t).workspace = "OPERATOR" => t.grant = None /\ t.organization = Operator
<1>1. t.organization \in Organizations /\ t.grant \in Grants \cup {None}
  BY WorkspaceAssumption
<1>2. t.grant # None => TargetOf[t.grant] \in Tenants
  BY <1>1, WorkspaceAssumption
<1>3. ActorOf(t) \in Actors
  BY <1>1, <1>2 DEF ActorOf, Actors, Organizations
<1>4. /\ ActorOf(t).grant = t.grant
      /\ ActorOf(t).organization = IF t.grant = None THEN t.organization ELSE TargetOf[t.grant]
  BY DEF ActorOf, Actor
<1> QED
  BY <1>1, <1>2, <1>3, <1>4, ActorShape, TenantAssumption

(* A row that hangs from a request is filed by an organization of its own. *)
LEMMA HangingShape ==
    ASSUME NEW q \in Requests, NEW r \in Hanging(q)
    PROVE  /\ r.request = q
           /\ r.table \in {"request", "approval", "payment", "receipt", "agent", "policy",
                           "service", "audit"}
           /\ r.table \in {"request", "approval", "payment", "receipt", "agent", "policy"} =>
                 r.organization = BuyerOf[q]
           /\ r.table = "service" => r.organization = SellerOf[q]
BY DEF Hanging, Row

(* A row on file hangs from a request, or an organization owns it by       *)
(* itself, or the operators do.                                            *)
LEMMA RowOnFile ==
    ASSUME NEW r
    PROVE  r \in Database <=>
              \/ \E q \in Requests : r \in Hanging(q)
              \/ \E t \in OwnTables, o \in Organizations : r = Row(t, o, None)
              \/ \E t \in OperatorTables : r = Row(t, Operator, None)
<1> DEFINE hanging == UNION {Hanging(q) : q \in Requests}
           own == {Row(t, o, None) : t \in OwnTables, o \in Organizations}
           shared == {Row(t, Operator, None) : t \in OperatorTables}
<1>1. r \in hanging <=> \E q \in Requests : r \in Hanging(q)
  OBVIOUS
<1>2. r \in own <=> \E t \in OwnTables, o \in Organizations : r = Row(t, o, None)
  OBVIOUS
<1>3. r \in shared <=> \E t \in OperatorTables : r = Row(t, Operator, None)
  OBVIOUS
<1>4. r \in Database <=> r \in hanging \/ r \in own \/ r \in shared
  BY DEF Database
<1> HIDE DEF hanging, own, shared
<1> QED
  BY <1>1, <1>2, <1>3, <1>4

(* What the tables that hang from a request hold, and the others.          *)
LEMMA RowShape ==
    ASSUME NEW r \in Database
    PROVE  /\ r.request \in Requests \cup {None}
           /\ r.request \in Requests => r \in Hanging(r.request)
           /\ r.table \in {"request", "approval", "payment", "receipt"} =>
                 r.request \in Requests /\ r.organization = BuyerOf[r.request]
           /\ r.table \in {"organization", "membership", "wallet", "session", "link",
                           "assignment", "campaign", "integration", "execution"} => r.request = None
<1>1. CASE \E q \in Requests : r \in Hanging(q)
  <2>1. PICK q \in Requests : r \in Hanging(q)
    BY <1>1
  <2> QED
    BY <2>1, HangingShape
<1>2. CASE \E t \in OwnTables, o \in Organizations : r = Row(t, o, None)
  BY <1>2, TenantAssumption DEF Row, OwnTables
<1>3. CASE \E t \in OperatorTables : r = Row(t, Operator, None)
  BY <1>3, TenantAssumption DEF Row, OperatorTables
<1> QED
  BY <1>1, <1>2, <1>3, RowOnFile

(* A row of a request is the concern of the two ends of the request.       *)
LEMMA EndsConcern ==
    ASSUME NEW r, NEW o, r.request \in Requests,
           BuyerOf[r.request] = o \/ SellerOf[r.request] = o
    PROVE  Concerns(r, o)
BY TenantAssumption DEF Concerns, BoughtBy, SoldBy

(* Rows on file that an actor may see.                                     *)
Visible(a) == {r \in Database : a.workspace = "OPERATOR" \/ Concerns(r, a.organization)}

(* The page of a request shows the rows of the request and its two ends.   *)
LEMMA PageVisible ==
    ASSUME NEW a \in Actors, NEW q \in Requests,
           a.workspace = "OPERATOR" \/ BuyerOf[q] = a.organization \/ SellerOf[q] = a.organization
    PROVE  Page(q) \subseteq Visible(a) /\ Page(q) # {}
<1>1. Row("request", BuyerOf[q], q) \in Page(q)
  BY TenantAssumption DEF Page, Hanging
<1>2. ASSUME NEW r \in Hanging(q) PROVE r \in Visible(a)
  <2>1. r \in Database
    BY RowOnFile
  <2> QED
    BY <2>1, HangingShape, EndsConcern DEF Visible
<1>3. ASSUME NEW o \in {BuyerOf[q], SellerOf[q]} \ {None}
      PROVE  Row("organization", o, None) \in Visible(a)
  <2> DEFINE r == Row("organization", o, None)
  <2>1. o \in Organizations
    BY TenantAssumption DEF Organizations, Tenants
  <2>2. r \in Database
    BY <2>1, RowOnFile DEF OwnTables
  <2>3. r.table = "organization" /\ r.organization = o
    BY DEF Row
  <2>4. CASE o = a.organization
    BY <2>2, <2>3, <2>4 DEF Visible, Concerns, FiledBy
  <2>5. CASE o # a.organization /\ a.workspace # "OPERATOR"
    <3>1. {BuyerOf[q], SellerOf[q]} = {a.organization, r.organization}
      BY <2>3, <2>5
    <3> QED
      BY <2>2, <2>3, <3>1 DEF Visible, Concerns
  <2>6. CASE a.workspace = "OPERATOR"
    BY <2>2, <2>6 DEF Visible
  <2> QED
    BY <2>4, <2>5, <2>6
<1> QED
  BY <1>1, <1>2, <1>3, TenantAssumption DEF Page

-----------------------------------------------------------------------------
(* What the reads return: rows on file that the actor may see.             *)

(* A set of rows an actor's organization filed, bought or sold.            *)
LEMMA OwnVisible ==
    ASSUME NEW a \in Actors, NEW r \in Database,
           FiledBy(r, a.organization) \/ BoughtBy(r, a.organization) \/ SoldBy(r, a.organization)
    PROVE  r \in Visible(a)
BY DEF Visible, Concerns

(* The organization at the other end of a request.                         *)
LEMMA CounterpartVisible ==
    ASSUME NEW a \in Actors, NEW r \in In("organization"), NEW q \in Requests,
           \/ BuyerOf[q] = a.organization /\ SellerOf[q] = r.organization
           \/ SellerOf[q] = a.organization /\ BuyerOf[q] = r.organization
    PROVE  r \in Visible(a)
<1>1. {BuyerOf[q], SellerOf[q]} = {a.organization, r.organization}
  OBVIOUS
<1> QED
  BY <1>1 DEF Visible, Concerns, In

(* A restricted where clause returns what the organization may see.        *)
LEMMA ScopedVisible ==
    ASSUME NEW a \in Actors, NEW t
    PROVE  /\ Scoped(t, a, Filed(a), Sold(a)) \subseteq Visible(a)
           /\ Scoped(t, a, Bought(a), Sold(a)) \subseteq Visible(a)
           /\ Scoped(t, a, Filed(a) \cup Bought(a), Sold(a)) \subseteq Visible(a)
<1>1. Filed(a) \cup Bought(a) \cup Sold(a) \subseteq Visible(a)
  BY OwnVisible DEF Filed, Bought, Sold
<1>2. CASE a.workspace = "BUYER"
  BY <1>1, <1>2 DEF Scoped
<1>3. CASE a.workspace = "SELLER"
  BY <1>1, <1>3 DEF Scoped
<1>4. CASE a.workspace = "OPERATOR"
  BY <1>4 DEF Scoped, In, Visible
<1> QED
  BY <1>2, <1>3, <1>4, ActorShape DEF Workspaces

(* Whatever is read across organizations is for operators alone.           *)
LEMMA OperatorVisible ==
    ASSUME NEW a \in Actors, a.workspace = "OPERATOR"
    PROVE  Visible(a) = Database
BY DEF Visible

(* A buyer is listed its own rows and the sellers it may buy from.         *)
LEMMA BuyerListsVisible ==
    ASSUME NEW a \in Actors, a.workspace = "BUYER", NEW key \in DOMAIN Lists(a)
    PROVE  Lists(a)[key] \subseteq Visible(a)
<1> DEFINE o == a.organization
<1>1. Lists(a) = BuyerLists(a)
  BY DEF Lists
<1>2. /\ BuyerAgents(o) \subseteq Visible(a) /\ BuyerPolicies(o) \subseteq Visible(a)
      /\ BuyerRequests(o) \subseteq Visible(a) /\ BuyerApprovals(o) \subseteq Visible(a)
      /\ BuyerActivity(o) \subseteq Visible(a)
  BY OwnVisible DEF BuyerAgents, BuyerPolicies, BuyerRequests, BuyerApprovals, BuyerActivity, In
<1>3. BuyerSellers(o) \subseteq Visible(a)
  BY CounterpartVisible DEF BuyerSellers
<1>4. BuyerOverviewItems(o) \subseteq Visible(a)
  BY <1>2, <1>3 DEF BuyerOverviewItems
<1>5. PaymentIntents(a) \subseteq Visible(a) /\ ReceiptRecords(a) \subseteq Visible(a)
  BY ScopedVisible DEF PaymentIntents, ReceiptRecords
<1> QED
  BY <1>1, <1>2, <1>4, <1>5 DEF BuyerLists

(* A seller is listed its own rows and those sold through it.              *)
LEMMA SellerListsVisible ==
    ASSUME NEW a \in Actors, a.workspace = "SELLER", NEW key \in DOMAIN Lists(a)
    PROVE  Lists(a)[key] \subseteq Visible(a)
<1> DEFINE o == a.organization
<1>1. Lists(a) = SellerLists(a)
  BY DEF Lists
<1>2. /\ SellerServices(o) \subseteq Visible(a) /\ SellerRequests(o) \subseteq Visible(a)
      /\ SellerTeam(o) \subseteq Visible(a)
  BY OwnVisible DEF SellerServices, SellerRequests, SellerTeam, In
<1>3. SellerCustomers(o) \subseteq Visible(a)
  BY CounterpartVisible DEF SellerCustomers
<1>4. SellerProfile(o) \subseteq Visible(a)
  BY <1>2, OwnVisible DEF SellerProfile, In
<1>5. SellerOverviewItems(o) \subseteq Visible(a) /\ SellerAnalytics(o) \subseteq Visible(a)
  BY <1>2, <1>3 DEF SellerOverviewItems, SellerAnalytics
<1>6. PaymentIntents(a) \subseteq Visible(a) /\ ReceiptRecords(a) \subseteq Visible(a)
  BY ScopedVisible DEF PaymentIntents, ReceiptRecords
<1> QED
  BY <1>1, <1>2, <1>3, <1>4, <1>5, <1>6 DEF SellerLists

(* An operator may see every row, so every list stays within that.         *)
LEMMA OperatorListsVisible ==
    ASSUME NEW a \in Actors, a.workspace = "OPERATOR", NEW key \in DOMAIN Lists(a)
    PROVE  Lists(a)[key] \subseteq Visible(a)
<1>1. Lists(a) = OperatorLists(a)
  BY DEF Lists
<1>2. \A t : In(t) \subseteq Visible(a)
  BY OperatorVisible DEF In
<1>3. PaymentIntents(a) \subseteq Visible(a) /\ ReceiptRecords(a) \subseteq Visible(a)
  BY ScopedVisible DEF PaymentIntents, ReceiptRecords
<1> QED
  BY <1>1, <1>2, <1>3 DEF OperatorLists, OperatorOverviewItems, OperatorTransactions,
     OperatorOrganizations, OperatorApprovals, OperatorExceptions, OperatorAudit

(* Every list of a workspace.                                              *)
LEMMA ListsVisible ==
    ASSUME NEW a \in Actors, NEW key \in DOMAIN Lists(a)
    PROVE  Lists(a)[key] \subseteq Visible(a)
BY BuyerListsVisible, SellerListsVisible, OperatorListsVisible, ActorShape DEF Workspaces

(* The overview of a workspace.                                            *)
LEMMA OverviewVisible ==
    ASSUME NEW a \in Actors
    PROVE  Overview(a) \subseteq Visible(a)
<1> DEFINE o == a.organization
<1>1. CASE a.workspace = "BUYER"
  <2>1. Overview(a) = BuyerOverview(o)
    BY <1>1 DEF Overview
  <2> QED
    BY <2>1, OwnVisible DEF BuyerOverview, BuyerAgents, BuyerPolicies, BuyerRequests,
       BuyerApprovals, In
<1>2. CASE a.workspace = "SELLER"
  <2>1. Overview(a) = SellerOverview(o)
    BY <1>2 DEF Overview
  <2>2. SellerCustomers(o) \subseteq Visible(a)
    BY CounterpartVisible DEF SellerCustomers
  <2> QED
    BY <2>1, <2>2, OwnVisible DEF SellerOverview, SellerRequests, In
<1>3. CASE a.workspace = "OPERATOR"
  <2>1. Overview(a) = OperatorOverview
    BY <1>3 DEF Overview
  <2>2. \A t : In(t) \subseteq Visible(a)
    BY <1>3, OperatorVisible DEF In
  <2> QED
    BY <2>1, <2>2 DEF OperatorOverview
<1> QED
  BY <1>1, <1>2, <1>3, ActorShape DEF Workspaces

(* The requests behind a page of analytics or an export, with their        *)
(* relations.                                                              *)
LEMMA RelationsVisible ==
    ASSUME NEW a \in Actors
    PROVE  /\ a.workspace = "BUYER" => BuyerRequestRows(a.organization) \subseteq Visible(a)
           /\ a.workspace = "SELLER" => SellerRequestRows(a.organization) \subseteq Visible(a)
           /\ a.workspace = "OPERATOR" => PlatformRequestRows \subseteq Visible(a)
<1> DEFINE o == a.organization
<1>1. ASSUME NEW r \in BuyerRequestRows(o) PROVE r \in Visible(a)
  <2>1. PICK s \in In("request") : FiledBy(s, o) /\ s.request = r.request
    BY DEF BuyerRequestRows, WithRelations
  <2>2. r.request \in Requests /\ BuyerOf[r.request] = o
    BY <2>1, RowShape DEF In, FiledBy
  <2>3. r \in Database
    BY DEF BuyerRequestRows, WithRelations
  <2> QED
    BY <2>2, <2>3, EndsConcern DEF Visible
<1>2. ASSUME NEW r \in SellerRequestRows(o) PROVE r \in Visible(a)
  <2>1. PICK s \in In("request") : SoldBy(s, o) /\ s.request = r.request
    BY DEF SellerRequestRows, WithRelations
  <2>2. r.request \in Requests /\ SellerOf[r.request] = o
    BY <2>1, RowShape DEF In, SoldBy
  <2>3. r \in Database
    BY DEF SellerRequestRows, WithRelations
  <2> QED
    BY <2>2, <2>3, EndsConcern DEF Visible
<1>3. a.workspace = "OPERATOR" => PlatformRequestRows \subseteq Visible(a)
  BY OperatorVisible DEF PlatformRequestRows, WithRelations
<1> QED
  BY <1>1, <1>2, <1>3

(* What the analytics of a workspace count over is visible in it.          *)
LEMMA AnalyticsVisible ==
    ASSUME NEW a \in Actors, NEW key \in DOMAIN Analytics(a)
    PROVE  Analytics(a)[key] \subseteq Visible(a)
<1> DEFINE o == a.organization
<1>1. CASE a.workspace = "BUYER"
  <2>1. Analytics(a) = [overview |-> BuyerAnalytics(o), requests |-> BuyerRequestRows(o),
                        activity |-> BuyerActivityEvents(o)]
    BY <1>1 DEF Analytics
  <2>2. BuyerActivityEvents(o) \subseteq Visible(a) /\ BuyerPolicies(o) \subseteq Visible(a)
    BY OwnVisible DEF BuyerActivityEvents, BuyerPolicies, In
  <2> QED
    BY <1>1, <2>1, <2>2, RelationsVisible DEF BuyerAnalytics
<1>2. CASE a.workspace = "SELLER"
  <2>1. Analytics(a) = [overview |-> SellerRevenue(o), requests |-> SellerRequestRows(o)]
    BY <1>2 DEF Analytics
  <2> QED
    BY <1>2, <2>1, RelationsVisible DEF SellerRevenue
<1>3. CASE a.workspace = "OPERATOR"
  <2>1. Analytics(a) = [overview |-> PlatformAnalytics, transactions |-> PlatformRequestRows,
                        organizations |-> PlatformOrganizations]
    BY <1>3 DEF Analytics
  <2>2. \A t : In(t) \subseteq Visible(a)
    BY <1>3, OperatorVisible DEF In
  <2> QED
    BY <1>3, <2>1, <2>2, RelationsVisible DEF PlatformAnalytics, PlatformOrganizations
<1> QED
  BY <1>1, <1>2, <1>3, ActorShape DEF Workspaces

(* So is what a workspace exports; operators export what they see.         *)
LEMMA ExportsVisible ==
    ASSUME NEW a \in Actors, NEW key \in DOMAIN Exports(a)
    PROVE  Exports(a)[key] \subseteq Visible(a)
<1>1. CASE a.workspace = "BUYER"
  <2>1. Exports(a) = [requests |-> BuyerRequestRows(a.organization)]
    BY <1>1 DEF Exports
  <2> QED
    BY <1>1, <2>1, RelationsVisible
<1>2. CASE a.workspace = "SELLER"
  <2>1. Exports(a) = [requests |-> SellerRequestRows(a.organization)]
    BY <1>2 DEF Exports
  <2> QED
    BY <1>2, <2>1, RelationsVisible
<1>3. CASE a.workspace = "OPERATOR"
  <2>1. Exports(a) = [transactions |-> PlatformRequestRows]
    BY <1>3 DEF Exports
  <2> QED
    BY <1>3, <2>1, RelationsVisible
<1> QED
  BY <1>1, <1>2, <1>3, ActorShape DEF Workspaces

(* Who finds a record that hangs from a request is at an end of it.        *)
LEMMA DetailEnds ==
    ASSUME NEW a \in Actors, NEW r \in Database, r.table # "service",
           r.table \in DetailTables, r.request \in Requests, Detail(a, r) # {}
    PROVE  \/ a.workspace = "OPERATOR"
           \/ BuyerOf[r.request] = a.organization
           \/ SellerOf[r.request] = a.organization
<1>1. r \in RequestScope(a) \cup ApprovalScope(a) \cup PaymentScope(a) \cup ReceiptScope(a)
           \cup AuditScope(a)
  BY DEF Detail, DetailTables, RequestDetail, ApprovalDetail, PaymentDetail, ReceiptDetail, AuditDetail
<1>2. \/ a.workspace = "OPERATOR"
      \/ FiledBy(r, a.organization) \/ BoughtBy(r, a.organization) \/ SoldBy(r, a.organization)
  BY <1>1, ActorShape DEF RequestScope, ApprovalScope, PaymentScope, ReceiptScope, AuditScope,
     Scoped, Filed, Bought, Sold, Workspaces
<1>3. r.organization \in {BuyerOf[r.request], SellerOf[r.request], Operator}
  BY RowShape, HangingShape DEF DetailTables, Hanging, Row
<1>4. FiledBy(r, a.organization) =>
         \/ a.workspace = "OPERATOR"
         \/ BuyerOf[r.request] = a.organization
         \/ SellerOf[r.request] = a.organization
  BY <1>3, ActorShape DEF FiledBy
<1> QED
  BY <1>2, <1>4 DEF BoughtBy, SoldBy

(* The page of a record.                                                   *)
LEMMA DetailVisible ==
    ASSUME NEW a \in Actors, NEW r \in Database, r.table \in DetailTables
    PROVE  Detail(a, r) \subseteq Visible(a)
<1>1. CASE r.table = "service"
  BY <1>1, OwnVisible DEF Detail, ServiceDetail, ServiceScope, SellerRequests, BuyerActivityEvents, In
<1>2. CASE r.table # "service" /\ Detail(a, r) # {}
  <2>1. r.request \in Requests => Page(r.request) \subseteq Visible(a)
    BY <1>2, DetailEnds, PageVisible
  <2>2. Page(None) = {}
    BY DEF Page
  <2>3. AuditDetail(a, r) \subseteq Visible(a)
    BY <2>1, <2>2, RowShape, ScopedVisible DEF AuditDetail, AuditScope
  <2> QED
    BY <1>2, <2>1, <2>2, <2>3, RowShape DEF Detail, DetailTables, RequestDetail, ApprovalDetail,
       PaymentDetail, ReceiptDetail
<1> QED
  BY <1>1, <1>2

(* What the operators govern with.                                         *)
LEMMA GovernanceVisible ==
    ASSUME NEW a \in Actors, a.workspace = "OPERATOR", NEW key \in DOMAIN Governance(a)
    PROVE  Governance(a)[key] \subseteq Visible(a)
<1>1. \A t : In(t) \subseteq Visible(a)
  BY OperatorVisible DEF In
<1> QED
  BY <1>1 DEF Governance, ReviewCampaigns, ProviderSessions, ProviderLinks, IdentityAssignments,
     Integrations, Executions, ExecutionSummary, OperatorAuditEvents, SettlementOrganizations, OfTenants

ReadKinds == {"surface", "list", "analytics", "export", "detail", "wallets", "governance"}

(* The calls there are, by their kind.                                     *)
LEMMA OpShape ==
    ASSUME NEW op \in Reads \cup Writes
    PROVE  /\ op.kind \in ReadKinds \cup Mutations
           /\ op.kind \in {"register", "registerDefault"} =>
                 op.workspace \in {"BUYER", "SELLER"} /\ op.key \in Addresses
           /\ op.kind = "verify" =>
                 op.workspace = "OPERATOR" /\ op.key \in Addresses /\ op.on \in Tenants
           /\ op.kind \in {"createService", "updateService"} =>
                 op.workspace = "SELLER" /\ op.key \in ServiceKeys
           /\ op.kind = "updateService" => op.on \in ServiceIds
           /\ op.kind = "detail" =>
                 op.on \in Database /\ op.key = op.on.table /\ op.key \in DetailTables
           /\ op.kind = "governance" => op.key \in DOMAIN Governance(Actor(Operator, None))
<1>1. CASE op \in PageReads \cup AnalyticsReads
  <2>1. op.kind \in {"surface", "list", "analytics", "export"}
    BY <1>1 DEF PageReads, AnalyticsReads, Op
  <2> QED
    BY <2>1 DEF ReadKinds
<1>2. CASE op \in RecordReads
  BY <1>2 DEF RecordReads, Op, ReadKinds
<1>3. CASE op \in WalletReads \cup GovernanceReads
  BY <1>3 DEF WalletReads, GovernanceReads, Op, ReadKinds
<1>4. CASE op \in Writes
  <2>1. \A o \in Tenants : KindOf(o) \in {"BUYER", "SELLER"}
    BY DEF KindOf, Tenants
  <2> QED
    BY <1>4, <2>1 DEF Writes, Op, Mutations
<1> QED
  BY <1>1, <1>2, <1>3, <1>4 DEF Reads

(* Every read that an actor may make returns rows on file that it may see. *)
LEMMA RowsVisible ==
    ASSUME NEW a \in Actors, NEW role, NEW op \in Reads \cup Writes, op.kind \notin Mutations,
           MayDo(a, role, op)
    PROVE  RowsOf(a, op) \subseteq Visible(a)
<1>1. op.kind \in ReadKinds
  BY OpShape
<1>2. CASE op.kind = "surface"
  BY <1>2, ListsVisible, OverviewVisible DEF RowsOf, MayDo
<1>3. CASE op.kind = "list"
  BY <1>3, ListsVisible DEF RowsOf, MayDo
<1>4. CASE op.kind = "analytics"
  BY <1>4, AnalyticsVisible DEF RowsOf, MayDo
<1>5. CASE op.kind = "export"
  BY <1>5, ExportsVisible DEF RowsOf, MayDo
<1>6. CASE op.kind = "detail"
  BY <1>6, DetailVisible, OpShape DEF RowsOf
<1>7. CASE op.kind = "governance"
  <2>1. a.workspace = "OPERATOR"
    BY <1>7 DEF MayDo, Governs
  <2>2. op.key \in DOMAIN Governance(a)
    BY <1>7, OpShape DEF Governance
  <2> QED
    BY <1>7, <2>1, <2>2, GovernanceVisible DEF RowsOf
<1>8. CASE op.kind = "wallets"
  <2>1. RowsOf(a, op) = {r \in In("wallet") : FiledBy(r, a.organization)}
    BY <1>8 DEF RowsOf
  <2> QED
    BY <2>1, OwnVisible DEF In
<1> QED
  BY <1>1, <1>2, <1>3, <1>4, <1>5, <1>6, <1>7, <1>8 DEF ReadKinds

-----------------------------------------------------------------------------
(* Links.  What each workspace may open, then where each page leads.       *)

(* A record's page is never empty for who finds the record.                *)
LEMMA BuyerOpens ==
    ASSUME NEW a \in Actors, a.workspace = "BUYER", NEW r \in Database,
           r.table \in {"request", "approval", "receipt", "audit"},
           FiledBy(r, a.organization) \/ BoughtBy(r, a.organization)
    PROVE  Opens(a, r)
<1>1. r \in In(r.table)
  BY DEF In
<1>2. r.request \in Requests =>
         /\ BoughtBy(r, a.organization) <=> BuyerOf[r.request] = a.organization
         /\ Page(r.request) # {}
  BY TenantAssumption DEF BoughtBy, Page, Hanging
<1>3. r.table # "audit" =>
         r.request \in Requests /\ FiledBy(r, a.organization) /\ BoughtBy(r, a.organization)
  BY <1>2, RowShape DEF FiledBy
<1>4. CASE r.table = "request"
  BY <1>1, <1>2, <1>3, <1>4 DEF Opens, Gate, Detail, RequestDetail, RequestScope, Scoped, Filed
<1>5. CASE r.table = "approval"
  BY <1>1, <1>2, <1>3, <1>5 DEF Opens, Gate, Detail, ApprovalDetail, ApprovalScope, Scoped, Bought
<1>6. CASE r.table = "receipt"
  BY <1>1, <1>2, <1>3, <1>6 DEF Opens, Gate, Detail, ReceiptDetail, ReceiptScope, Scoped, Filed
<1>7. CASE r.table = "audit"
  BY <1>1, <1>7 DEF Opens, Gate, BuyerActivity, Detail, AuditDetail, AuditScope, Scoped, Filed, Bought
<1> QED
  BY <1>4, <1>5, <1>6, <1>7

(* A seller opens what it sold and what it offers: the gate finds a row    *)
(* and the read of the record has the same where clause.                   *)
LEMMA SellerOpens ==
    ASSUME NEW a \in Actors, a.workspace = "SELLER", NEW r \in Database,
           \/ r.table \in {"request", "payment"} /\ SoldBy(r, a.organization)
           \/ r.table = "service" /\ FiledBy(r, a.organization)
    PROVE  Opens(a, r)
<1>1. r \in In(r.table)
  BY DEF In
<1>2. r.table # "service" => Page(r.request) # {}
  BY RowShape, TenantAssumption DEF Page, Hanging
<1>3. CASE r.table = "request"
  BY <1>1, <1>2, <1>3 DEF Opens, Gate, Detail, RequestDetail, RequestScope, Scoped, Sold
<1>4. CASE r.table = "payment"
  BY <1>1, <1>2, <1>4 DEF Opens, Gate, Detail, PaymentDetail, PaymentScope, Scoped, Sold
<1>5. CASE r.table = "service"
  BY <1>1, <1>5 DEF Opens, Gate, Detail, ServiceDetail, ServiceScope
<1> QED
  BY <1>3, <1>4, <1>5

(* An operator opens requests, receipts and audit events of everyone.      *)
LEMMA OperatorOpens ==
    ASSUME NEW a \in Actors, a.workspace = "OPERATOR", NEW r \in Database,
           r.table \in {"request", "receipt", "audit"}
    PROVE  Opens(a, r)
<1>1. r \in In(r.table)
  BY DEF In
<1>2. r.table # "audit" => Page(r.request) # {}
  BY RowShape, TenantAssumption DEF Page, Hanging
<1>3. CASE r.table = "request"
  BY <1>1, <1>2, <1>3 DEF Opens, HasGate, Detail, RequestDetail, RequestScope, Scoped
<1>4. CASE r.table = "receipt"
  BY <1>1, <1>2, <1>4 DEF Opens, Gate, Detail, ReceiptDetail, ReceiptScope, Scoped
<1>5. CASE r.table = "audit"
  BY <1>1, <1>5 DEF Opens, Gate, Detail, AuditDetail, AuditScope, Scoped
<1> QED
  BY <1>3, <1>4, <1>5

(* An actor may open whatever it may see on a surface its workspace has,   *)
(* though a list, the gate of a record and its page each have their own    *)
(* where clause; the cases behind the operator's exceptions are no rows    *)
(* here.                                                                   *)
LEMMA VisibleOpens ==
    ASSUME NEW a \in Actors, NEW s \in DetailSurfaces(a.workspace) \ {"exceptions"}, NEW r \in Visible(a),
           r.table = TableOf[s]
    PROVE  Opens(a, r)
<1> DEFINE o == a.organization
<1>1. r \in Database
  BY DEF Visible
<1>2. CASE a.workspace = "BUYER"
  <2>1. r.table \in {"request", "approval", "receipt", "audit"}
    BY <1>2 DEF DetailSurfaces, TableOf
  <2>2. FiledBy(r, o) \/ BoughtBy(r, o) \/ SoldBy(r, o)
    BY <1>2, <2>1 DEF Visible, Concerns
  <2>3. ~SoldBy(r, o)
    BY <1>1, <1>2, RowShape, ActorShape, TenantAssumption DEF SoldBy, Organizations, Tenants
  <2> QED
    BY <1>1, <1>2, <2>1, <2>2, <2>3, BuyerOpens
<1>3. CASE a.workspace = "SELLER"
  <2>1. r.table \in {"request", "payment", "service"}
    BY <1>3 DEF DetailSurfaces, TableOf
  <2>2. FiledBy(r, o) \/ BoughtBy(r, o) \/ SoldBy(r, o)
    BY <1>3, <2>1 DEF Visible, Concerns
  <2>3. ~BoughtBy(r, o)
    BY <1>1, <1>3, RowShape, ActorShape, TenantAssumption DEF BoughtBy
  <2>4. r.table \in {"request", "payment"} => ~FiledBy(r, o)
    BY <1>1, <1>3, RowShape, ActorShape, TenantAssumption DEF FiledBy
  <2>5. r.table = "service" /\ SoldBy(r, o) => FiledBy(r, o)
    BY <1>1, RowShape, HangingShape DEF SoldBy, FiledBy
  <2> QED
    BY <1>1, <1>3, <2>1, <2>2, <2>3, <2>4, <2>5, SellerOpens
<1>4. CASE a.workspace = "OPERATOR"
  <2>1. r.table \in {"request", "receipt", "audit"}
    BY <1>4 DEF DetailSurfaces, TableOf
  <2> QED
    BY <1>1, <1>4, <2>1, OperatorOpens
<1> QED
  BY <1>2, <1>3, <1>4, ActorShape DEF Workspaces

(* So the links on visible rows can be followed, whatever they are.        *)
LEMMA LinkedOpen ==
    ASSUME NEW a \in Actors, NEW s, s # "exceptions", NEW rows, rows \subseteq Visible(a),
           NEW r \in Linked(a, s, rows)
    PROVE  Opens(a, r)
<1>1. s \in DetailSurfaces(a.workspace) /\ r \in rows /\ r.table = TableOf[s]
  BY DEF Linked
<1> QED
  BY <1>1, VisibleOpens

(* The links of a list, and those of an overview.                          *)
LEMMA ListLinksOpen ==
    ASSUME NEW a \in Actors
    PROVE  /\ \A r \in ActivityLinks(a) : Opens(a, r)
           /\ \A key \in DOMAIN Lists(a) : \A r \in ItemLinks(a, key) : Opens(a, r)
<1>1. \A r \in ActivityLinks(a) : Opens(a, r)
  BY OverviewVisible, LinkedOpen DEF ActivityLinks
<1>2. ASSUME NEW key \in DOMAIN Lists(a), NEW r \in ItemLinks(a, key) PROVE Opens(a, r)
  <2>1. /\ key \in DOMAIN ItemSurface(a.workspace)
        /\ r \in Linked(a, ItemSurface(a.workspace)[key], Lists(a)[key])
    BY <1>2 DEF ItemLinks
  <2>2. ItemSurface(a.workspace)[key] # "exceptions"
    BY <2>1 DEF ItemSurface
  <2> QED
    BY <2>1, <2>2, ListsVisible, LinkedOpen
<1> QED
  BY <1>1, <1>2

(* The links on the page of a record, for who has it open.                 *)
LEMMA DetailLinksOpen ==
    ASSUME NEW a \in Actors, NEW r \in Database, r.table \in DetailTables, Detail(a, r) # {},
           NEW l \in DetailLinks(a, r)
    PROVE  Opens(a, l)
<1>1. CASE r.table = "service"
  <2>1. a.workspace = "SELLER"
    BY <1>1 DEF Detail, ServiceDetail, ServiceScope
  <2>2. SellerRequests(a.organization) \subseteq Visible(a)
    BY OwnVisible DEF SellerRequests, In
  <2>3. l \in Linked(a, "requests", SellerRequests(a.organization))
    BY <1>1 DEF DetailLinks, ServiceLinks
  <2> QED
    BY <2>2, <2>3, LinkedOpen
<1>2. CASE r.table # "service" /\ r.request \in Requests
  <2> DEFINE q == r.request
  <2>1. a.workspace = "OPERATOR" \/ BuyerOf[q] = a.organization \/ SellerOf[q] = a.organization
    BY <1>2, DetailEnds
  <2>2. Hanging(q) \subseteq Visible(a)
    BY <1>2, <2>1, PageVisible, TenantAssumption DEF Page
  <2>3. MatchedService(q) \subseteq Visible(a)
    BY <1>2, <2>1, EndsConcern DEF MatchedService, In, Visible
  <2>4. \E s, rows : s # "exceptions" /\ rows \in {Hanging(q), MatchedService(q)} /\ l \in Linked(a, s, rows)
    <3>1. CASE r.table \in {"request", "approval", "payment"}
      <4>1. l \in RequestLinks(a, q)
        BY <3>1 DEF DetailLinks
      <4>2. CASE \E s \in {"requests", "approvals", "receipts", "payments", "transactions"} :
                    l \in Linked(a, s, Hanging(q))
        BY <4>2
      <4>3. CASE l \in Linked(a, "services", MatchedService(q))
        BY <4>3
      <4> QED
        BY <4>1, <4>2, <4>3 DEF RequestLinks
    <3>2. CASE r.table = "receipt"
      BY <3>2 DEF DetailLinks, ReceiptLinks, RequestSurface
    <3>3. CASE r.table = "audit"
      BY <3>3 DEF DetailLinks, AuditLinks, RequestSurface
    <3> QED
      BY <1>2, <3>1, <3>2, <3>3 DEF DetailTables
  <2> QED
    BY <2>2, <2>3, <2>4, LinkedOpen
<1>3. CASE r.table # "service" /\ r.request = None
  <2>1. r.table = "audit"
    BY <1>3, RowShape, TenantAssumption DEF DetailTables
  <2> QED
    BY <1>3, <2>1 DEF DetailLinks, AuditLinks
<1> QED
  BY <1>1, <1>2, <1>3, RowShape

(* A page's cards show requests, each of which opens for its buyer alone.  *)
LEMMA CardsShowRequests ==
    ASSUME NEW a \in Actors, NEW op
    PROVE  CardsOf(a, op) \subseteq Requests
<1>1. \A from \in Int : Stretch(from) \subseteq Requests
  BY DemoAssumption DEF Stretch
<1>2. FirstCards \subseteq Requests
  BY <1>1 DEF FirstCards
<1>3. \A q : FocusedCards(q) \subseteq Requests
  <2> TAKE q
  <2> DEFINE at   == {i \in DOMAIN DemoScenarios : DemoScenarios[i] = q}
             near == UNION {Stretch(IF i = 1 THEN 1 ELSE i - 1) : i \in at}
  <2>1. at \subseteq Int
    BY DemoAssumption
  <2>2. \A i \in at : Stretch(IF i = 1 THEN 1 ELSE i - 1) \subseteq Requests
    BY <1>1, <2>1
  <2>3. near \subseteq Requests
    BY <2>2
  <2>4. FocusedCards(q) \in {near, FirstCards}
    BY DEF FocusedCards
  <2> QED
    BY <1>2, <2>3, <2>4
<1>4. \A r : DetailCards(a, r) \subseteq Requests
  BY <1>2, <1>3 DEF DetailCards
<1> QED
  BY <1>2, <1>4 DEF CardsOf

LEMMA CardsOpen ==
    ASSUME NEW a \in Actors, NEW q \in Requests
    PROVE  CardOpens(a, q) <=> BuyerOf[q] = a.organization
<1> DEFINE r == Row("request", BuyerOf[q], q)
<1>1. r \in Database /\ r.table = "request" /\ r.organization = BuyerOf[q]
  BY DEF Row, Database, Hanging
<1>2. ASSUME BuyerOf[q] = a.organization PROVE CardOpens(a, q)
  <2>1. a.workspace = "BUYER"
    BY <1>2, ActorShape, TenantAssumption
  <2> QED
    BY <1>1, <1>2, <2>1, BuyerOpens DEF CardOpens, FiledBy
<1>3. ASSUME CardOpens(a, q) PROVE BuyerOf[q] = a.organization
  BY <1>1, <1>3 DEF CardOpens, Opens, Detail, RequestDetail, RequestScope, Scoped, Filed, FiledBy
<1> QED
  BY <1>2, <1>3

-----------------------------------------------------------------------------
(* What a call has passed.  Each part speaks of one call and of what it     *)
(* reads, so that a step of another worker leaves it alone.                 *)

Acts(c) == ActorOf(c.token)
Reading == {"gate", "gateAudit", "load", "audit", "answered"}

(* A call has a token and an operation; one that marks a grant has one.    *)
Served(c) ==
    /\ c.step # "idle" =>
          c.token \in Tokens /\ c.op \in Reads \cup Writes /\ c.number \in 1..MaxCalls
    /\ c.step \in {"markExpired", "markReview"} => c.token.grant \in Grants

(* Past the resolution of its session a call is of its actor's workspace    *)
(* and may do what it does.                                                 *)
Admitted(c) ==
    c.step \in Reading \cup {"clear", "commit"} =>
        /\ c.op.workspace = Acts(c).workspace
        /\ MayDo(Acts(c), c.token.role, c.op)
        /\ (c.op.kind \in Mutations) = (c.step \in {"clear", "commit"})
        /\ c.step = "clear" => c.op.kind = "registerDefault"

(* A record is loaded past its gate; what was read stays as it was read.   *)
Passed(c) ==
    /\ c.step \in {"gate", "gateAudit"} => c.op.kind = "detail"
    /\ /\ c.step \in {"gateAudit", "load", "audit", "answered"}
       /\ c.op.kind = "detail" /\ HasGate(Acts(c), c.op.key)
       => c.op.on \in Gate(Acts(c), c.op.key)
    /\ IF c.step \in {"audit", "answered"}
           THEN c.answer = RowsOf(Acts(c), c.op) /\ (c.op.kind = "detail" => c.answer # {})
           ELSE c.answer = {}

CallHolds(c) == c \in CallRow /\ Served(c) /\ Admitted(c) /\ Passed(c)

CallInv == TypeOK /\ \A w \in Workers : CallHolds(call[w])

(* A support call remembers that its grant was usable, if it is or if the   *)
(* call was let in.                                                         *)
GrantRemembered(c, rows) ==
    /\ /\ c.step # "idle" /\ c.token.grant # None
       /\ rows[c.token.grant] = [status |-> "ACTIVE", due |-> "CURRENT"]
       => c.open
    /\ c.step \in Reading /\ c.token.grant # None => c.open
RowFor(c) == [call |-> c.number, organization |-> Acts(c).organization, grant |-> Acts(c).grant]
ReadOnFile(c, filed) == c.step = "answered" /\ Audited(Acts(c), c.op) => RowFor(c) \in filed

SupportInv ==
    CallInv /\ \A w \in Workers : GrantRemembered(call[w], grants) /\ ReadOnFile(call[w], audits)

(* A registration as the default that nobody disturbed has seen every       *)
(* default there is, and a quiet tenant has at most one.                    *)
SeesDefaults(c, held) ==
    c.step = "commit" /\ c.op.kind = "registerDefault" /\ ~c.disturbed =>
        \A x \in Addresses : held[Acts(c).organization][x].isDefault => x \in c.seen
DefaultInv ==
    /\ CallInv
    /\ \A w \in Workers : SeesDefaults(call[w], wallets)
    /\ \A o \in Tenants : quiet[o] => \A x, y \in Defaults(o) : x = y

-----------------------------------------------------------------------------
(* Calls keep what they have passed.                                       *)

(* A call that is over promises nothing.                                   *)
LEMMA IdleHolds == CallHolds(Idle)
BY WorkspaceAssumption DEF CallHolds, CallRow, Served, Admitted, Passed, Reading, Idle, Steps

(* One call goes on; the others stay.                                      *)
LEMMA BecomeHolds ==
    ASSUME CallInv, NEW w \in Workers, NEW c, CallHolds(c), Become(w, c)
    PROVE  /\ call' \in [Workers -> CallRow]
           /\ \A v \in Workers : CallHolds(call'[v])
<1>1. call' = [call EXCEPT ![w] = c] /\ call \in [Workers -> CallRow]
  BY DEF Become, CallInv, TypeOK
<1>2. c \in CallRow
  BY DEF CallHolds
<1>3. ASSUME NEW v \in Workers PROVE CallHolds(call'[v])
  <2>1. call'[v] = IF v = w THEN c ELSE call[v]
    BY <1>1
  <2> QED
    BY <2>1 DEF CallInv
<1> QED
  BY <1>1, <1>2, <1>3

(* A call goes on to a step, with all else as it was.                      *)
LEMMA GoShape ==
    ASSUME NEW c \in CallRow, NEW s \in Steps
    PROVE  /\ [c EXCEPT !.step = s] \in CallRow
           /\ [c EXCEPT !.step = s].step = s
           /\ [c EXCEPT !.step = s].number = c.number /\ [c EXCEPT !.step = s].token = c.token
           /\ [c EXCEPT !.step = s].op = c.op /\ [c EXCEPT !.step = s].open = c.open
           /\ [c EXCEPT !.step = s].answer = c.answer /\ [c EXCEPT !.step = s].seen = c.seen
           /\ [c EXCEPT !.step = s].disturbed = c.disturbed
BY DEF CallRow

(* The fields of a call under service.                                     *)
LEMMA ServedShape ==
    ASSUME CallInv, NEW w \in Workers, call[w].step # "idle"
    PROVE  /\ call[w] \in CallRow /\ CallHolds(call[w])
           /\ call[w].token \in Tokens /\ call[w].op \in Reads \cup Writes
           /\ call[w].number \in 1..MaxCalls
           /\ Acts(call[w]) \in Actors
<1>1. CallHolds(call[w])
  BY DEF CallInv
<1> QED
  BY <1>1, TokenActs DEF CallHolds, Served, Acts

(* The session of a call is admitted to the first step of its operation.   *)
LEMMA AdmitHolds ==
    ASSUME CallInv, NEW w \in Workers, call[w].step = "resolve", Admit(w, Acts(call[w]))
    PROVE  /\ call' \in [Workers -> CallRow]
           /\ \A v \in Workers : CallHolds(call'[v])
<1> DEFINE c == call[w]
           a == Acts(call[w])
           s == FirstStep(a, c.op)
           d == [c EXCEPT !.step = s]
<1>1. /\ c \in CallRow /\ CallHolds(c) /\ c.token \in Tokens /\ c.op \in Reads \cup Writes
      /\ c.number \in 1..MaxCalls /\ a \in Actors
  BY ServedShape
<1>2. CASE ~(CanAccessWorkspace(c.token.role, c.op.workspace, a.organization) /\ MayDo(a, c.token.role, c.op))
  <2>1. Become(w, Idle)
    BY <1>2 DEF Admit
  <2> QED
    BY <2>1, BecomeHolds, IdleHolds
<1>3. CASE CanAccessWorkspace(c.token.role, c.op.workspace, a.organization) /\ MayDo(a, c.token.role, c.op)
  <2>1. Become(w, d)
    BY <1>3 DEF Admit, Go
  <2>2. c.op.workspace = a.workspace
    BY <1>1, <1>3, ActorShape DEF CanAccessWorkspace
  <2>3. /\ s \in {"clear", "commit", "gate", "load"}
        /\ (c.op.kind \in Mutations) = (s \in {"clear", "commit"})
        /\ s = "clear" => c.op.kind = "registerDefault"
        /\ s = "gate" => c.op.kind = "detail"
        /\ s = "load" /\ c.op.kind = "detail" => ~HasGate(a, c.op.key)
    BY DEF FirstStep, Mutations
  <2>4. s \in Steps
    BY <2>3 DEF Steps
  <2>5. /\ d \in CallRow /\ d.step = s /\ d.number = c.number /\ d.token = c.token /\ d.op = c.op
        /\ d.answer = c.answer
    BY <1>1, <2>4, GoShape
  <2>6. Acts(d) = a
    BY <2>5 DEF Acts
  <2>7. c.answer = {}
    BY <1>1 DEF CallHolds, Passed
  <2>8. Served(d)
    BY <1>1, <2>3, <2>5 DEF Served
  <2>9. Admitted(d)
    BY <1>3, <2>2, <2>3, <2>5, <2>6 DEF Admitted
  <2>10. Passed(d)
    BY <2>3, <2>5, <2>6, <2>7 DEF Passed
  <2>11. CallHolds(d)
    BY <2>5, <2>8, <2>9, <2>10 DEF CallHolds
  <2> HIDE DEF d
  <2> QED
    BY <2>1, <2>11, BecomeHolds
<1> QED
  BY <1>2, <1>3

(* A call that moves on without reading holds what its new step demands.   *)
LEMMA GoHolds ==
    ASSUME CallInv, NEW w \in Workers, NEW s \in Steps, Go(w, s), call[w].step # "idle",
           s \in {"markExpired", "markReview"} => call[w].token.grant \in Grants,
           s \in Reading \cup {"clear", "commit"} => call[w].step \in Reading /\ s \in Reading,
           s \in {"gate", "gateAudit"} => call[w].op.kind = "detail",
           s \in {"gateAudit", "load", "audit", "answered"} /\ call[w].op.kind = "detail"
              /\ HasGate(Acts(call[w]), call[w].op.key) =>
                 call[w].op.on \in Gate(Acts(call[w]), call[w].op.key),
           (s \in {"audit", "answered"}) = (call[w].step \in {"audit", "answered"})
    PROVE  /\ call' \in [Workers -> CallRow]
           /\ \A v \in Workers : CallHolds(call'[v])
<1> DEFINE c == call[w]
           d == [c EXCEPT !.step = s]
<1>1. c \in CallRow /\ CallHolds(c) /\ c.token \in Tokens /\ c.op \in Reads \cup Writes /\ c.number \in 1..MaxCalls
  BY ServedShape
<1>2. Become(w, d)
  BY DEF Go
<1>3. /\ d \in CallRow /\ d.step = s /\ d.number = c.number /\ d.token = c.token /\ d.op = c.op
      /\ d.answer = c.answer
  BY <1>1, GoShape
<1>4. Acts(d) = Acts(c)
  BY <1>3 DEF Acts
<1>5. Served(d)
  BY <1>1, <1>3 DEF Served
<1>6. Admitted(d)
  BY <1>1, <1>3, <1>4 DEF CallHolds, Admitted, Reading
<1>7. Passed(d)
  BY <1>1, <1>3, <1>4 DEF CallHolds, Passed
<1>8. CallHolds(d)
  BY <1>3, <1>5, <1>6, <1>7 DEF CallHolds
<1> HIDE DEF d
<1> QED
  BY <1>2, <1>8, BecomeHolds

(* What a call remembers of grants and of other registrations does not      *)
(* touch what it has passed.                                               *)
LEMMA FlagsHold ==
    ASSUME NEW c, CallHolds(c), NEW b \in BOOLEAN
    PROVE  CallHolds([c EXCEPT !.open = b]) /\ CallHolds([c EXCEPT !.disturbed = b])
<1> DEFINE d == [c EXCEPT !.open = b]
           e == [c EXCEPT !.disturbed = b]
<1>1. c \in CallRow
  BY DEF CallHolds
<1>2. /\ d \in CallRow /\ d.step = c.step /\ d.number = c.number /\ d.token = c.token
      /\ d.op = c.op /\ d.answer = c.answer
  BY <1>1 DEF CallRow
<1>3. /\ e \in CallRow /\ e.step = c.step /\ e.number = c.number /\ e.token = c.token
      /\ e.op = c.op /\ e.answer = c.answer
  BY <1>1 DEF CallRow
<1> HIDE DEF d, e
<1>4. CallHolds(d)
  BY <1>2 DEF CallHolds, Served, Admitted, Passed, Acts
<1>5. CallHolds(e)
  BY <1>3 DEF CallHolds, Served, Admitted, Passed, Acts
<1> QED
  BY <1>4, <1>5 DEF d, e

(* A call begins.                                                          *)
LEMMA BeginHolds ==
    ASSUME CallInv, NEW w \in Workers, NEW t \in Tokens, NEW op \in Reads \cup Writes, Begin(w, t, op)
    PROVE  /\ call' \in [Workers -> CallRow]
           /\ \A v \in Workers : CallHolds(call'[v])
<1>1. PICK b \in BOOLEAN :
         Become(w, [Idle EXCEPT !.step = "resolve", !.number = calls + 1, !.token = t, !.op = op, !.open = b])
  BY DEF Begin
<1> DEFINE d == [Idle EXCEPT !.step = "resolve", !.number = calls + 1, !.token = t, !.op = op, !.open = b]
<1>2. calls + 1 \in 1..MaxCalls /\ calls + 1 \in 0..MaxCalls
  BY WorkspaceAssumption DEF Begin, CallInv, TypeOK
<1>3. Idle \in CallRow /\ Idle.answer = {}
  BY IdleHolds DEF CallHolds, Idle
<1>4. /\ d \in CallRow /\ d.step = "resolve" /\ d.number = calls + 1 /\ d.token = t /\ d.op = op
      /\ d.answer = {}
  BY <1>2, <1>3 DEF CallRow, Steps
<1> HIDE DEF d
<1>5. CallHolds(d)
  BY <1>2, <1>4 DEF CallHolds, Served, Admitted, Passed, Reading
<1> QED
  BY <1>1, <1>5, BecomeHolds DEF d

(* A session resolves: the call is refused, is admitted, or marks its      *)
(* grant first.                                                            *)
LEMMA ResolveHolds ==
    ASSUME CallInv, NEW w \in Workers, Resolve(w)
    PROVE  /\ call' \in [Workers -> CallRow]
           /\ \A v \in Workers : CallHolds(call'[v])
<1> DEFINE t == call[w].token
<1>1. call[w].step = "resolve" /\ t \in Tokens
  BY ServedShape DEF Resolve
<1>2. CASE Become(w, Idle)
  BY <1>2, BecomeHolds, IdleHolds
<1>3. CASE Admit(w, ActorOf(t))
  BY <1>1, <1>3, AdmitHolds DEF Acts
<1>4. CASE t.grant # None /\ \E s \in {"markExpired", "markReview"} : Go(w, s)
  <2>1. t.grant \in Grants
    BY <1>1, <1>4, TokenActs
  <2> QED
    BY <1>1, <1>4, <2>1, GoHolds DEF Steps, Reading
<1> QED
  BY <1>2, <1>3, <1>4 DEF Resolve

(* The gate of a record, its audit, and the audit of a read.               *)
LEMMA GateHolds ==
    ASSUME CallInv, NEW w \in Workers, PassGate(w) \/ AuditGate(w) \/ Audit(w)
    PROVE  /\ call' \in [Workers -> CallRow]
           /\ \A v \in Workers : CallHolds(call'[v])
<1>1. call[w].step # "idle" => CallHolds(call[w])
  BY ServedShape
<1>2. CASE PassGate(w)
  <2>1. CASE call[w].op.on \notin Gate(ActorOf(call[w].token), call[w].op.key)
    BY <1>2, <2>1, BecomeHolds, IdleHolds DEF PassGate
  <2>2. CASE call[w].op.on \in Gate(ActorOf(call[w].token), call[w].op.key)
    <3>1. PICK s \in {"gateAudit", "load"} : Go(w, s)
      BY <1>2, <2>2 DEF PassGate
    <3> QED
      BY <1>1, <1>2, <2>2, <3>1, GoHolds DEF PassGate, Acts, Steps, Reading, CallHolds, Passed
  <2> QED
    BY <2>1, <2>2
<1>3. CASE AuditGate(w)
  BY <1>1, <1>3, GoHolds DEF AuditGate, Steps, Reading, CallHolds, Passed
<1>4. CASE Audit(w)
  BY <1>1, <1>4, GoHolds DEF Audit, Steps, Reading, CallHolds, Passed
<1> QED
  BY <1>2, <1>3, <1>4

(* The rows are read.                                                      *)
LEMMA LoadHolds ==
    ASSUME CallInv, NEW w \in Workers, Load(w)
    PROVE  /\ call' \in [Workers -> CallRow]
           /\ \A v \in Workers : CallHolds(call'[v])
<1> DEFINE c == call[w]
           rows == RowsOf(Acts(c), c.op)
<1>1. /\ c.step = "load" /\ c \in CallRow /\ CallHolds(c) /\ c.token \in Tokens
      /\ c.op \in Reads \cup Writes /\ c.number \in 1..MaxCalls /\ Acts(c) \in Actors
  BY ServedShape DEF Load
<1>2. MayDo(Acts(c), c.token.role, c.op) /\ c.op.kind \notin Mutations
  BY <1>1 DEF CallHolds, Admitted, Reading
<1>3. rows \subseteq Database
  BY <1>1, <1>2, RowsVisible DEF Visible
<1>4. CASE c.op.kind = "detail" /\ rows = {}
  BY <1>4, BecomeHolds, IdleHolds DEF Load, Acts
<1>5. CASE ~(c.op.kind = "detail" /\ rows = {})
  <2>1. PICK s \in {"audit", "answered"} : Become(w, [c EXCEPT !.answer = rows, !.step = s])
    BY <1>5 DEF Load, Acts
  <2> DEFINE d == [c EXCEPT !.answer = rows, !.step = s]
  <2>2. /\ d \in CallRow /\ d.step = s /\ d.number = c.number /\ d.token = c.token
        /\ d.op = c.op /\ d.answer = rows
    BY <1>1, <1>3 DEF CallRow, Steps
  <2>3. Acts(d) = Acts(c)
    BY <2>2 DEF Acts
  <2> HIDE DEF d
  <2>4. Served(d) /\ Admitted(d)
    BY <1>1, <2>2, <2>3 DEF Served, Admitted, CallHolds, Reading
  <2>5. Passed(d)
    BY <1>1, <1>5, <2>2, <2>3 DEF CallHolds, Passed
  <2> QED
    BY <2>1, <2>2, <2>4, <2>5, BecomeHolds DEF CallHolds, d
<1> QED
  BY <1>4, <1>5

(* A registration clears the defaults it sees, and goes on to its commit.  *)
LEMMA ClearHolds ==
    ASSUME CallInv, NEW w \in Workers, ClearDefaults(w)
    PROVE  /\ call' \in [Workers -> CallRow]
           /\ \A v \in Workers : CallHolds(call'[v])
<1> DEFINE c == call[w]
           seen == Registered(ActorOf(c.token).organization)
           d == [c EXCEPT !.step = "commit", !.seen = seen]
<1>1. /\ c.step = "clear" /\ c \in CallRow /\ CallHolds(c) /\ c.token \in Tokens
      /\ c.op \in Reads \cup Writes /\ c.number \in 1..MaxCalls
  BY ServedShape DEF ClearDefaults
<1>2. Become(w, d)
  BY DEF ClearDefaults
<1>3. seen \subseteq Addresses
  BY DEF Registered
<1>4. /\ d \in CallRow /\ d.step = "commit" /\ d.number = c.number /\ d.token = c.token
      /\ d.op = c.op /\ d.answer = c.answer
  BY <1>1, <1>3 DEF CallRow, Steps
<1>5. Acts(d) = Acts(c)
  BY <1>4 DEF Acts
<1> HIDE DEF d
<1>6. Served(d) /\ Admitted(d)
  BY <1>1, <1>4, <1>5 DEF Served, Admitted, CallHolds, Reading
<1>7. Passed(d)
  BY <1>1, <1>4 DEF CallHolds, Passed
<1> QED
  BY <1>2, <1>4, <1>6, <1>7, BecomeHolds DEF CallHolds

(* Whatever happens, every call holds what it has passed.                  *)
LEMMA CallsHold ==
    ASSUME CallInv, [Next]_vars
    PROVE  /\ call' \in [Workers -> CallRow]
           /\ \A v \in Workers : CallHolds(call'[v])
<1>1. CASE UNCHANGED call
  BY <1>1 DEF CallInv, TypeOK
<1>2. CASE \E w \in Workers, t \in Tokens, op \in Reads \cup Writes : Begin(w, t, op)
  BY <1>2, BeginHolds
<1>3. ASSUME NEW w \in Workers, Become(w, Idle)
      PROVE  /\ call' \in [Workers -> CallRow]
             /\ \A v \in Workers : CallHolds(call'[v])
  BY <1>3, BecomeHolds, IdleHolds
<1>4. ASSUME NEW w \in Workers, CommitWallet(w)
      PROVE  /\ call' \in [Workers -> CallRow]
             /\ \A v \in Workers : CallHolds(call'[v])
  <2>1. PICK disturbs \in [Workers -> BOOLEAN] :
           call' = [v \in Workers |-> IF v = w THEN Idle ELSE [call[v] EXCEPT !.disturbed = disturbs[v]]]
    <3> DEFINE default == call[w].op.kind = "registerDefault"
               o == ActorOf(call[w].token).organization
               flags == [v \in Workers |-> call[v].disturbed \/ (default /\ Disturb(v, w, o))]
    <3>1. \A v \in Workers : call[v].disturbed \in BOOLEAN
      BY DEF CallInv, TypeOK, CallRow
    <3>2. flags \in [Workers -> BOOLEAN]
      BY <3>1 DEF Disturb
    <3>3. call' = [v \in Workers |-> IF v = w THEN Idle ELSE [call[v] EXCEPT !.disturbed = flags[v]]]
      BY <1>4 DEF CommitWallet
    <3> HIDE DEF flags
    <3> QED
      BY <3>2, <3>3
  <2>2. ASSUME NEW v \in Workers PROVE CallHolds(call'[v])
    <3>1. call'[v] = IF v = w THEN Idle ELSE [call[v] EXCEPT !.disturbed = disturbs[v]]
      BY <2>1
    <3>2. CallHolds(call[v])
      BY DEF CallInv
    <3> QED
      BY <3>1, <3>2, IdleHolds, FlagsHold
  <2>3. \A v \in Workers : call'[v] \in CallRow
    BY <2>2 DEF CallHolds
  <2> QED
    BY <2>1, <2>2, <2>3
<1>5. ASSUME NEW g \in Grants, Recertify(g)
      PROVE  /\ call' \in [Workers -> CallRow]
             /\ \A v \in Workers : CallHolds(call'[v])
  <2>1. \A v \in Workers : call[v].open \in BOOLEAN
    BY DEF CallInv, TypeOK, CallRow
  <2>2. call' = [v \in Workers |->
                    [call[v] EXCEPT !.open = call[v].open \/ (call[v] # Idle /\ call[v].token.grant = g)]]
    BY <1>5 DEF Recertify
  <2>3. ASSUME NEW v \in Workers PROVE CallHolds(call'[v])
    <3>1. PICK b \in BOOLEAN : call'[v] = [call[v] EXCEPT !.open = b]
      BY <2>1, <2>2
    <3>2. CallHolds(call[v])
      BY DEF CallInv
    <3> QED
      BY <3>1, <3>2, FlagsHold
  <2>4. \A v \in Workers : call'[v] \in CallRow
    BY <2>3 DEF CallHolds
  <2> QED
    BY <2>2, <2>3, <2>4
<1>6. ASSUME NEW w \in Workers, Proceed(w)
      PROVE  /\ call' \in [Workers -> CallRow]
             /\ \A v \in Workers : CallHolds(call'[v])
  <2>1. CASE Mark(w) \/ Finish(w) \/ CommitVerdict(w) \/ CreateService(w) \/ UpdateService(w)
    BY <2>1, <1>3 DEF Mark, Finish, CommitVerdict, CreateService, UpdateService, WriteService
  <2>2. CASE Resolve(w)
    BY <2>2, ResolveHolds
  <2>3. CASE PassGate(w) \/ AuditGate(w) \/ Audit(w)
    BY <2>3, GateHolds
  <2>4. CASE Load(w)
    BY <2>4, LoadHolds
  <2>5. CASE ClearDefaults(w)
    BY <2>5, ClearHolds
  <2>6. CASE CommitWallet(w)
    BY <2>6, <1>4
  <2> QED
    BY <1>6, <2>1, <2>2, <2>3, <2>4, <2>5, <2>6 DEF Proceed
<1>7. CASE Elsewhere
  BY <1>1, <1>5, <1>7 DEF Elsewhere, FallDue, Revoke, EndSession
<1> QED
  BY <1>1, <1>2, <1>6, <1>7 DEF Next, vars

(* A call that commits is of an actor of its own, in the organization the   *)
(* token is of: a tenant that writes its own, or the operators' verdict.   *)
LEMMA CommitShape ==
    ASSUME CallInv, NEW w \in Workers, call[w].step \in {"clear", "commit"}
    PROVE  /\ call[w].token.grant = None
           /\ Acts(call[w]).organization = call[w].token.organization
           /\ call[w].op.kind # "verify" => Acts(call[w]).organization \in Tenants
           /\ call[w].op.kind = "verify" =>
                 /\ Acts(call[w]).organization = Operator
                 /\ call[w].op.on \in Tenants /\ call[w].op.key \in Addresses
           /\ call[w].op.kind \in {"register", "registerDefault"} => call[w].op.key \in Addresses
           /\ call[w].op.kind \in {"createService", "updateService"} => call[w].op.key \in ServiceKeys
           /\ call[w].op.kind = "updateService" => call[w].op.on \in ServiceIds
<1> DEFINE c == call[w]
           a == Acts(c)
<1>1. /\ CallHolds(c) /\ c.token \in Tokens /\ c.op \in Reads \cup Writes /\ a \in Actors
  BY ServedShape
<1>2. /\ c.op.workspace = a.workspace /\ MayDo(a, c.token.role, c.op) /\ c.op.kind \in Mutations
  BY <1>1 DEF CallHolds, Admitted
<1>3. ~IsSupport(a)
  BY <1>2 DEF MayDo, Mutations
<1>4. c.token.grant = None /\ a.organization = c.token.organization
  BY <1>1, <1>3, TokenActs DEF Acts, IsSupport
<1>5. c.op.kind # "verify" => a.organization \in Tenants
  BY <1>1, <1>2, OpShape, ActorShape DEF Mutations, Tenants
<1>6. c.op.kind = "verify" => a.organization = Operator
  BY <1>1, <1>2, OpShape, ActorShape
<1> QED
  BY <1>1, <1>4, <1>5, <1>6, OpShape

(* A wallet or a service is written in its shape.                          *)
LEMMA WalletShape ==
    ASSUME CallInv, NEW w \in Workers, CommitWallet(w)
    PROVE  wallets' \in [Tenants -> [Addresses -> Wallet \cup {NoWallet}]] /\ quiet' \in [Tenants -> BOOLEAN]
<1> DEFINE c == call[w]
           o == Acts(c).organization
           default == c.op.kind = "registerDefault"
           held == RegisteredBy(o, c.op.key, default, c.seen)
<1>1. o \in Tenants /\ c.op.key \in Addresses /\ c.disturbed \in BOOLEAN
  BY CommitShape DEF CommitWallet, CallInv, TypeOK, CallRow
<1>2. /\ wallets' = [wallets EXCEPT ![o] = held]
      /\ quiet' = [quiet EXCEPT ![o] = IF default THEN ~c.disturbed ELSE @]
  BY DEF CommitWallet, Acts
<1>3. wallets \in [Tenants -> [Addresses -> Wallet \cup {NoWallet}]] /\ quiet \in [Tenants -> BOOLEAN]
  BY DEF CallInv, TypeOK
<1>4. ASSUME NEW y \in Addresses PROVE held[y] \in Wallet \cup {NoWallet}
  <2>1. wallets[o][y] \in Wallet \cup {NoWallet}
    BY <1>1, <1>3
  <2>2. CASE y = c.op.key
    <3>1. held[y] = [isDefault |-> default, status |-> "PENDING"]
      BY <2>2 DEF RegisteredBy
    <3>2. \A b \in BOOLEAN : [isDefault |-> b, status |-> "PENDING"] \in Wallet
      BY DEF Wallet, WalletStatuses
    <3>3. default \in BOOLEAN
      OBVIOUS
    <3> HIDE DEF default
    <3> QED
      BY <3>1, <3>2, <3>3
  <2>3. CASE y # c.op.key /\ y \in c.seen
    <3>1. held[y] = [wallets[o][y] EXCEPT !.isDefault = FALSE]
      BY <2>3 DEF RegisteredBy
    <3>2. \A h \in Wallet : [h EXCEPT !.isDefault = FALSE] \in Wallet
      BY DEF Wallet
    <3>3. [NoWallet EXCEPT !.isDefault = FALSE] = NoWallet
      <4>1. \A h \in {NoWallet} : [h EXCEPT !.isDefault = h.isDefault] = h
        BY DEF NoWallet
      <4>2. NoWallet.isDefault = FALSE
        BY DEF NoWallet
      <4> QED
        BY <4>1, <4>2
    <3> QED
      BY <2>1, <3>1, <3>2, <3>3
  <2>4. CASE y # c.op.key /\ y \notin c.seen
    BY <2>1, <2>4 DEF RegisteredBy
  <2> QED
    BY <2>2, <2>3, <2>4
<1>5. held \in [Addresses -> Wallet \cup {NoWallet}]
  BY <1>4 DEF RegisteredBy
<1> HIDE DEF held
<1>6. wallets' \in [Tenants -> [Addresses -> Wallet \cup {NoWallet}]]
  BY <1>1, <1>2, <1>3, <1>5
<1>7. quiet' \in [Tenants -> BOOLEAN]
  BY <1>1, <1>2, <1>3
<1> QED
  BY <1>6, <1>7

(* A verdict leaves the wallets well typed.                                *)
LEMMA VerdictShape ==
    ASSUME CallInv, NEW w \in Workers, CommitVerdict(w)
    PROVE  wallets' \in [Tenants -> [Addresses -> Wallet \cup {NoWallet}]]
<1> DEFINE o == call[w].op.on
           x == call[w].op.key
<1>1. o \in Tenants /\ x \in Addresses
  BY CommitShape DEF CommitVerdict
<1>2. wallets \in [Tenants -> [Addresses -> Wallet \cup {NoWallet}]]
  BY DEF CallInv, TypeOK
<1>3. CASE UNCHANGED wallets
  BY <1>2, <1>3
<1>4. ASSUME NEW s \in WalletStatuses, wallets[o][x] # NoWallet, wallets' = [wallets EXCEPT ![o][x].status = s]
      PROVE  wallets' \in [Tenants -> [Addresses -> Wallet \cup {NoWallet}]]
  <2>1. wallets[o][x] \in Wallet
    BY <1>1, <1>2, <1>4
  <2>2. [wallets[o][x] EXCEPT !.status = s] \in Wallet
    BY <2>1 DEF Wallet
  <2>3. wallets' = [wallets EXCEPT ![o] = [wallets[o] EXCEPT ![x] = [wallets[o][x] EXCEPT !.status = s]]]
    BY <1>4
  <2>4. [wallets[o] EXCEPT ![x] = [wallets[o][x] EXCEPT !.status = s]] \in [Addresses -> Wallet \cup {NoWallet}]
    BY <1>1, <1>2, <2>2
  <2> QED
    BY <1>1, <1>2, <2>3, <2>4
<1> QED
  BY <1>3, <1>4 DEF CommitVerdict

(* A service that is written is the writer's own.                          *)
LEMMA ServiceWritten ==
    ASSUME CallInv, NEW w \in Workers, CreateService(w) \/ UpdateService(w)
    PROVE  /\ UNCHANGED <<grants, ended, calls, audits, wallets, quiet>>
           /\ Acts(call[w]).organization \in Tenants /\ call[w].op.key \in ServiceKeys
           /\ call[w].step = "commit" /\ call[w].op.kind \in {"createService", "updateService"}
           /\ \E v \in ServiceIds :
                 /\ services[v].organization \in {None, Acts(call[w]).organization}
                 /\ \/ UNCHANGED services
                    \/ services' = [services EXCEPT ![v] = [organization |-> Acts(call[w]).organization,
                                                            key |-> call[w].op.key]]
<1>1. /\ call[w].step = "commit" /\ call[w].op.kind \in {"createService", "updateService"}
  BY DEF CreateService, UpdateService
<1>2. /\ Acts(call[w]).organization \in Tenants /\ call[w].op.key \in ServiceKeys
      /\ call[w].op.kind = "updateService" => call[w].op.on \in ServiceIds
  BY <1>1, CommitShape
<1>3. PICK v \in ServiceIds :
         /\ services[v].organization \in {None, Acts(call[w]).organization}
         /\ WriteService(w, v)
  BY <1>2 DEF CreateService, UpdateService, OwnService, Acts, NoService
<1> QED
  BY <1>1, <1>2, <1>3 DEF WriteService, Acts

(* Type correctness is inductive together with what the calls have passed. *)
LEMMA CallInvStep == CallInv /\ [Next]_vars => CallInv'
<1> SUFFICES ASSUME CallInv, [Next]_vars PROVE CallInv'
  OBVIOUS
<1>1. /\ call' \in [Workers -> CallRow]
      /\ \A v \in Workers : CallHolds(call'[v])
  BY CallsHold
<1>2. /\ grants \in [Grants -> GrantRow] /\ ended \in SUBSET Tokens /\ calls \in 0..MaxCalls
      /\ audits \in SUBSET [call : 1..MaxCalls, organization : Organizations, grant : Grants \cup {None}]
      /\ wallets \in [Tenants -> [Addresses -> Wallet \cup {NoWallet}]]
      /\ services \in [ServiceIds -> Service \cup {NoService}]
      /\ quiet \in [Tenants -> BOOLEAN]
  BY DEF CallInv, TypeOK
<1> SUFFICES /\ grants' \in [Grants -> GrantRow] /\ ended' \in SUBSET Tokens /\ calls' \in 0..MaxCalls
             /\ audits' \in SUBSET [call : 1..MaxCalls, organization : Organizations,
                                    grant : Grants \cup {None}]
             /\ wallets' \in [Tenants -> [Addresses -> Wallet \cup {NoWallet}]]
             /\ services' \in [ServiceIds -> Service \cup {NoService}]
             /\ quiet' \in [Tenants -> BOOLEAN]
  BY <1>1 DEF CallInv, TypeOK
<1>3. CASE UNCHANGED <<grants, ended, calls, audits, wallets, services, quiet>>
  BY <1>2, <1>3
<1>4. CASE \E w \in Workers, t \in Tokens, op \in Reads \cup Writes : Begin(w, t, op)
  <2>1. calls' \in 0..MaxCalls
    BY <1>2, <1>4, WorkspaceAssumption DEF Begin
  <2> QED
    BY <1>2, <1>4, <2>1 DEF Begin, written
<1>5. ASSUME NEW w \in Workers, Resolve(w) \/ PassGate(w) \/ Load(w) \/ Finish(w) \/ ClearDefaults(w)
      PROVE  UNCHANGED <<grants, ended, calls, audits, wallets, services, quiet>>
  BY <1>5 DEF Resolve, PassGate, Load, Finish, ClearDefaults, written
<1>6. ASSUME NEW w \in Workers, Mark(w)
      PROVE  /\ grants' \in [Grants -> GrantRow]
             /\ UNCHANGED <<ended, calls, audits, wallets, services, quiet>>
  <2>1. call[w].token.grant \in Grants
    BY <1>6, ServedShape DEF Mark, CallHolds, Served
  <2>2. PICK s \in {"EXPIRED", "RECERTIFICATION_REQUIRED"} :
           grants' = [grants EXCEPT ![call[w].token.grant].status = s]
    BY <1>6 DEF Mark
  <2> QED
    BY <1>2, <1>6, <2>1, <2>2 DEF Mark, written, GrantRow
<1>7. ASSUME NEW w \in Workers, AuditGate(w) \/ Audit(w)
      PROVE  /\ audits' \in SUBSET [call : 1..MaxCalls, organization : Organizations,
                                    grant : Grants \cup {None}]
             /\ UNCHANGED <<grants, ended, calls, wallets, services, quiet>>
  <2>1. call[w].number \in 1..MaxCalls /\ Acts(call[w]) \in Actors
    BY <1>7, ServedShape DEF AuditGate, Audit
  <2>2. AuditRow(w) \in [call : 1..MaxCalls, organization : Organizations, grant : Grants \cup {None}]
    BY <2>1, ActorShape DEF AuditRow, Acts
  <2> QED
    BY <1>2, <1>7, <2>2 DEF AuditGate, Audit, FileAudit, written
<1>8. ASSUME NEW w \in Workers, CommitWallet(w) \/ CommitVerdict(w)
      PROVE  /\ wallets' \in [Tenants -> [Addresses -> Wallet \cup {NoWallet}]]
             /\ quiet' \in [Tenants -> BOOLEAN]
             /\ UNCHANGED <<grants, ended, calls, audits, services>>
  BY <1>2, <1>8, WalletShape, VerdictShape DEF CommitWallet, CommitVerdict
<1>9. ASSUME NEW w \in Workers, CreateService(w) \/ UpdateService(w)
      PROVE  /\ services' \in [ServiceIds -> Service \cup {NoService}]
             /\ UNCHANGED <<grants, ended, calls, audits, wallets, quiet>>
  <2>1. [organization |-> Acts(call[w]).organization, key |-> call[w].op.key] \in Service
    BY <1>9, ServiceWritten DEF Service
  <2> QED
    BY <1>2, <1>9, <2>1, ServiceWritten
<1>10. ASSUME NEW g \in Grants, FallDue(g) \/ Revoke(g) \/ Recertify(g)
       PROVE  /\ grants' \in [Grants -> GrantRow]
              /\ UNCHANGED <<ended, calls, audits, wallets, services, quiet>>
  <2>1. PICK row \in GrantRow : ChangeGrant(g, row)
    BY <1>2, <1>10 DEF FallDue, Revoke, Recertify, GrantRow
  <2> QED
    BY <1>2, <2>1 DEF ChangeGrant, written
<1>11. CASE \E t \in Tokens : EndSession(t)
  BY <1>2, <1>11 DEF EndSession, written
<1>12. CASE \E w \in Workers : Proceed(w)
  BY <1>2, <1>3, <1>5, <1>6, <1>7, <1>8, <1>9, <1>12 DEF Proceed
<1>13. CASE Elsewhere
  BY <1>2, <1>10, <1>11, <1>13 DEF Elsewhere
<1> QED
  BY <1>3, <1>4, <1>12, <1>13 DEF Next, vars

(* No call has passed anything at first.                                   *)
LEMMA CallsStart == Init => CallInv
<1> SUFFICES ASSUME Init PROVE CallInv
  OBVIOUS
<1>1. call \in [Workers -> CallRow] /\ \A w \in Workers : CallHolds(call[w])
  BY IdleHolds DEF Init, CallHolds
<1>2. /\ grants \in [Grants -> GrantRow] /\ ended \in SUBSET Tokens
      /\ wallets \in [Tenants -> [Addresses -> Wallet \cup {NoWallet}]]
      /\ services \in [ServiceIds -> Service \cup {NoService}]
      /\ quiet \in [Tenants -> BOOLEAN]
  BY DEF Init, GrantRow
<1>3. calls \in 0..MaxCalls /\ audits = {}
  BY WorkspaceAssumption DEF Init
<1> QED
  BY <1>1, <1>2, <1>3 DEF CallInv, TypeOK

(* Every call holds what it has passed, from the start and for ever.       *)
THEOREM CallsHoldAlways == Spec => []CallInv
BY CallsStart, CallInvStep, PTL DEF Spec

(* Every variable keeps its type: grants, calls with their actor's answer,  *)
(* the audits on file, wallets and services.                               *)
THEOREM TypeCorrect == Spec => []TypeOK
<1>1. CallInv => TypeOK
  BY DEF CallInv
<1> QED
  BY <1>1, CallsHoldAlways, PTL

(* Tenancy: for any tenants, requests and tokens, every row of every answer *)
(* concerns the organization that the call acts for, unless an operator     *)
(* asked on a session of its own.                                          *)
THEOREM TenantAnswers == Spec => []AnswersStayInTenant
<1>1. CallInv => AnswersStayInTenant
  <2> SUFFICES ASSUME CallInv, NEW w \in Workers, NEW r \in call[w].answer
               PROVE  LET t == call[w].token IN
                      \/ t.grant = None /\ t.organization = Operator
                      \/ Concerns(r, IF t.grant = None THEN t.organization ELSE TargetOf[t.grant])
    BY DEF AnswersStayInTenant
  <2> DEFINE c == call[w]
  <2>1. CallHolds(c)
    BY DEF CallInv
  <2>2. c.step \in {"audit", "answered"} /\ r \in RowsOf(Acts(c), c.op)
    BY <2>1 DEF CallHolds, Passed
  <2>3. c.token \in Tokens /\ c.op \in Reads \cup Writes /\ Acts(c) \in Actors
    BY <2>2, ServedShape
  <2>4. MayDo(Acts(c), c.token.role, c.op) /\ c.op.kind \notin Mutations
    BY <2>1, <2>2 DEF CallHolds, Admitted, Reading
  <2>5. Acts(c).workspace = "OPERATOR" \/ Concerns(r, Acts(c).organization)
    BY <2>2, <2>3, <2>4, RowsVisible DEF Visible
  <2> QED
    BY <2>3, <2>5, TokenActs DEF Acts
<1> QED
  BY <1>1, CallsHoldAlways, PTL

(* Every link of an answered page to one of its records leads to a record   *)
(* that its actor may open: whoever sees a row on a surface it has passes   *)
(* the gate and the read of that row.  A card of the demo opens for the     *)
(* buyer of its request, and for nobody else.                               *)
THEOREM FollowedLinks == Spec => []LinksOpen
<1>1. CallInv => LinksOpen
  <2> SUFFICES ASSUME CallInv, NEW w \in Workers, call[w].step = "answered"
               PROVE  LET b == ActorOf(call[w].token) IN
                      /\ \A r \in LinksOf(b, call[w].op) : Opens(b, r)
                      /\ \A q \in CardsOf(b, call[w].op) : CardOpens(b, q) <=> BuyerOf[q] = b.organization
    BY DEF LinksOpen
  <2> DEFINE c == call[w]
             a == ActorOf(c.token)
  <2>1. CallHolds(c) /\ c.op \in Reads \cup Writes /\ a \in Actors
    BY ServedShape DEF Acts
  <2>2. MayDo(a, c.token.role, c.op)
    BY <2>1 DEF CallHolds, Admitted, Reading, Acts
  <2>3. ASSUME NEW r \in LinksOf(a, c.op) PROVE Opens(a, r)
    <3>1. CASE c.op.kind \in {"surface", "list"}
      <4>1. c.op.key \in DOMAIN Lists(a)
        BY <2>2, <3>1 DEF MayDo
      <4>2. r \in ActivityLinks(a) \cup ItemLinks(a, c.op.key)
        BY <2>3, <3>1 DEF LinksOf
      <4> QED
        BY <2>1, <4>1, <4>2, ListLinksOpen
    <3>2. CASE c.op.kind = "detail"
      <4>1. c.op.on \in Database /\ c.op.on.table \in DetailTables
        BY <2>1, <3>2, OpShape
      <4>2. Detail(a, c.op.on) # {}
        BY <2>1, <3>2 DEF CallHolds, Passed, RowsOf, Acts
      <4>3. r \in DetailLinks(a, c.op.on)
        BY <2>3, <3>2 DEF LinksOf
      <4> QED
        BY <2>1, <4>1, <4>2, <4>3, DetailLinksOpen
    <3>3. CASE c.op.kind \notin {"surface", "list", "detail"}
      BY <2>3, <3>3 DEF LinksOf
    <3> QED
      BY <3>1, <3>2, <3>3
  <2>4. \A q \in CardsOf(a, c.op) : CardOpens(a, q) <=> BuyerOf[q] = a.organization
    BY <2>1, CardsShowRequests, CardsOpen
  <2> QED
    BY <2>3, <2>4
<1> QED
  BY <1>1, CallsHoldAlways, PTL

-----------------------------------------------------------------------------
(* Writes.                                                                 *)

(* A verdict changes no wallet's flag and makes or removes none.           *)
LEMMA VerdictKeeps ==
    ASSUME CallInv, NEW w \in Workers, CommitVerdict(w), NEW o \in Tenants, NEW x \in Addresses
    PROVE  /\ wallets[o][x].isDefault = wallets'[o][x].isDefault
           /\ (wallets[o][x] = NoWallet) = (wallets'[o][x] = NoWallet)
<1> DEFINE c == call[w]
           h == wallets[c.op.on][c.op.key]
<1>1. c.op.on \in Tenants /\ c.op.key \in Addresses
  BY CommitShape DEF CommitVerdict
<1>2. CASE UNCHANGED wallets
  BY <1>2
<1>3. ASSUME NEW s \in WalletStatuses, h # NoWallet, wallets' = [wallets EXCEPT ![c.op.on][c.op.key].status = s]
      PROVE  /\ wallets[o][x].isDefault = wallets'[o][x].isDefault
             /\ (wallets[o][x] = NoWallet) = (wallets'[o][x] = NoWallet)
  <2>1. wallets \in [Tenants -> [Addresses -> Wallet \cup {NoWallet}]]
    BY DEF CallInv, TypeOK
  <2>2. h \in Wallet
    <3>1. wallets[c.op.on] \in [Addresses -> Wallet \cup {NoWallet}]
      BY <1>1, <2>1
    <3>2. h \in Wallet \cup {NoWallet}
      BY <1>1, <3>1
    <3> QED
      BY <1>3, <3>2
  <2>3. [h EXCEPT !.status = s].isDefault = h.isDefault /\ [h EXCEPT !.status = s].status = s
    BY <2>2 DEF Wallet
  <2>4. NoWallet.status \notin WalletStatuses
    BY DEF NoWallet, WalletStatuses
  <2>5. wallets'[o][x] = IF o = c.op.on /\ x = c.op.key THEN [h EXCEPT !.status = s] ELSE wallets[o][x]
    BY <1>1, <1>3, <2>1
  <2> HIDE DEF h
  <2>6. CASE o = c.op.on /\ x = c.op.key
    <3>1. wallets[o][x] = h
      BY <2>6 DEF h
    <3>2. wallets'[o][x] = [h EXCEPT !.status = s]
      BY <2>5, <2>6
    <3>3. wallets'[o][x] # NoWallet
      BY <2>3, <2>4, <3>2
    <3> QED
      BY <1>3, <2>3, <3>1, <3>2, <3>3
  <2>7. CASE ~(o = c.op.on /\ x = c.op.key)
    BY <2>5, <2>7
  <2> QED
    BY <2>6, <2>7
<1> QED
  BY <1>2, <1>3 DEF CommitVerdict

(* A tenant's wallets change by a registration of its own or by a verdict   *)
(* of the operators, which touches nothing but the status.                 *)
LEMMA WalletWrites ==
    ASSUME CallInv, NEW w \in Workers, CommitWallet(w) \/ CommitVerdict(w),
           NEW o \in Tenants, wallets'[o] # wallets[o]
    PROVE  ByItself(o) \/ ByVerdict(o)
<1> DEFINE c == call[w]
<1>1. wallets \in [Tenants -> [Addresses -> Wallet \cup {NoWallet}]]
  BY DEF CallInv, TypeOK
<1>2. CASE CommitWallet(w)
  <2>1. wallets' = [wallets EXCEPT ![Acts(c).organization] =
                       RegisteredBy(Acts(c).organization, c.op.key, c.op.kind = "registerDefault", c.seen)]
    BY <1>2 DEF CommitWallet, Acts
  <2>2. o = Acts(c).organization
    BY <1>1, <2>1
  <2>3. c.step = "commit" /\ c.token.grant = None /\ c.token.organization = o
    BY <1>2, <2>2, CommitShape DEF CommitWallet
  <2> QED
    BY <2>3 DEF ByItself
<1>3. CASE CommitVerdict(w)
  <2>1. c.step = "commit" /\ c.token.grant = None /\ c.token.organization = Operator
    BY <1>3, CommitShape DEF CommitVerdict
  <2> QED
    BY <1>3, <2>1, VerdictKeeps DEF ByVerdict
<1> QED
  BY <1>2, <1>3

(* A service that changes was or becomes a service of its writer.          *)
LEMMA ServiceWrites ==
    ASSUME CallInv, NEW w \in Workers, CreateService(w) \/ UpdateService(w),
           NEW o \in Tenants, NEW u \in ServicesOf(o) \cup ServicesOf(o)', services'[u] # services[u]
    PROVE  ByItself(o)
<1> DEFINE c == call[w]
           home == Acts(c).organization
<1>1. /\ c.step = "commit" /\ home \in Tenants
      /\ c.token.grant = None /\ c.token.organization = home
  BY ServiceWritten, CommitShape
<1>2. PICK v \in ServiceIds :
         /\ services[v].organization \in {None, home}
         /\ \/ UNCHANGED services
            \/ services' = [services EXCEPT ![v] = [organization |-> home, key |-> c.op.key]]
  BY ServiceWritten
<1>3. services \in [ServiceIds -> Service \cup {NoService}] /\ u \in ServiceIds
  BY DEF CallInv, TypeOK, ServicesOf
<1>4. services' = [services EXCEPT ![v] = [organization |-> home, key |-> c.op.key]] /\ u = v
  BY <1>2, <1>3
<1>5. services'[u].organization = home
  BY <1>3, <1>4
<1>6. o = home
  BY <1>2, <1>4, <1>5, TenantAssumption DEF ServicesOf, Organizations
<1> QED
  BY <1>1, <1>6 DEF ByItself

(* Wallets and services of a tenant are written by a session of its own     *)
(* alone, but for an operator's verdict on a wallet.                       *)
THEOREM HomeWrites == Spec => WritesStayHome
<1> DEFINE Written ==
       \A o \in Tenants :
          /\ wallets'[o] # wallets[o] => ByItself(o) \/ ByVerdict(o)
          /\ (\E v \in ServicesOf(o) \cup ServicesOf(o)' : services'[v] # services[v]) => ByItself(o)
<1>1. CallInv /\ [Next]_vars => [Written]_vars
  <2> SUFFICES ASSUME CallInv, Next PROVE Written
    BY DEF vars
  <2>1. CASE UNCHANGED <<wallets, services>>
    BY <2>1
  <2>2. ASSUME NEW w \in Workers, CommitWallet(w) \/ CommitVerdict(w) PROVE Written
    <3>1. UNCHANGED services
      BY <2>2 DEF CommitWallet, CommitVerdict
    <3> QED
      BY <2>2, <3>1, WalletWrites
  <2>3. ASSUME NEW w \in Workers, CreateService(w) \/ UpdateService(w) PROVE Written
    <3>1. UNCHANGED wallets
      BY <2>3, ServiceWritten
    <3> QED
      BY <2>3, <3>1, ServiceWrites
  <2>4. CASE \E w \in Workers, t \in Tokens, op \in Reads \cup Writes : Begin(w, t, op)
    BY <2>1, <2>4 DEF Begin, written
  <2>5. ASSUME NEW w \in Workers, Proceed(w) PROVE Written
    <3>1. CASE \/ Resolve(w) \/ Mark(w) \/ PassGate(w) \/ AuditGate(w) \/ Load(w) \/ Audit(w)
               \/ Finish(w) \/ ClearDefaults(w)
      <4>1. UNCHANGED written
        BY <3>1 DEF Resolve, Mark, PassGate, AuditGate, Load, Audit, Finish, ClearDefaults
      <4> QED
        BY <2>1, <4>1 DEF written
    <3> QED
      BY <2>2, <2>3, <2>5, <3>1 DEF Proceed
  <2>6. CASE Elsewhere
    <3>1. UNCHANGED written
      BY <2>6 DEF Elsewhere, FallDue, Revoke, Recertify, ChangeGrant, EndSession
    <3> QED
      BY <2>1, <3>1 DEF written
  <2> QED
    BY <2>4, <2>5, <2>6 DEF Next
<1> QED
  BY <1>1, CallsHoldAlways, PTL DEF Spec, WritesStayHome

-----------------------------------------------------------------------------
(* Support.                                                                *)

CanUse == [status |-> "ACTIVE", due |-> "CURRENT"]

(* A call that is let in, or goes on once it is, is accountable.           *)
LEMMA GoesAccountable ==
    ASSUME NEW c, NEW d, CallHolds(c), GrantRemembered(c, grants), ReadOnFile(c, audits), c.step # "idle",
           d.token = c.token, d.op = c.op, d.number = c.number, d.open = c.open,
           UNCHANGED grants,
           d.step \in Reading =>
              c.step \in Reading \/ c.token.grant = None \/ grants[c.token.grant] = CanUse,
           d.step = "answered" /\ Audited(Acts(c), c.op) => RowFor(c) \in audits'
    PROVE  GrantRemembered(d, grants') /\ ReadOnFile(d, audits')
<1>1. GrantRemembered(d, grants')
  BY DEF GrantRemembered, CanUse, Reading
<1>2. ReadOnFile(d, audits')
  BY DEF ReadOnFile, RowFor, Acts
<1> QED
  BY <1>1, <1>2

(* A call that is over has nothing to account for.                         *)
LEMMA IdleAccountable ==
    ASSUME NEW rows, NEW filed
    PROVE  GrantRemembered(Idle, rows) /\ ReadOnFile(Idle, filed)
BY DEF Idle, GrantRemembered, ReadOnFile, Reading

(* One call goes on, the others stay, and the grants rest.                 *)
LEMMA OneGoes ==
    ASSUME SupportInv, NEW w \in Workers, NEW d, Become(w, d), UNCHANGED grants, audits \subseteq audits',
           GrantRemembered(d, grants'), ReadOnFile(d, audits'), NEW v \in Workers
    PROVE  GrantRemembered(call'[v], grants') /\ ReadOnFile(call'[v], audits')
<1>1. call'[v] = IF v = w THEN d ELSE call[v]
  BY DEF Become, SupportInv, CallInv, TypeOK
<1>2. CallHolds(call[v]) /\ GrantRemembered(call[v], grants) /\ ReadOnFile(call[v], audits)
  BY DEF SupportInv, CallInv
<1>3. GrantRemembered(call[v], grants')
  BY <1>2 DEF GrantRemembered
<1>4. ReadOnFile(call[v], audits')
  BY <1>2 DEF ReadOnFile
<1> QED
  BY <1>1, <1>3, <1>4

(* A call moves by name of its step.                                       *)
LEMMA StepGoes ==
    ASSUME SupportInv, NEW w \in Workers, NEW s \in Steps, Go(w, s), UNCHANGED grants, audits \subseteq audits',
           call[w].step # "idle",
           s \in Reading => \/ call[w].step \in Reading \/ call[w].token.grant = None
                            \/ grants[call[w].token.grant] = CanUse,
           s = "answered" /\ Audited(Acts(call[w]), call[w].op) => RowFor(call[w]) \in audits',
           NEW v \in Workers
    PROVE  GrantRemembered(call'[v], grants') /\ ReadOnFile(call'[v], audits')
<1> DEFINE c == call[w]
           d == [c EXCEPT !.step = s]
<1>1. c \in CallRow /\ CallHolds(c) /\ GrantRemembered(c, grants) /\ ReadOnFile(c, audits)
  BY DEF SupportInv, CallInv, CallHolds
<1>2. d.step = s /\ d.token = c.token /\ d.op = c.op /\ d.number = c.number /\ d.open = c.open
  BY <1>1, GoShape
<1>3. GrantRemembered(d, grants') /\ ReadOnFile(d, audits')
  BY <1>1, <1>2, GoesAccountable
<1>4. Become(w, d)
  BY DEF Go
<1> HIDE DEF d
<1> QED
  BY <1>3, <1>4, OneGoes

(* The resolution of a support session lets a call in under a usable grant. *)
LEMMA ResolveAccountable ==
    ASSUME SupportInv, NEW w \in Workers, Resolve(w), NEW v \in Workers
    PROVE  GrantRemembered(call'[v], grants') /\ ReadOnFile(call'[v], audits')
<1> DEFINE t == call[w].token
           s == FirstStep(ActorOf(t), call[w].op)
<1>1. UNCHANGED <<grants, audits>> /\ call[w].step = "resolve" /\ t \in Tokens
  BY ServedShape DEF Resolve, SupportInv
<1>2. CASE Become(w, Idle)
  BY <1>1, <1>2, OneGoes, IdleAccountable
<1>3. CASE \E m \in {"markExpired", "markReview"} : Go(w, m)
  BY <1>1, <1>3, StepGoes DEF Steps, Reading
<1>4. CASE /\ Admit(w, ActorOf(t)) /\ ~Become(w, Idle)
           /\ t.grant = None \/ (grants[t.grant].due = "CURRENT" /\ grants[t.grant].status = "ACTIVE")
  <2>1. Go(w, s) /\ s \in Steps /\ s # "answered"
    BY <1>4 DEF Admit, FirstStep, Steps
  <2>2. t.grant = None \/ grants[t.grant] \in GrantRow
    BY <1>1, TokenActs DEF SupportInv, CallInv, TypeOK
  <2>3. t.grant = None \/ grants[t.grant] = CanUse
    BY <1>4, <2>2 DEF CanUse, GrantRow
  <2> QED
    BY <1>1, <2>1, <2>3, StepGoes
<1> QED
  BY <1>2, <1>3, <1>4 DEF Resolve

(* The steps of a call that is being served.                               *)
LEMMA ProceedAccountable ==
    ASSUME SupportInv, NEW w \in Workers, Proceed(w), NEW v \in Workers
    PROVE  GrantRemembered(call'[v], grants') /\ ReadOnFile(call'[v], audits')
<1> DEFINE c == call[w]
<1>1. c \in CallRow /\ CallHolds(c) /\ GrantRemembered(c, grants) /\ ReadOnFile(c, audits)
  BY DEF SupportInv, CallInv, CallHolds
<1>2. AuditRow(w) = RowFor(c)
  BY DEF AuditRow, RowFor, Acts
<1>3. CASE Resolve(w)
  BY <1>3, ResolveAccountable
<1>4. CASE Mark(w)
  <2>1. c.token.grant \in Grants
    BY <1>1, <1>4 DEF Mark, CallHolds, Served
  <2>2. PICK s \in {"EXPIRED", "RECERTIFICATION_REQUIRED"} :
           grants' = [grants EXCEPT ![c.token.grant].status = s]
    BY <1>4 DEF Mark
  <2>3. ASSUME NEW g \in Grants, grants'[g] = CanUse PROVE grants[g] = CanUse
    <3>1. grants \in [Grants -> GrantRow]
      BY DEF SupportInv, CallInv, TypeOK
    <3>2. g = c.token.grant => grants'[g].status = s
      BY <2>1, <2>2, <3>1 DEF GrantRow
    <3>3. CanUse.status = "ACTIVE"
      BY DEF CanUse
    <3> QED
      BY <2>2, <2>3, <3>1, <3>2, <3>3
  <2>4. call'[v] = IF v = w THEN Idle ELSE call[v]
    BY <1>4 DEF Mark, Become, SupportInv, CallInv, TypeOK
  <2>5. CallHolds(call[v]) /\ GrantRemembered(call[v], grants) /\ ReadOnFile(call[v], audits)
    BY DEF SupportInv, CallInv
  <2>6. audits' = audits
    BY <1>4 DEF Mark
  <2>7. GrantRemembered(call[v], grants') /\ ReadOnFile(call[v], audits')
    <3>1. call[v].step # "idle" => call[v].token.grant \in Grants \cup {None}
      BY <2>5, TokenActs DEF CallHolds, Served
    <3> QED
      BY <2>3, <2>5, <2>6, <3>1 DEF GrantRemembered, ReadOnFile, CanUse
  <2> QED
    BY <2>4, <2>7, IdleAccountable
<1>5. CASE UNCHANGED <<grants, audits>> /\ Become(w, Idle)
  BY <1>5, OneGoes, IdleAccountable
<1>6. CASE PassGate(w)
  <2>1. c.step = "gate" /\ UNCHANGED <<grants, audits>>
    BY <1>6 DEF PassGate
  <2>2. Become(w, Idle) \/ \E s \in {"gateAudit", "load"} : Go(w, s)
    BY <1>6 DEF PassGate
  <2> QED
    BY <1>5, <2>1, <2>2, StepGoes DEF Steps, Reading
<1>7. CASE AuditGate(w)
  BY <1>7, StepGoes DEF AuditGate, FileAudit, Steps, Reading
<1>8. CASE Audit(w)
  BY <1>2, <1>8, StepGoes DEF Audit, FileAudit, Steps, Reading
<1>9. CASE Load(w)
  <2> DEFINE rows == RowsOf(ActorOf(c.token), c.op)
             s == IF Audited(ActorOf(c.token), c.op) THEN "audit" ELSE "answered"
             d == [c EXCEPT !.answer = rows, !.step = s]
  <2>1. c.step = "load" /\ UNCHANGED <<grants, audits>>
    BY <1>9 DEF Load
  <2>2. Become(w, Idle) \/ Become(w, d)
    BY <1>9 DEF Load
  <2>3. /\ d.step = s /\ d.token = c.token /\ d.op = c.op /\ d.number = c.number /\ d.open = c.open
    BY <1>1 DEF CallRow
  <2>4. c.step \in Reading /\ (d.step = "answered" => ~Audited(Acts(c), c.op))
    BY <2>1, <2>3 DEF Reading, Acts
  <2>5. GrantRemembered(d, grants') /\ ReadOnFile(d, audits')
    BY <1>1, <2>1, <2>3, <2>4, GoesAccountable
  <2> HIDE DEF d
  <2> QED
    BY <1>5, <2>1, <2>2, <2>5, OneGoes
<1>10. CASE ClearDefaults(w)
  <2> DEFINE d == [c EXCEPT !.step = "commit", !.seen = Registered(ActorOf(c.token).organization)]
  <2>1. c.step = "clear" /\ UNCHANGED <<grants, audits>> /\ Become(w, d)
    BY <1>10 DEF ClearDefaults
  <2>2. d.step = "commit" /\ d.token = c.token /\ d.op = c.op /\ d.number = c.number /\ d.open = c.open
    BY <1>1 DEF CallRow
  <2>3. GrantRemembered(d, grants') /\ ReadOnFile(d, audits')
    BY <1>1, <2>1, <2>2, GoesAccountable DEF Reading
  <2> HIDE DEF d
  <2> QED
    BY <2>1, <2>3, OneGoes
<1>11. CASE CommitWallet(w)
  <2>1. UNCHANGED <<grants, audits>>
    BY <1>11 DEF CommitWallet
  <2>2. CallHolds(call[v]) /\ GrantRemembered(call[v], grants) /\ ReadOnFile(call[v], audits)
    BY DEF SupportInv, CallInv
  <2>3. CASE v = w
    BY <1>11, <2>3, IdleAccountable DEF CommitWallet
  <2>4. CASE v # w
    <3>1. /\ call'[v].step = call[v].step /\ call'[v].token = call[v].token /\ call'[v].op = call[v].op
          /\ call'[v].number = call[v].number /\ call'[v].open = call[v].open
      BY <1>11, <2>2, <2>4 DEF CommitWallet, CallHolds, CallRow
    <3>2. GrantRemembered(call'[v], grants')
      BY <2>1, <2>2, <3>1 DEF GrantRemembered
    <3>3. ReadOnFile(call'[v], audits')
      BY <2>1, <2>2, <3>1 DEF ReadOnFile, RowFor, Acts
    <3> QED
      BY <3>2, <3>3
  <2> QED
    BY <2>3, <2>4
<1>12. CASE Finish(w) \/ CommitVerdict(w) \/ CreateService(w) \/ UpdateService(w)
  BY <1>5, <1>12 DEF Finish, CommitVerdict, CreateService, UpdateService, WriteService
<1> QED
  BY <1>3, <1>4, <1>6, <1>7, <1>8, <1>9, <1>10, <1>11, <1>12 DEF Proceed

(* What befalls grants and sessions meanwhile.                             *)
LEMMA ElsewhereAccountable ==
    ASSUME SupportInv, Elsewhere, NEW v \in Workers
    PROVE  GrantRemembered(call'[v], grants') /\ ReadOnFile(call'[v], audits')
<1> DEFINE c == call[v]
<1>1. c \in CallRow /\ CallHolds(c) /\ GrantRemembered(c, grants) /\ ReadOnFile(c, audits)
  BY DEF SupportInv, CallInv, CallHolds
<1>2. grants \in [Grants -> GrantRow] /\ call \in [Workers -> CallRow]
  BY DEF SupportInv, CallInv, TypeOK
<1>3. audits' = audits
  BY DEF Elsewhere, FallDue, Revoke, Recertify, ChangeGrant, EndSession
<1>4. c.step # "idle" => c.token.grant \in Grants \cup {None}
  BY <1>1, TokenActs DEF CallHolds, Served
<1>5. ASSUME NEW g \in Grants, FallDue(g) \/ Revoke(g)
      PROVE  GrantRemembered(call'[v], grants') /\ ReadOnFile(call'[v], audits')
  <2>1. grants'[g] # CanUse /\ (\A h \in Grants \ {g} : grants'[h] = grants[h]) /\ UNCHANGED call
    <3>1. CASE FallDue(g)
      <4>1. PICK due \in {"REVIEW", "EXPIRY"} : grants' = [grants EXCEPT ![g] = [grants[g] EXCEPT !.due = due]]
        BY <3>1 DEF FallDue, ChangeGrant
      <4>2. grants'[g].due = due
        BY <1>2, <4>1 DEF GrantRow
      <4> QED
        BY <1>2, <3>1, <4>1, <4>2 DEF FallDue, CanUse
    <3>2. CASE Revoke(g)
      <4>1. grants' = [grants EXCEPT ![g] = [grants[g] EXCEPT !.status = "REVOKED"]]
        BY <3>2 DEF Revoke, ChangeGrant
      <4>2. grants'[g].status = "REVOKED"
        BY <1>2, <4>1 DEF GrantRow
      <4> QED
        BY <1>2, <3>2, <4>1, <4>2 DEF Revoke, CanUse
    <3> QED
      BY <1>5, <3>1, <3>2
  <2>2. \A h \in Grants : grants'[h] = CanUse => grants[h] = CanUse
    BY <2>1
  <2> QED
    BY <1>1, <1>3, <1>4, <2>1, <2>2 DEF GrantRemembered, ReadOnFile, CanUse
<1>6. ASSUME NEW g \in Grants, Recertify(g)
      PROVE  GrantRemembered(call'[v], grants') /\ ReadOnFile(call'[v], audits')
  <2>1. \A h \in Grants \ {g} : grants'[h] = grants[h]
    BY <1>2, <1>6 DEF Recertify, ChangeGrant
  <2>2. call'[v] = [c EXCEPT !.open = c.open \/ (c # Idle /\ c.token.grant = g)]
    BY <1>6 DEF Recertify
  <2>3. /\ call'[v].step = c.step /\ call'[v].token = c.token /\ call'[v].op = c.op
        /\ call'[v].number = c.number
        /\ call'[v].open <=> c.open \/ (c # Idle /\ c.token.grant = g)
    BY <1>1, <2>2 DEF CallRow
  <2>4. c.step # "idle" => c # Idle
    BY DEF Idle
  <2>5. GrantRemembered(call'[v], grants')
    BY <1>1, <1>4, <2>1, <2>3, <2>4 DEF GrantRemembered, CanUse, Reading
  <2>6. ReadOnFile(call'[v], audits')
    BY <1>1, <1>3, <2>3 DEF ReadOnFile, RowFor, Acts
  <2> QED
    BY <2>5, <2>6
<1>7. CASE \E t \in Tokens : EndSession(t)
  BY <1>1, <1>3, <1>7 DEF EndSession, GrantRemembered, ReadOnFile
<1> QED
  BY <1>5, <1>6, <1>7 DEF Elsewhere

(* A support session is answered under a grant that was usable since its    *)
(* call began, and only once the read is on file, whatever happens to the   *)
(* grant meanwhile.                                                        *)
THEOREM AccountableSupport == Spec => []SupportReadsAreAccountable
<1>1. Init => SupportInv
  <2>1. Init => CallInv
    BY CallsStart
  <2> QED
    BY <2>1, IdleAccountable DEF Init, SupportInv
<1>2. SupportInv /\ [Next]_vars => SupportInv'
  <2> SUFFICES ASSUME SupportInv, [Next]_vars PROVE SupportInv'
    OBVIOUS
  <2>1. CallInv'
    BY CallInvStep DEF SupportInv
  <2>2. ASSUME NEW v \in Workers
        PROVE  GrantRemembered(call'[v], grants') /\ ReadOnFile(call'[v], audits')
    <3>1. CASE UNCHANGED vars
      BY <3>1 DEF vars, SupportInv, GrantRemembered, ReadOnFile
    <3>2. ASSUME NEW w \in Workers, NEW t \in Tokens, NEW op \in Reads \cup Writes, Begin(w, t, op)
          PROVE  GrantRemembered(call'[v], grants') /\ ReadOnFile(call'[v], audits')
      <4> DEFINE d == [Idle EXCEPT !.step = "resolve", !.number = calls + 1, !.token = t, !.op = op,
                                   !.open = t.grant # None /\ Usable(t.grant)]
      <4>1. Become(w, d) /\ UNCHANGED <<grants, audits>>
        BY <3>2 DEF Begin
      <4>2. Idle \in CallRow
        BY IdleHolds DEF CallHolds
      <4>3. d.step = "resolve" /\ d.token = t /\ (d.open <=> t.grant # None /\ Usable(t.grant))
        BY <4>2 DEF CallRow
      <4> HIDE DEF d
      <4>4. GrantRemembered(d, grants') /\ ReadOnFile(d, audits')
        BY <4>1, <4>3 DEF GrantRemembered, ReadOnFile, Usable, Reading
      <4> QED
        BY <4>1, <4>4, OneGoes
    <3> QED
      BY <3>1, <3>2, ProceedAccountable, ElsewhereAccountable DEF Next
  <2> QED
    BY <2>1, <2>2 DEF SupportInv
<1>3. SupportInv => SupportReadsAreAccountable
  <2> SUFFICES ASSUME SupportInv, NEW w \in Workers, call[w].step = "answered", call[w].token.grant # None
               PROVE  /\ call[w].open /\ call[w].op.kind # "export"
                      /\ call[w].op.kind # "wallets" => AuditRow(w) \in audits
    BY DEF SupportReadsAreAccountable
  <2> DEFINE c == call[w]
             a == Acts(c)
  <2>1. /\ CallHolds(c) /\ c.token \in Tokens /\ c.op \in Reads \cup Writes /\ a \in Actors
        /\ GrantRemembered(c, grants) /\ ReadOnFile(c, audits)
    BY ServedShape DEF SupportInv
  <2>2. IsSupport(a) /\ a.workspace # "OPERATOR"
    BY <2>1, TokenActs DEF Acts, IsSupport
  <2>3. MayDo(a, c.token.role, c.op) /\ c.op.kind \in ReadKinds
    BY <2>1, OpShape DEF CallHolds, Admitted, Reading
  <2>4. c.open
    BY <2>1 DEF GrantRemembered, Reading
  <2>5. c.op.kind # "export" /\ c.op.kind # "governance"
    BY <2>2, <2>3 DEF MayDo, Governs
  <2>6. c.op.kind # "wallets" => Audited(a, c.op)
    BY <2>2, <2>3, <2>5 DEF Audited, ReadKinds
  <2>7. AuditRow(w) = RowFor(c)
    BY DEF AuditRow, RowFor, Acts
  <2> QED
    BY <2>1, <2>4, <2>5, <2>6, <2>7 DEF ReadOnFile
<1> QED
  BY <1>1, <1>2, <1>3, PTL DEF Spec

-----------------------------------------------------------------------------
(* Default wallets.                                                        *)

(* After a registration the defaults are its own wallet, if it asked, and   *)
(* those that it has not seen.                                             *)
LEMMA RegisteredDefaults ==
    ASSUME CallInv, NEW o \in Tenants, NEW x \in Addresses, NEW default \in BOOLEAN, NEW seen,
           NEW y \in Addresses
    PROVE  RegisteredBy(o, x, default, seen)[y].isDefault <=>
              IF y = x THEN default ELSE y \notin seen /\ wallets[o][y].isDefault
<1>1. RegisteredBy(o, x, default, seen)[y] =
         IF y = x THEN [isDefault |-> default, status |-> "PENDING"]
         ELSE IF y \in seen THEN [wallets[o][y] EXCEPT !.isDefault = FALSE]
         ELSE wallets[o][y]
  BY DEF RegisteredBy
<1>2. wallets[o][y] \in Wallet \cup {NoWallet}
  BY DEF CallInv, TypeOK
<1>3. [wallets[o][y] EXCEPT !.isDefault = FALSE].isDefault = FALSE
  BY <1>2 DEF Wallet, NoWallet
<1> QED
  BY <1>1, <1>3

(* A call that is not about to register a default, or has not moved, sees  *)
(* what it saw, as long as no default is added.                            *)
LEMMA SeesKept ==
    ASSUME DefaultInv, NEW v \in Workers,
           \A o \in Tenants, x \in Addresses : wallets'[o][x].isDefault => wallets[o][x].isDefault,
           call'[v].step = "commit" /\ call'[v].op.kind = "registerDefault" =>
              /\ call'[v].step = call[v].step /\ call'[v].op = call[v].op /\ call'[v].token = call[v].token
              /\ call'[v].seen = call[v].seen /\ (call[v].disturbed => call'[v].disturbed)
    PROVE  SeesDefaults(call'[v], wallets')
<1> SUFFICES ASSUME call'[v].step = "commit", call'[v].op.kind = "registerDefault", ~call'[v].disturbed,
                    NEW x \in Addresses, wallets'[Acts(call'[v]).organization][x].isDefault
             PROVE  x \in call'[v].seen
  BY DEF SeesDefaults
<1>1. Acts(call'[v]) = Acts(call[v])
  BY DEF Acts
<1>2. Acts(call[v]).organization \in Tenants
  BY CommitShape DEF DefaultInv
<1>3. wallets[Acts(call[v]).organization][x].isDefault
  BY <1>1, <1>2
<1>4. SeesDefaults(call[v], wallets)
  BY DEF DefaultInv
<1> QED
  BY <1>3, <1>4 DEF SeesDefaults

(* A registration commits.                                                 *)
LEMMA CommitKeepsDefaults ==
    ASSUME DefaultInv, NEW w \in Workers, CommitWallet(w)
    PROVE  /\ \A v \in Workers : SeesDefaults(call'[v], wallets')
           /\ \A o \in Tenants : quiet'[o] => \A x, y \in Defaults(o)' : x = y
<1> DEFINE c == call[w]
           home == Acts(c).organization
<1>1. c.step = "commit" /\ c \in CallRow /\ home \in Tenants /\ c.op.key \in Addresses
  BY CommitShape DEF CommitWallet, DefaultInv, CallInv, CallHolds
<1>2. PICK default \in BOOLEAN : default = (c.op.kind = "registerDefault")
  OBVIOUS
<1>3. wallets \in [Tenants -> [Addresses -> Wallet \cup {NoWallet}]] /\ quiet \in [Tenants -> BOOLEAN]
  BY DEF DefaultInv, CallInv, TypeOK
<1>4. /\ wallets' = [wallets EXCEPT ![home] = RegisteredBy(home, c.op.key, default, c.seen)]
      /\ quiet' = [quiet EXCEPT ![home] = IF default THEN ~c.disturbed ELSE quiet[home]]
      /\ call' = [v \in Workers |->
                     IF v = w THEN Idle
                     ELSE [call[v] EXCEPT !.disturbed = call[v].disturbed \/ (default /\ Disturb(v, w, home))]]
  BY <1>2 DEF CommitWallet, Acts
<1>5. \A y \in Addresses : wallets'[home][y].isDefault <=>
         IF y = c.op.key THEN default ELSE y \notin c.seen /\ wallets[home][y].isDefault
  <2>1. wallets'[home] = RegisteredBy(home, c.op.key, default, c.seen)
    BY <1>1, <1>3, <1>4
  <2> QED
    BY <1>1, <2>1, RegisteredDefaults DEF DefaultInv
<1>6. \A o \in Tenants \ {home} : wallets'[o] = wallets[o] /\ quiet'[o] = quiet[o]
  BY <1>3, <1>4
<1>7. ASSUME NEW v \in Workers PROVE SeesDefaults(call'[v], wallets')
  <2>1. CASE v = w
    BY <1>4, <2>1 DEF SeesDefaults, Idle
  <2>2. CASE v # w
    <3>1. call[v] \in CallRow /\ SeesDefaults(call[v], wallets)
      BY DEF DefaultInv, CallInv, CallHolds
    <3>2. /\ call'[v].step = call[v].step /\ call'[v].op = call[v].op /\ call'[v].token = call[v].token
          /\ call'[v].seen = call[v].seen
          /\ call'[v].disturbed <=> call[v].disturbed \/ (default /\ Disturb(v, w, home))
      BY <1>4, <2>2, <3>1 DEF CallRow
    <3>3. SUFFICES ASSUME call[v].step = "commit", call[v].op.kind = "registerDefault",
                          ~call[v].disturbed, ~(default /\ Disturb(v, w, home)), NEW x \in Addresses,
                          wallets'[Acts(call[v]).organization][x].isDefault
                   PROVE  x \in call[v].seen
      BY <3>2 DEF SeesDefaults, Acts
    <3>4. Acts(call[v]).organization \in Tenants
      BY <3>3, CommitShape DEF DefaultInv
    <3>5. Acts(call[v]).organization = home => ~default
      BY <2>2, <3>3 DEF Disturb, Acts
    <3>6. wallets[Acts(call[v]).organization][x].isDefault
      BY <1>5, <1>6, <3>3, <3>4, <3>5
    <3> QED
      BY <3>1, <3>3, <3>6 DEF SeesDefaults
  <2> QED
    BY <2>1, <2>2
<1>8. ASSUME NEW o \in Tenants, quiet'[o], NEW x \in Defaults(o)', NEW y \in Defaults(o)'
      PROVE  x = y
  <2>1. x \in Addresses /\ y \in Addresses /\ wallets'[o][x].isDefault /\ wallets'[o][y].isDefault
    BY <1>8 DEF Defaults
  <2>2. quiet[o] => \A a, b \in Defaults(o) : a = b
    BY DEF DefaultInv
  <2>3. CASE o # home
    BY <1>6, <1>8, <2>1, <2>2, <2>3 DEF Defaults
  <2>4. CASE o = home /\ ~default
    <3>1. quiet[o]
      BY <1>1, <1>3, <1>4, <1>8, <2>4
    <3>2. x \in Defaults(o) /\ y \in Defaults(o)
      BY <1>5, <2>1, <2>4 DEF Defaults
    <3> QED
      BY <2>2, <3>1, <3>2
  <2>5. CASE o = home /\ default
    <3>1. ~c.disturbed
      BY <1>1, <1>3, <1>4, <1>8, <2>5
    <3>2. \A z \in Addresses : wallets[home][z].isDefault => z \in c.seen
      BY <1>1, <1>2, <2>5, <3>1 DEF DefaultInv, SeesDefaults
    <3> QED
      BY <1>5, <2>1, <2>5, <3>2
  <2> QED
    BY <2>3, <2>4, <2>5
<1> QED
  BY <1>7, <1>8

(* A registration that has cleared the defaults has seen them all.         *)
LEMMA ClearSees ==
    ASSUME DefaultInv, NEW w \in Workers, ClearDefaults(w), NEW v \in Workers
    PROVE  SeesDefaults(call'[v], wallets')
<1> DEFINE c == call[w]
           home == Acts(c).organization
           d == [c EXCEPT !.step = "commit", !.seen = Registered(home)]
<1>1. c.step = "clear" /\ c \in CallRow /\ home \in Tenants
  BY CommitShape DEF ClearDefaults, DefaultInv, CallInv, CallHolds, Admitted
<1>2. wallets' = wallets /\ call'[v] = IF v = w THEN d ELSE call[v]
  BY DEF ClearDefaults, Become, Acts, written, DefaultInv, CallInv, TypeOK
<1>3. d.token = c.token /\ d.seen = Registered(home)
  BY <1>1 DEF CallRow
<1>4. ASSUME NEW x \in Addresses, wallets[home][x].isDefault PROVE x \in Registered(home)
  BY <1>4 DEF Registered, NoWallet
<1>5. SeesDefaults(d, wallets)
  BY <1>3, <1>4 DEF SeesDefaults, Acts
<1>6. SeesDefaults(call[v], wallets)
  BY DEF DefaultInv
<1> HIDE DEF d
<1> QED
  BY <1>2, <1>5, <1>6 DEF SeesDefaults

(* A tenant whose last default was registered undisturbed has one default   *)
(* at most, however registrations, verdicts and sessions interleave.       *)
THEOREM UniqueDefault == Spec => []QuietDefaultIsUnique
<1>1. Init => DefaultInv
  <2> SUFFICES ASSUME Init PROVE DefaultInv
    OBVIOUS
  <2>1. \A w \in Workers : SeesDefaults(call[w], wallets)
    BY DEF Init, SeesDefaults, Idle
  <2>2. \A o \in Tenants : Defaults(o) = {}
    BY DEF Init, Defaults, NoWallet
  <2> QED
    BY <2>1, <2>2, CallsStart DEF DefaultInv
<1>2. DefaultInv /\ [Next]_vars => DefaultInv'
  <2> SUFFICES ASSUME DefaultInv, [Next]_vars PROVE DefaultInv'
    OBVIOUS
  <2> DEFINE Kept ==
         /\ \A v \in Workers : SeesDefaults(call'[v], wallets')
         /\ \A o \in Tenants : quiet'[o] => \A x, y \in Defaults(o)' : x = y
  <2>1. CallInv'
    BY CallInvStep DEF DefaultInv
  <2>2. call \in [Workers -> CallRow] /\ \A v \in Workers : CallHolds(call[v])
    BY DEF DefaultInv, CallInv, TypeOK
  <2>3. ASSUME quiet' = quiet,
               \A o \in Tenants, x \in Addresses : wallets'[o][x].isDefault = wallets[o][x].isDefault
        PROVE  \A o \in Tenants : quiet'[o] => \A x, y \in Defaults(o)' : x = y
    <3>1. \A o \in Tenants : Defaults(o)' = Defaults(o)
      BY <2>3 DEF Defaults
    <3> QED
      BY <2>3, <3>1 DEF DefaultInv
  <2>4. ASSUME UNCHANGED written,
               \A v \in Workers :
                  call'[v].step = "commit" /\ call'[v].op.kind = "registerDefault" =>
                    /\ call'[v].step = call[v].step /\ call'[v].op = call[v].op
                    /\ call'[v].token = call[v].token /\ call'[v].seen = call[v].seen
                    /\ call[v].disturbed => call'[v].disturbed
        PROVE  Kept
    <3>1. wallets' = wallets /\ quiet' = quiet
      BY <2>4 DEF written
    <3>2. \A v \in Workers : SeesDefaults(call'[v], wallets')
      BY <2>4, <3>1, SeesKept
    <3> QED
      BY <2>3, <3>1, <3>2
  <2>5. ASSUME NEW w \in Workers, NEW d, Become(w, d), UNCHANGED written,
               d.step # "commit" \/ d.op.kind # "registerDefault"
        PROVE  Kept
    <3>1. \A v \in Workers : call'[v] = IF v = w THEN d ELSE call[v]
      BY <2>2, <2>5 DEF Become
    <3> QED
      BY <2>4, <2>5, <3>1
  <2>6. Idle.step # "commit"
    BY DEF Idle
  <2>7. ASSUME NEW w \in Workers, NEW s \in Steps, Go(w, s), UNCHANGED written,
               s # "commit" \/ call[w].op.kind # "registerDefault"
        PROVE  Kept
    <3>1. [call[w] EXCEPT !.step = s].step = s /\ [call[w] EXCEPT !.step = s].op = call[w].op
      BY <2>2, GoShape
    <3> QED
      BY <2>5, <2>7, <3>1 DEF Go
  <2>8. ASSUME NEW w \in Workers, NEW t \in Tokens, NEW op \in Reads \cup Writes, Begin(w, t, op)
        PROVE  Kept
    <3> DEFINE d == [Idle EXCEPT !.step = "resolve", !.number = calls + 1, !.token = t, !.op = op,
                                 !.open = t.grant # None /\ Usable(t.grant)]
    <3>1. Become(w, d) /\ UNCHANGED written
      BY <2>8 DEF Begin
    <3>2. Idle \in CallRow
      BY IdleHolds DEF CallHolds
    <3>3. d.step = "resolve"
      BY <3>2 DEF CallRow
    <3> HIDE DEF d
    <3> QED
      BY <2>5, <3>1, <3>3
  <2>9. ASSUME NEW w \in Workers, Proceed(w) PROVE Kept
    <3>1. CASE Resolve(w)
      <4>1. UNCHANGED written
        BY <3>1 DEF Resolve
      <4>2. CASE Become(w, Idle)
        BY <2>5, <2>6, <4>1, <4>2
      <4>3. CASE \E s \in {"markExpired", "markReview"} : Go(w, s)
        BY <2>7, <4>1, <4>3 DEF Steps
      <4>4. CASE Admit(w, ActorOf(call[w].token)) /\ ~Become(w, Idle)
        <5> DEFINE s == FirstStep(ActorOf(call[w].token), call[w].op)
        <5>1. s \in Steps /\ (s # "commit" \/ call[w].op.kind # "registerDefault")
          BY DEF FirstStep, Steps
        <5>2. Go(w, s)
          BY <4>4 DEF Admit
        <5> HIDE DEF s
        <5> QED
          BY <2>7, <4>1, <5>1, <5>2
      <4> QED
        BY <3>1, <4>2, <4>3, <4>4 DEF Resolve
    <3>2. CASE PassGate(w) \/ AuditGate(w) \/ Audit(w)
      <4>1. UNCHANGED written
        BY <3>2 DEF PassGate, AuditGate, Audit
      <4>2. Become(w, Idle) \/ \E s \in {"gateAudit", "load", "answered"} : Go(w, s)
        BY <3>2 DEF PassGate, AuditGate, Audit
      <4> QED
        BY <2>5, <2>6, <2>7, <4>1, <4>2 DEF Steps
    <3>3. CASE Load(w)
      <4>1. UNCHANGED written
        BY <3>3 DEF Load
      <4> DEFINE rows == RowsOf(ActorOf(call[w].token), call[w].op)
                 s == IF Audited(ActorOf(call[w].token), call[w].op) THEN "audit" ELSE "answered"
                 d == [call[w] EXCEPT !.answer = rows, !.step = s]
      <4>2. Become(w, Idle) \/ Become(w, d)
        BY <3>3 DEF Load
      <4>3. d.step # "commit"
        BY <2>2 DEF CallRow
      <4> HIDE DEF d
      <4> QED
        BY <2>5, <2>6, <4>1, <4>2, <4>3
    <3>4. CASE ClearDefaults(w)
      <4>1. UNCHANGED written
        BY <3>4 DEF ClearDefaults
      <4> QED
        BY <2>3, <3>4, <4>1, ClearSees DEF written
    <3>5. CASE CommitWallet(w)
      BY <3>5, CommitKeepsDefaults
    <3>6. CASE CommitVerdict(w)
      <4>1. quiet' = quiet /\ Become(w, Idle)
        BY <3>6 DEF CommitVerdict
      <4>2. \A o \in Tenants, x \in Addresses : wallets'[o][x].isDefault = wallets[o][x].isDefault
        BY <3>6, VerdictKeeps DEF DefaultInv
      <4>3. \A v \in Workers : call'[v] = IF v = w THEN Idle ELSE call[v]
        BY <2>2, <4>1 DEF Become
      <4>4. \A v \in Workers : SeesDefaults(call'[v], wallets')
        BY <2>6, <4>2, <4>3, SeesKept
      <4> QED
        BY <2>3, <4>1, <4>2, <4>4
    <3>7. CASE CreateService(w) \/ UpdateService(w)
      <4>1. wallets' = wallets /\ quiet' = quiet /\ Become(w, Idle)
        BY <3>7 DEF CreateService, UpdateService, WriteService
      <4>2. \A v \in Workers : call'[v] = IF v = w THEN Idle ELSE call[v]
        BY <2>2, <4>1 DEF Become
      <4>3. \A v \in Workers : SeesDefaults(call'[v], wallets')
        BY <2>6, <4>1, <4>2, SeesKept
      <4> QED
        BY <2>3, <4>1, <4>3
    <3>8. CASE Mark(w) \/ Finish(w)
      <4>1. Become(w, Idle) /\ UNCHANGED written
        BY <3>8 DEF Mark, Finish
      <4> QED
        BY <2>5, <2>6, <4>1
    <3> QED
      BY <2>9, <3>1, <3>2, <3>3, <3>4, <3>5, <3>6, <3>7, <3>8 DEF Proceed
  <2>10. ASSUME Elsewhere PROVE Kept
    <3>1. UNCHANGED written
      BY <2>10 DEF Elsewhere, FallDue, Revoke, Recertify, ChangeGrant, EndSession
    <3>2. ASSUME NEW v \in Workers
          PROVE  /\ call'[v].step = call[v].step /\ call'[v].op = call[v].op
                 /\ call'[v].token = call[v].token /\ call'[v].seen = call[v].seen
                 /\ call'[v].disturbed = call[v].disturbed
      <4>1. call' = call \/ \E b : call'[v] = [call[v] EXCEPT !.open = b]
        BY <2>10 DEF Elsewhere, FallDue, Revoke, Recertify, EndSession
      <4>2. call[v] \in CallRow
        BY <2>2
      <4> QED
        BY <4>1, <4>2 DEF CallRow
    <3> QED
      BY <2>4, <3>1, <3>2
  <2>11. ASSUME UNCHANGED vars PROVE Kept
    BY <2>4, <2>11 DEF vars, written
  <2>12. Kept
    BY <2>8, <2>9, <2>10, <2>11 DEF Next
  <2> QED
    BY <2>1, <2>12 DEF DefaultInv
<1>3. DefaultInv => QuietDefaultIsUnique
  <2> SUFFICES ASSUME DefaultInv, NEW o \in Tenants, quiet[o] PROVE Cardinality(Defaults(o)) <= 1
    BY DEF QuietDefaultIsUnique
  <2>1. \A x, y \in Defaults(o) : x = y
    BY DEF DefaultInv
  <2>2. CASE Defaults(o) = {}
    BY <2>2, FS_EmptySet
  <2>3. CASE Defaults(o) # {}
    <3>1. PICK x : x \in Defaults(o)
      BY <2>3
    <3>2. Defaults(o) = {x}
      BY <2>1, <3>1
    <3>3. Cardinality({x}) = 1
      BY FS_Singleton
    <3> QED
      BY <3>2, <3>3
  <2> QED
    BY <2>2, <2>3
<1> QED
  BY <1>1, <1>2, <1>3, PTL DEF Spec
===============================================================================
