---------------------------- MODULE SupportAccess ----------------------------
(***************************************************************************)
(* Support access: an operator asks for read access to a tenant, another   *)
(* operator reviews the grant, the requester activates it, and it must be  *)
(* recertified in time until it is revoked or expires; review campaigns    *)
(* collect the grants that are due (packages/database/src/support-access,  *)
(* access-governance, and the session check of the web application).       *)
(*                                                                         *)
(* Every grant operation loads the grant with markExpiredGrantIfNeeded,    *)
(* which may update it in a statement of its own, checks what it loaded,   *)
(* and only then opens the transaction that writes by primary key.  These  *)
(* are the steps of a worker here.  Time is a counter the steps read.      *)
(***************************************************************************)
EXTENDS Integers, FiniteSets

CONSTANTS
    Grants,     \* the grants that may be requested
    Operators,  \* members of the issuing operator organization
    Reviewers,  \* those of them who are OWNER or ADMIN
    Campaigns,  \* the review campaigns that may be opened
    Workers,    \* invocations that may be in flight together
    Jobs,       \* the operations that are asked for
    ReviewTtl,  \* AUTH_SUPPORT_ACCESS_REVIEW_TTL_HOURS
    Lookahead,  \* AUTH_SUPPORT_ACCESS_REVIEW_LOOKAHEAD_HOURS
    MaxTime     \* bound on the clock, so that TLC terminates

ASSUME AccessAssumption ==
    /\ Reviewers \subseteq Operators
    /\ Jobs \subseteq {"REVIEW", "RECERTIFY", "REVOKE", "ACTIVATE", "INSPECT", "SESSION"}
    /\ ReviewTtl \in Nat \ {0}
    /\ Lookahead \in Nat
    /\ MaxTime \in Nat \ {0}

GrantStatuses ==
    {"ABSENT", "PENDING_REVIEW", "ACTIVE", "RECERTIFICATION_REQUIRED",
     "REJECTED", "REVOKED", "EXPIRED"}
ItemStatuses == {"NONE", "PENDING", "RECERTIFIED", "REVOKED"}
ItemActions  == {"RECERTIFY", "REVOKE"}

VARIABLES
    now,        \* the clock
    grants,     \* SupportAccessGrant rows
    reviews,    \* SupportAccessGrantReview rows
    sessions,   \* grants whose requester holds a support-session token
    campaigns,  \* SupportAccessReviewCampaign.status
    items,      \* SupportAccessReviewCampaignItem.status, by campaign and grant
    tx          \* what the invocation of each worker has learned so far

vars == <<now, grants, reviews, sessions, campaigns, items, tx>>

-----------------------------------------------------------------------------
(* Rows.  A deadline is later than the first instant: 0 stands for null.   *)
NoDeadline == 0
Instants   == 0..MaxTime
Deadlines  == 1..MaxTime

GrantRow  == [status: GrantStatuses, issuer: Operators, expiresAt: Deadlines,
              reviewExpiresAt: {NoDeadline} \cup Deadlines]
ReviewRow == [grant: Grants, reviewer: Operators, type: {"INITIAL", "RECERTIFICATION"},
              decision: {"APPROVED", "REJECTED"}, at: Instants]

Idle == [pc |-> "idle"]

Marking    == [pc: {"marking"}, job: Jobs, grant: Grants, by: Operators,
               mark: {"EXPIRED", "RECERTIFICATION_REQUIRED"}]
Checked    == [pc: {"checked"}, job: Jobs, grant: Grants, by: Operators]
Candidates == [pc: {"candidates"}, found: SUBSET Grants]
ItemRead   == [pc: {"itemRead", "itemChecked"}, campaign: Campaigns, grant: Grants,
               action: ItemActions, by: Operators]
ItemCounted == [pc: {"itemCounted"}, campaign: Campaigns, grant: Grants,
                action: ItemActions, by: Operators, last: BOOLEAN]
TxStates == {Idle} \cup Marking \cup Checked \cup Candidates \cup ItemRead \cup ItemCounted

TypeOK ==
    /\ now       \in Instants
    /\ grants    \in [Grants -> GrantRow]
    /\ reviews   \subseteq ReviewRow
    /\ sessions  \subseteq Grants
    /\ campaigns \in [Campaigns -> {"ABSENT", "OPEN", "COMPLETED"}]
    /\ items     \in [Campaigns -> [Grants -> ItemStatuses]]
    /\ tx        \in [Workers -> TxStates]

(* Issuer and expiry of a grant are fixed by its request.                  *)
Init ==
    /\ now       = 0
    /\ grants    \in [Grants -> [status: {"ABSENT"}, issuer: Operators,
                                 expiresAt: Deadlines, reviewExpiresAt: {NoDeadline}]]
    /\ reviews   = {}
    /\ sessions  = {}
    /\ campaigns = [c \in Campaigns |-> "ABSENT"]
    /\ items     = [c \in Campaigns |-> [g \in Grants |-> "NONE"]]
    /\ tx        = [w \in Workers |-> Idle]

Begin(w, state)   == tx[w] = Idle /\ tx' = [tx EXCEPT ![w] = state]
Proceed(w, state) == tx' = [tx EXCEPT ![w] = state]
Finish(w)         == tx' = [tx EXCEPT ![w] = Idle]

Tick ==
    /\ now < MaxTime
    /\ now' = now + 1
    /\ UNCHANGED <<grants, reviews, sessions, campaigns, items, tx>>

-----------------------------------------------------------------------------
(* issueSupportAccessGrant.                                                *)
Issue(g) ==
    /\ grants[g].status = "ABSENT"
    /\ grants[g].expiresAt > now
    /\ grants' = [grants EXCEPT ![g].status = "PENDING_REVIEW"]
    /\ UNCHANGED <<now, reviews, sessions, campaigns, items, tx>>

-----------------------------------------------------------------------------
(* markExpiredGrantIfNeeded, and the check every operation makes of the    *)
(* grant it returns.                                                       *)
MarkFor(row) ==
    IF row.status \in {"ACTIVE", "PENDING_REVIEW", "RECERTIFICATION_REQUIRED"}
          /\ row.expiresAt <= now THEN "EXPIRED"
    ELSE IF row.status = "ACTIVE" /\ row.reviewExpiresAt # NoDeadline
          /\ row.reviewExpiresAt <= now THEN "RECERTIFICATION_REQUIRED"
    ELSE "NONE"

(* Faulty: owners and admins may review what they requested.               *)
MayReviewOwn(by, row) == by \in Reviewers

MayReview(by, row) == by \in Reviewers /\ by # row.issuer

Reviewable(by, row)    == row.status = "PENDING_REVIEW" /\ MayReview(by, row)
Recertifiable(by, row) ==
    row.status \in {"ACTIVE", "RECERTIFICATION_REQUIRED"} /\ MayReview(by, row)
Revocable(row) == row.status \in {"ACTIVE", "PENDING_REVIEW", "RECERTIFICATION_REQUIRED"}

(* Faulty: a grant still in review can be activated.                       *)
ActivatableUnreviewed(by, row) ==
    row.status \in {"ACTIVE", "PENDING_REVIEW"} /\ by = row.issuer

Activatable(by, row) == row.status = "ACTIVE" /\ by = row.issuer

(* An inspection and the check of a session end with the load.             *)
Accepts(job, by, row) ==
    \/ job = "REVIEW"    /\ Reviewable(by, row)
    \/ job = "RECERTIFY" /\ Recertifiable(by, row)
    \/ job = "REVOKE"    /\ Revocable(row)
    \/ job = "ACTIVATE"  /\ Activatable(by, row)

Load(w, g, job, by) ==
    LET row == grants[g] IN
    /\ row.status # "ABSENT"
    /\ job \in {"REVIEW", "RECERTIFY"} => by \in Reviewers
    /\ job = "SESSION" => g \in sessions /\ by = row.issuer
    /\ \/ /\ MarkFor(row) = "NONE"
          /\ Accepts(job, by, row)
          /\ Begin(w, [pc |-> "checked", job |-> job, grant |-> g, by |-> by])
       \/ /\ MarkFor(row) # "NONE"
          /\ Begin(w, [pc |-> "marking", job |-> job, grant |-> g, by |-> by,
                       mark |-> MarkFor(row)])
    /\ UNCHANGED <<now, grants, reviews, sessions, campaigns, items>>

(* The mark is written by primary key, whatever happened since the load,   *)
(* and stays when the operation that made it is then refused.              *)
Mark(w) ==
    LET t      == tx[w]
        marked == [grants[t.grant] EXCEPT !.status = t.mark]
    IN
    /\ t.pc = "marking"
    /\ grants' = [grants EXCEPT ![t.grant] = marked]
    /\ Proceed(w, IF Accepts(t.job, t.by, marked)
                  THEN [pc |-> "checked", job |-> t.job, grant |-> t.grant, by |-> t.by]
                  ELSE Idle)
    /\ UNCHANGED <<now, reviews, sessions, campaigns, items>>

-----------------------------------------------------------------------------
(* The transactions of the operations.                                     *)

(* Faulty: the review outlives its period when the grant does.             *)
ReviewExpiryOfGrant(row) == row.expiresAt

(* Faulty: the review may outlive the grant.                               *)
ReviewExpiryUncapped(row) == now + ReviewTtl

ReviewExpiry(row) ==
    IF row.expiresAt <= now + ReviewTtl THEN row.expiresAt ELSE now + ReviewTtl

Reviewed(g, by, type, decision) ==
    reviews' = reviews \cup {[grant |-> g, reviewer |-> by, type |-> type,
                              decision |-> decision, at |-> now]}

Approved(row) == [row EXCEPT !.status = "ACTIVE", !.reviewExpiresAt = ReviewExpiry(row)]

CommitReview(w, decision) ==
    LET t == tx[w]  g == t.grant IN
    /\ t.pc = "checked" /\ t.job = "REVIEW"
    /\ grants' = [grants EXCEPT ![g] =
            IF decision = "APPROVED" THEN Approved(@)
            ELSE [@ EXCEPT !.status = "REJECTED", !.reviewExpiresAt = NoDeadline]]
    /\ Reviewed(g, t.by, "INITIAL", decision)
    /\ Finish(w)
    /\ UNCHANGED <<now, sessions, campaigns, items>>

Recertify(g, by) ==
    /\ grants' = [grants EXCEPT ![g] = Approved(@)]
    /\ Reviewed(g, by, "RECERTIFICATION", "APPROVED")

Revoke(g) ==
    /\ grants' = [grants EXCEPT ![g].status = "REVOKED"]
    /\ UNCHANGED reviews

CommitRecertify(w) ==
    LET t == tx[w] IN
    /\ t.pc = "checked" /\ t.job = "RECERTIFY"
    /\ Recertify(t.grant, t.by)
    /\ Finish(w)
    /\ UNCHANGED <<now, sessions, campaigns, items>>

CommitRevoke(w) ==
    LET t == tx[w] IN
    /\ t.pc = "checked" /\ t.job = "REVOKE"
    /\ Revoke(t.grant)
    /\ Finish(w)
    /\ UNCHANGED <<now, sessions, campaigns, items>>

(* The web action signs the support-session token right after.             *)
CommitActivate(w) ==
    LET t == tx[w] IN
    /\ t.pc = "checked" /\ t.job = "ACTIVATE"
    /\ sessions' = sessions \cup {t.grant}
    /\ Finish(w)
    /\ UNCHANGED <<now, grants, reviews, campaigns, items>>

-----------------------------------------------------------------------------
(* Review campaigns.                                                       *)

IsCandidate(row) ==
    /\ row.expiresAt > now
    /\ \/ row.status = "RECERTIFICATION_REQUIRED"
       \/ /\ row.status = "ACTIVE"
          /\ row.reviewExpiresAt # NoDeadline
          /\ row.reviewExpiresAt <= now + Lookahead

ReadCandidates(w) ==
    LET found == {g \in Grants : IsCandidate(grants[g])} IN
    /\ found # {}
    /\ Begin(w, [pc |-> "candidates", found |-> found])
    /\ UNCHANGED <<now, grants, reviews, sessions, campaigns, items>>

CommitCampaign(w, c) ==
    LET found == tx[w].found IN
    /\ tx[w].pc = "candidates"
    /\ campaigns[c] = "ABSENT"
    /\ campaigns' = [campaigns EXCEPT ![c] = "OPEN"]
    /\ items' = [items EXCEPT ![c] = [g \in Grants |-> IF g \in found THEN "PENDING" ELSE "NONE"]]
    /\ Finish(w)
    /\ UNCHANGED <<now, grants, reviews, sessions>>

(* resolveSupportAccessReviewCampaignItem: one transaction that reads the  *)
(* item, recertifies or revokes the grant, updates the item, counts the    *)
(* items still pending and closes the campaign after the last.             *)
ReadItem(w, c, g, action, by) ==
    /\ by \in Reviewers
    /\ campaigns[c] = "OPEN"
    /\ items[c][g] = "PENDING"
    /\ Begin(w, [pc |-> "itemRead", campaign |-> c, grant |-> g, action |-> action, by |-> by])
    /\ UNCHANGED <<now, grants, reviews, sessions, campaigns, items>>

(* A mark made here is part of the transaction, and is written over by it. *)
CheckItem(w) ==
    LET t      == tx[w]
        row    == grants[t.grant]
        marked == IF MarkFor(row) = "NONE" THEN row ELSE [row EXCEPT !.status = MarkFor(row)]
    IN
    /\ t.pc = "itemRead"
    /\ Accepts(t.action, t.by, marked)
    /\ Proceed(w, [t EXCEPT !.pc = "itemChecked"])
    /\ UNCHANGED <<now, grants, reviews, sessions, campaigns, items>>

(* Faulty: the item being resolved is the only one looked at.              *)
NoItemLeftUnseen(c, g) == TRUE

(* At READ COMMITTED the count sees the items of others as committed.      *)
NoItemLeft(c, g) == \A h \in Grants \ {g} : items[c][h] # "PENDING"

CountItems(w) ==
    LET t == tx[w] IN
    /\ t.pc = "itemChecked"
    /\ Proceed(w, [pc |-> "itemCounted", campaign |-> t.campaign, grant |-> t.grant,
                   action |-> t.action, by |-> t.by, last |-> NoItemLeft(t.campaign, t.grant)])
    /\ UNCHANGED <<now, grants, reviews, sessions, campaigns, items>>

CommitItem(w) ==
    LET t == tx[w]  c == t.campaign  g == t.grant IN
    /\ t.pc = "itemCounted"
    /\ IF t.action = "RECERTIFY" THEN Recertify(g, t.by) ELSE Revoke(g)
    /\ items' = [items EXCEPT ![c][g] =
                    IF t.action = "RECERTIFY" THEN "RECERTIFIED" ELSE "REVOKED"]
    /\ campaigns' = [campaigns EXCEPT ![c] = IF t.last THEN "COMPLETED" ELSE @]
    /\ Finish(w)
    /\ UNCHANGED <<now, sessions>>

-----------------------------------------------------------------------------
(* A refusal, a timeout, a lost connection or a crash ends an invocation;  *)
(* its open transaction is rolled back.                                    *)
Abort(w) ==
    /\ tx[w] # Idle
    /\ Finish(w)
    /\ UNCHANGED <<now, grants, reviews, sessions, campaigns, items>>

Continue(w) ==
    \/ Mark(w)
    \/ \E decision \in {"APPROVED", "REJECTED"} : CommitReview(w, decision)
    \/ CommitRecertify(w)
    \/ CommitRevoke(w)
    \/ CommitActivate(w)
    \/ \E c \in Campaigns : CommitCampaign(w, c)
    \/ CheckItem(w)
    \/ CountItems(w)
    \/ CommitItem(w)
    \/ Abort(w)

Serve(w) ==
    \/ \E g \in Grants, job \in Jobs, by \in Operators : Load(w, g, job, by)
    \/ ReadCandidates(w)
    \/ \E c \in Campaigns, g \in Grants, action \in ItemActions, by \in Operators :
          ReadItem(w, c, g, action, by)

Next ==
    \/ Tick
    \/ \E g \in Grants : Issue(g)
    \/ \E w \in Workers : Serve(w) \/ Continue(w)

Spec == Init /\ [][Next]_vars

(* An invocation that has begun ends, and time goes on.                    *)
FairSpec == Spec /\ WF_vars(Tick) /\ \A w \in Workers : WF_vars(Continue(w))

-----------------------------------------------------------------------------
(* Safety.                                                                 *)

(* loadActorContext: a request with the support token is let through.      *)
Admits(g) == g \in sessions /\ grants[g].status = "ACTIVE" /\ MarkFor(grants[g]) = "NONE"

Approves(v, g) ==
    v.grant = g /\ v.decision = "APPROVED" /\ v.reviewer \in Reviewers
                /\ v.reviewer # grants[g].issuer

(* A support session is let through only within the review period of an    *)
(* approval that an owner or admin other than the requester gave, however  *)
(* reviews, recertifications, revocations and marks of the same grant      *)
(* overwrite each other.                                                   *)
AdmittedIsReviewed ==
    \A g \in Grants : Admits(g) =>
        \E v \in reviews : Approves(v, g) /\ now < v.at + ReviewTtl

(* No token exists for a grant that was never approved, although activation *)
(* checks the grant before the transaction that records it.                *)
SessionNeedsApproval ==
    \A g \in sessions : \E v \in reviews : Approves(v, g)

(* Tokens are issued only for what was approved, and admitted only while   *)
(* the approval lasts.                                                     *)
AccessIsReviewed == SessionNeedsApproval /\ AdmittedIsReviewed

(* A completed campaign has no pending item, although each resolution      *)
(* counts the items of the others before it commits.                       *)
CompletedCampaignIsResolved ==
    \A c \in Campaigns : campaigns[c] = "COMPLETED" =>
        \A g \in Grants : items[c][g] # "PENDING"

=============================================================================
