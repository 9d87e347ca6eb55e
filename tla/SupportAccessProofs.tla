------------------------- MODULE SupportAccessProofs -------------------------
(***************************************************************************)
(* Proofs about SupportAccess, for any number of grants, operators,        *)
(* campaigns and concurrent invocations and any review period.             *)
(***************************************************************************)
EXTENDS SupportAccess, TLAPS

-----------------------------------------------------------------------------
(* Type correctness.                                                       *)

(* The point an invocation has reached tells what it has learned.          *)
LEMMA TxShape ==
    ASSUME TypeOK, NEW w \in Workers
    PROVE  /\ tx[w].pc = "marking" => tx[w] \in Marking
           /\ tx[w].pc = "checked" => tx[w] \in Checked
           /\ tx[w].pc = "candidates" => tx[w] \in Candidates
           /\ tx[w].pc \in {"itemRead", "itemChecked"} => tx[w] \in ItemRead
           /\ tx[w].pc = "itemCounted" => tx[w] \in ItemCounted
<1>1. tx[w] \in TxStates
  BY DEF TypeOK
<1> QED
  BY <1>1 DEF TxStates, Idle, Marking, Checked, Candidates, ItemRead, ItemCounted

(* An approval never dates a review beyond the grant it is for.            *)
LEMMA ApprovedRow ==
    ASSUME TypeOK, NEW row \in GrantRow
    PROVE  /\ Approved(row) \in GrantRow
           /\ Approved(row).status = "ACTIVE"
           /\ Approved(row).issuer = row.issuer
           /\ Approved(row).reviewExpiresAt \in Deadlines
           /\ Approved(row).reviewExpiresAt <= now + ReviewTtl
<1>1. /\ row.expiresAt \in Deadlines
      /\ now \in Nat /\ ReviewTtl \in Nat \ {0} /\ MaxTime \in Nat
  BY AccessAssumption DEF TypeOK, GrantRow, Instants
<1>2. ReviewExpiry(row) \in Deadlines /\ ReviewExpiry(row) <= now + ReviewTtl
  BY <1>1 DEF ReviewExpiry, Deadlines
<1> QED
  BY <1>2 DEF Approved, GrantRow, GrantStatuses

(* The mark of a grant is one of the two statuses a reader may write.      *)
LEMMA MarkForRange ==
    ASSUME NEW row
    PROVE  MarkFor(row) \in {"EXPIRED", "RECERTIFICATION_REQUIRED", "NONE"}
BY DEF MarkFor

(* The empty workspace is well typed.                                      *)
LEMMA InitTypeOK == Init => TypeOK
<1> SUFFICES ASSUME Init PROVE TypeOK
  OBVIOUS
<1>1. now \in Instants
  BY AccessAssumption DEF Init, Instants
<1>2. grants \in [Grants -> GrantRow]
  BY DEF Init, GrantRow, GrantStatuses
<1>3. tx \in [Workers -> TxStates]
  BY DEF Init, TxStates
<1> QED
  BY <1>1, <1>2, <1>3 DEF Init, TypeOK, ItemStatuses

(* Loading and marking a grant keep the types.                             *)
LEMMA LoadTypeOK ==
    ASSUME TypeOK, NEW w \in Workers, NEW g \in Grants, NEW job \in Jobs, NEW by \in Operators,
           Load(w, g, job, by)
    PROVE  TypeOK'
<1>1. CASE MarkFor(grants[g]) = "NONE"
  <2>1. [pc |-> "checked", job |-> job, grant |-> g, by |-> by] \in TxStates
    BY DEF TxStates, Checked
  <2> QED
    BY <1>1, <2>1 DEF TypeOK, Load, Begin
<1>2. CASE MarkFor(grants[g]) # "NONE"
  <2>1. [pc |-> "marking", job |-> job, grant |-> g, by |-> by, mark |-> MarkFor(grants[g])]
            \in TxStates
    BY <1>2, MarkForRange DEF TxStates, Marking
  <2> QED
    BY <1>2, <2>1 DEF TypeOK, Load, Begin
<1> QED
  BY <1>1, <1>2

(* The mark a load decided on is written with its type.                    *)
LEMMA MarkTypeOK ==
    ASSUME TypeOK, NEW w \in Workers, Mark(w)
    PROVE  TypeOK'
<1>1. tx[w] \in Marking
  BY TxShape DEF Mark
<1>2. grants' \in [Grants -> GrantRow]
  <2>1. tx[w].grant \in Grants /\ tx[w].mark \in GrantStatuses
    BY <1>1 DEF Marking, GrantStatuses
  <2>2. [grants[tx[w].grant] EXCEPT !.status = tx[w].mark] \in GrantRow
    BY <2>1 DEF TypeOK, GrantRow
  <2> QED
    BY <2>1, <2>2 DEF TypeOK, Mark
<1>3. [pc |-> "checked", job |-> tx[w].job, grant |-> tx[w].grant, by |-> tx[w].by] \in TxStates
  BY <1>1 DEF TxStates, Checked, Marking
<1>4. Idle \in TxStates
  BY DEF TxStates
<1>5. tx' \in [Workers -> TxStates]
  BY <1>3, <1>4 DEF TypeOK, Mark, Proceed
<1> QED
  BY <1>2, <1>5 DEF TypeOK, Mark

(* Ending an invocation keeps the types.                                   *)
LEMMA FinishTypeOK ==
    ASSUME TypeOK, NEW w \in Workers, Finish(w)
    PROVE  tx' \in [Workers -> TxStates]
BY DEF TypeOK, Finish, TxStates

(* A review row is well typed, and so are the reviews with it.             *)
LEMMA ReviewedTypeOK ==
    ASSUME TypeOK, NEW g \in Grants, NEW by \in Operators,
           NEW type \in {"INITIAL", "RECERTIFICATION"}, NEW decision \in {"APPROVED", "REJECTED"},
           Reviewed(g, by, type, decision)
    PROVE  reviews' \subseteq ReviewRow
BY DEF TypeOK, Reviewed, ReviewRow

(* The transactions of the grant operations keep the types.                *)
LEMMA CommitReviewTypeOK ==
    ASSUME TypeOK, NEW w \in Workers, NEW decision \in {"APPROVED", "REJECTED"},
           CommitReview(w, decision)
    PROVE  TypeOK'
<1>1. tx[w] \in Checked
  BY TxShape DEF CommitReview
<1>2. tx[w].grant \in Grants /\ tx[w].by \in Operators
  BY <1>1 DEF Checked
<1>3. grants[tx[w].grant] \in GrantRow
  BY <1>2 DEF TypeOK
<1>4. grants' \in [Grants -> GrantRow]
  <2>1. Approved(grants[tx[w].grant]) \in GrantRow
    BY <1>3, ApprovedRow
  <2>2. [grants[tx[w].grant] EXCEPT !.status = "REJECTED", !.reviewExpiresAt = NoDeadline]
            \in GrantRow
    BY <1>3 DEF GrantRow, GrantStatuses
  <2> QED
    BY <2>1, <2>2, <1>2 DEF TypeOK, CommitReview
<1>5. reviews' \subseteq ReviewRow
  BY <1>2, ReviewedTypeOK DEF CommitReview
<1>6. tx' \in [Workers -> TxStates]
  BY FinishTypeOK DEF CommitReview
<1> QED
  BY <1>4, <1>5, <1>6 DEF TypeOK, CommitReview

(* A recertification writes a well typed grant and review.                 *)
LEMMA RecertifyTypeOK ==
    ASSUME TypeOK, NEW g \in Grants, NEW by \in Operators, Recertify(g, by)
    PROVE  grants' \in [Grants -> GrantRow] /\ reviews' \subseteq ReviewRow
<1>1. Approved(grants[g]) \in GrantRow
  BY ApprovedRow DEF TypeOK
<1>2. reviews' \subseteq ReviewRow
  BY ReviewedTypeOK DEF Recertify
<1> QED
  BY <1>1, <1>2 DEF TypeOK, Recertify

(* A revocation writes a well typed grant.                                 *)
LEMMA RevokeTypeOK ==
    ASSUME TypeOK, NEW g \in Grants, Revoke(g)
    PROVE  grants' \in [Grants -> GrantRow] /\ reviews' \subseteq ReviewRow
BY DEF TypeOK, Revoke, GrantRow, GrantStatuses

(* So do the transactions that recertify, revoke and activate a grant.     *)
LEMMA GrantCommitTypeOK ==
    ASSUME TypeOK, NEW w \in Workers, CommitRecertify(w) \/ CommitRevoke(w) \/ CommitActivate(w)
    PROVE  TypeOK'
<1>1. tx[w] \in Checked
  BY TxShape DEF CommitRecertify, CommitRevoke, CommitActivate
<1>2. tx[w].grant \in Grants /\ tx[w].by \in Operators
  BY <1>1 DEF Checked
<1>3. tx' \in [Workers -> TxStates]
  BY FinishTypeOK DEF CommitRecertify, CommitRevoke, CommitActivate
<1>4. CASE CommitRecertify(w)
  BY <1>2, <1>3, <1>4, RecertifyTypeOK DEF TypeOK, CommitRecertify
<1>5. CASE CommitRevoke(w)
  BY <1>2, <1>3, <1>5, RevokeTypeOK DEF TypeOK, CommitRevoke
<1>6. CASE CommitActivate(w)
  BY <1>2, <1>3, <1>6 DEF TypeOK, CommitActivate
<1> QED
  BY <1>4, <1>5, <1>6

(* The steps of a review campaign keep the types.                          *)
LEMMA CampaignTypeOK ==
    ASSUME TypeOK, NEW w \in Workers,
           ReadCandidates(w) \/ \E c \in Campaigns : CommitCampaign(w, c)
    PROVE  TypeOK'
<1>1. CASE ReadCandidates(w)
  <2>1. [pc |-> "candidates",
         found |-> {g \in Grants : IsCandidate(grants[g])}] \in TxStates
    BY DEF TxStates, Candidates
  <2> QED
    BY <1>1, <2>1 DEF TypeOK, ReadCandidates, Begin
<1>2. CASE \E c \in Campaigns : CommitCampaign(w, c)
  <2>1. PICK c \in Campaigns : CommitCampaign(w, c)
    BY <1>2
  <2>2. tx' \in [Workers -> TxStates]
    BY <2>1, FinishTypeOK DEF CommitCampaign
  <2>3. items' \in [Campaigns -> [Grants -> ItemStatuses]]
    BY <2>1 DEF TypeOK, CommitCampaign, ItemStatuses
  <2> QED
    BY <2>1, <2>2, <2>3 DEF TypeOK, CommitCampaign
<1> QED
  BY <1>1, <1>2

(* Reading, checking and counting campaign items keep the types.           *)
LEMMA ItemTypeOK ==
    ASSUME TypeOK, NEW w \in Workers,
           \/ \E c \in Campaigns, g \in Grants, action \in ItemActions, by \in Operators :
                 ReadItem(w, c, g, action, by)
           \/ CheckItem(w)
           \/ CountItems(w)
    PROVE  TypeOK'
<1>1. CASE \E c \in Campaigns, g \in Grants, action \in ItemActions, by \in Operators :
                 ReadItem(w, c, g, action, by)
  <2>1. PICK c \in Campaigns, g \in Grants, action \in ItemActions, by \in Operators :
                 ReadItem(w, c, g, action, by)
    BY <1>1
  <2>2. [pc |-> "itemRead", campaign |-> c, grant |-> g, action |-> action, by |-> by] \in TxStates
    BY DEF TxStates, ItemRead
  <2> QED
    BY <2>1, <2>2 DEF TypeOK, ReadItem, Begin
<1>2. CASE CheckItem(w)
  <2>1. tx[w] \in ItemRead
    BY <1>2, TxShape DEF CheckItem
  <2>2. [tx[w] EXCEPT !.pc = "itemChecked"] \in TxStates
    BY <2>1 DEF TxStates, ItemRead
  <2> QED
    BY <1>2, <2>2 DEF TypeOK, CheckItem, Proceed
<1>3. CASE CountItems(w)
  <2>1. tx[w] \in ItemRead
    BY <1>3, TxShape DEF CountItems
  <2>2. [pc |-> "itemCounted", campaign |-> tx[w].campaign, grant |-> tx[w].grant,
         action |-> tx[w].action, by |-> tx[w].by,
         last |-> NoItemLeft(tx[w].campaign, tx[w].grant)] \in TxStates
    BY <2>1 DEF TxStates, ItemRead, ItemCounted, NoItemLeft
  <2> QED
    BY <1>3, <2>2 DEF TypeOK, CountItems, Proceed
<1> QED
  BY <1>1, <1>2, <1>3

(* Committing the resolution of an item keeps the types.                   *)
LEMMA CommitItemTypeOK ==
    ASSUME TypeOK, NEW w \in Workers, CommitItem(w)
    PROVE  TypeOK'
<1>1. tx[w] \in ItemCounted
  BY TxShape DEF CommitItem
<1>2. tx[w].campaign \in Campaigns /\ tx[w].grant \in Grants /\ tx[w].by \in Operators
  BY <1>1 DEF ItemCounted
<1>3. grants' \in [Grants -> GrantRow] /\ reviews' \subseteq ReviewRow
  BY <1>2, RecertifyTypeOK, RevokeTypeOK DEF CommitItem
<1>4. tx' \in [Workers -> TxStates]
  BY FinishTypeOK DEF CommitItem
<1>5. items' \in [Campaigns -> [Grants -> ItemStatuses]]
  BY <1>2 DEF TypeOK, CommitItem, ItemStatuses
<1>6. campaigns' \in [Campaigns -> {"ABSENT", "OPEN", "COMPLETED"}]
  BY <1>2 DEF TypeOK, CommitItem
<1> QED
  BY <1>3, <1>4, <1>5, <1>6 DEF TypeOK, CommitItem

(* Every step keeps the types.                                             *)
LEMMA NextTypeOK == TypeOK /\ [Next]_vars => TypeOK'
<1> SUFFICES ASSUME TypeOK, [Next]_vars PROVE TypeOK'
  OBVIOUS
<1>1. CASE Tick
  BY <1>1, AccessAssumption DEF TypeOK, Tick, Instants
<1>2. CASE \E g \in Grants : Issue(g)
  <2>1. PICK g \in Grants : Issue(g)
    BY <1>2
  <2>2. [grants[g] EXCEPT !.status = "PENDING_REVIEW"] \in GrantRow
    BY DEF TypeOK, GrantRow, GrantStatuses
  <2> QED
    BY <2>1, <2>2 DEF TypeOK, Issue
<1>3. ASSUME NEW w \in Workers, Serve(w) PROVE TypeOK'
  BY <1>3, LoadTypeOK, CampaignTypeOK, ItemTypeOK DEF Serve
<1>4. ASSUME NEW w \in Workers, Continue(w) PROVE TypeOK'
  <2>1. CASE Abort(w)
    BY <2>1, FinishTypeOK DEF TypeOK, Abort
  <2> QED
    BY <1>4, <2>1, MarkTypeOK, CommitReviewTypeOK, GrantCommitTypeOK, CampaignTypeOK, ItemTypeOK,
       CommitItemTypeOK DEF Continue
<1>5. CASE UNCHANGED vars
  BY <1>5 DEF vars, TypeOK
<1> QED
  BY <1>1, <1>2, <1>3, <1>4, <1>5 DEF Next

(* Every row and every invocation of the support-access operations keeps   *)
(* its type; in particular no review outlives the grant.                   *)
THEOREM TypeCorrect == Spec => []TypeOK
BY InitTypeOK, NextTypeOK, PTL DEF Spec

-----------------------------------------------------------------------------
(* Support sessions rest on approvals.                                     *)

HasApproval(g) == \E v \in reviews : Approves(v, g)

(* An active grant was approved less than a review period before its       *)
(* review expires: this outlives the marks and revocations that only ever  *)
(* close a grant.                                                          *)
ActiveIsApproved ==
    \A g \in Grants : grants[g].status = "ACTIVE" =>
        /\ grants[g].reviewExpiresAt # NoDeadline
        /\ \E v \in reviews : Approves(v, g) /\ grants[g].reviewExpiresAt <= v.at + ReviewTtl

(* What an invocation checked and may still rely on when it commits: who   *)
(* may review, because a grant keeps its issuer, and that the grant was    *)
(* once approved, because reviews are never deleted.                       *)
CheckHolds(t) ==
    /\ \/ t.pc = "checked" /\ t.job \in {"REVIEW", "RECERTIFY"}
       \/ t.pc \in {"itemChecked", "itemCounted"} /\ t.action = "RECERTIFY"
       => MayReview(t.by, grants[t.grant])
    /\ t.pc = "checked" /\ t.job = "ACTIVATE" => HasApproval(t.grant)

ChecksHold == \A w \in Workers : CheckHolds(tx[w])

AccessInv == TypeOK /\ ActiveIsApproved /\ ChecksHold /\ SessionNeedsApproval

(* No step changes the issuer of a grant or deletes a review.              *)
Preserves ==
    /\ reviews \subseteq reviews'
    /\ \A g \in Grants : grants'[g].issuer = grants[g].issuer

(* An approval, and the right to review, survive such a step.              *)
LEMMA ApprovalsKept ==
    ASSUME Preserves, NEW g \in Grants
    PROVE  /\ \A v \in reviews : Approves(v, g) => v \in reviews' /\ Approves(v, g)'
           /\ HasApproval(g) => HasApproval(g)'
           /\ \A by \in Operators : MayReview(by, grants[g]) => MayReview(by, grants'[g])
BY DEF Preserves, Approves, HasApproval, MayReview

(* An active row that the step did not touch keeps its approval.           *)
LEMMA ActiveKept ==
    ASSUME ActiveIsApproved, Preserves, NEW g \in Grants, grants'[g] = grants[g]
    PROVE  grants'[g].status = "ACTIVE" =>
              /\ grants'[g].reviewExpiresAt # NoDeadline
              /\ \E v \in reviews' : Approves(v, g)' /\ grants'[g].reviewExpiresAt <= v.at + ReviewTtl
BY ApprovalsKept DEF ActiveIsApproved

(* A step whose active grants are untouched preserves the invariant about  *)
(* them.                                                                   *)
LEMMA ActiveUntouched ==
    ASSUME ActiveIsApproved, Preserves,
           \A g \in Grants : grants'[g].status = "ACTIVE" => grants'[g] = grants[g]
    PROVE  ActiveIsApproved'
<1> SUFFICES ASSUME NEW g \in Grants, grants'[g].status = "ACTIVE"
             PROVE  /\ grants'[g].reviewExpiresAt # NoDeadline
                    /\ \E v \in reviews' :
                          Approves(v, g)' /\ grants'[g].reviewExpiresAt <= v.at + ReviewTtl
  BY DEF ActiveIsApproved
<1> QED
  BY ActiveKept

(* What was checked still holds after a step that checks nothing new, or   *)
(* whose own check holds.                                                  *)
LEMMA ChecksKept ==
    ASSUME TypeOK, ChecksHold, Preserves,
           \A w \in Workers : tx'[w] = tx[w] \/ CheckHolds(tx[w])'
    PROVE  ChecksHold'
<1> SUFFICES ASSUME NEW w \in Workers, tx'[w] = tx[w] PROVE CheckHolds(tx[w])'
  BY DEF ChecksHold
<1>1. tx[w].pc \in {"checked", "itemChecked", "itemCounted"} =>
         tx[w].grant \in Grants /\ tx[w].by \in Operators
  BY TxShape DEF Checked, ItemRead, ItemCounted
<1>2. CheckHolds(tx[w])
  BY DEF ChecksHold
<1>3. /\ \/ tx[w].pc = "checked" /\ tx[w].job \in {"REVIEW", "RECERTIFY"}
         \/ tx[w].pc \in {"itemChecked", "itemCounted"} /\ tx[w].action = "RECERTIFY"
         => MayReview(tx[w].by, grants'[tx[w].grant])
      /\ tx[w].pc = "checked" /\ tx[w].job = "ACTIVATE" => HasApproval(tx[w].grant)'
  BY <1>1, <1>2, ApprovalsKept DEF CheckHolds
<1>4. CheckHolds(tx[w])' <=>
        (/\ \/ tx'[w].pc = "checked" /\ tx'[w].job \in {"REVIEW", "RECERTIFY"}
            \/ tx'[w].pc \in {"itemChecked", "itemCounted"} /\ tx'[w].action = "RECERTIFY"
            => MayReview(tx'[w].by, grants'[tx'[w].grant])
         /\ tx'[w].pc = "checked" /\ tx'[w].job = "ACTIVATE" => HasApproval(tx[w].grant)')
  BY DEF CheckHolds, HasApproval, Approves, MayReview
<1> QED
  BY <1>3, <1>4

(* A session keeps the approval it rests on.                               *)
LEMMA SessionsKept ==
    ASSUME TypeOK, SessionNeedsApproval, Preserves, sessions' = sessions
    PROVE  SessionNeedsApproval'
BY ApprovalsKept DEF TypeOK, SessionNeedsApproval, HasApproval

(* An approval makes a grant active within the period of the review it     *)
(* records.                                                                *)
LEMMA ApprovalInv ==
    ASSUME AccessInv, NEW g \in Grants, NEW by \in Operators,
           NEW type \in {"INITIAL", "RECERTIFICATION"},
           MayReview(by, grants[g]),
           grants' = [grants EXCEPT ![g] = Approved(@)],
           Reviewed(g, by, type, "APPROVED")
    PROVE  Preserves /\ ActiveIsApproved'
<1>1. grants[g] \in GrantRow /\ grants'[g] = Approved(grants[g])
  BY DEF AccessInv, TypeOK
<1>2. /\ grants'[g].issuer = grants[g].issuer
      /\ grants'[g].reviewExpiresAt \in Deadlines
      /\ grants'[g].reviewExpiresAt <= now + ReviewTtl
  BY <1>1, ApprovedRow DEF AccessInv
<1>3. Preserves
  BY <1>2 DEF Preserves, Reviewed, AccessInv, TypeOK
<1>4. ASSUME NEW h \in Grants, grants'[h].status = "ACTIVE"
      PROVE  /\ grants'[h].reviewExpiresAt # NoDeadline
             /\ \E v \in reviews' : Approves(v, h)' /\ grants'[h].reviewExpiresAt <= v.at + ReviewTtl
  <2>1. CASE h # g
    <3>0. ActiveIsApproved
      BY DEF AccessInv
    <3>1. grants'[h] = grants[h]
      BY <2>1 DEF AccessInv, TypeOK
    <3> QED
      BY <1>3, <1>4, <3>1, <3>0, ActiveKept DEF Approves
  <2>2. CASE h = g
    <3>1. PICK v \in reviews' : v = [grant |-> g, reviewer |-> by, type |-> type,
                                    decision |-> "APPROVED", at |-> now]
      BY DEF Reviewed
    <3>2. Approves(v, g)'
      BY <1>2, <3>1 DEF Approves, MayReview
    <3>3. grants'[g].reviewExpiresAt <= v.at + ReviewTtl
      BY <1>2, <3>1
    <3>4. grants'[g].reviewExpiresAt # NoDeadline
      BY <1>2, AccessAssumption DEF Deadlines, NoDeadline
    <3> QED
      BY <2>2, <3>1, <3>2, <3>3, <3>4
  <2> QED
    BY <2>1, <2>2
<1> QED
  BY <1>3, <1>4 DEF ActiveIsApproved

(* Where a step of one worker leaves the transactions of the others.       *)
LEMMA OthersWait ==
    ASSUME TypeOK, NEW w \in Workers, NEW state, tx' = [tx EXCEPT ![w] = state]
    PROVE  tx'[w] = state /\ \A u \in Workers \ {w} : tx'[u] = tx[u]
BY DEF TypeOK

(* The empty workspace has nothing to approve.                             *)
LEMMA InitAccessInv == Init => AccessInv
<1> SUFFICES ASSUME Init PROVE AccessInv
  OBVIOUS
<1>1. TypeOK
  BY InitTypeOK
<1>2. \A g \in Grants : grants[g].status = "ABSENT"
  BY DEF Init
<1>3. \A w \in Workers : tx[w].pc = "idle"
  BY DEF Init, Idle
<1> QED
  BY <1>1, <1>2, <1>3 DEF Init, AccessInv, ActiveIsApproved, ChecksHold, CheckHolds,
     SessionNeedsApproval

(* A step that touches neither grants, reviews nor sessions preserves the  *)
(* invariant when what it checked holds.                                   *)
LEMMA ReadOnlyStep ==
    ASSUME AccessInv, TypeOK', NEW w \in Workers, NEW state,
           UNCHANGED <<grants, reviews, sessions>>,
           tx' = [tx EXCEPT ![w] = state],
           CheckHolds(state)
    PROVE  AccessInv'
<1>1. Preserves
  BY DEF Preserves
<1>2. ActiveIsApproved'
  BY <1>1, ActiveUntouched DEF AccessInv
<1>3. CheckHolds(tx[w])'
  <2>1. tx'[w] = state
    BY OthersWait DEF AccessInv
  <2> QED
    BY <2>1 DEF CheckHolds, HasApproval, Approves, MayReview
<1>4. ChecksHold'
  BY <1>1, <1>3, OthersWait, ChecksKept DEF AccessInv
<1>5. SessionNeedsApproval'
  BY <1>1, SessionsKept DEF AccessInv
<1> QED
  BY <1>2, <1>4, <1>5 DEF AccessInv

(* A transaction that ends an invocation preserves the invariant when it   *)
(* preserves what is said of active grants and sessions.                   *)
LEMMA CommitStep ==
    ASSUME AccessInv, TypeOK', NEW w \in Workers, Finish(w),
           Preserves, ActiveIsApproved', SessionNeedsApproval'
    PROVE  AccessInv'
<1>1. tx'[w] = Idle /\ \A u \in Workers \ {w} : tx'[u] = tx[u]
  BY OthersWait DEF AccessInv, Finish
<1>2. CheckHolds(tx[w])'
  BY <1>1 DEF CheckHolds, Idle
<1>3. ChecksHold'
  BY <1>1, <1>2, ChecksKept DEF AccessInv
<1> QED
  BY <1>3 DEF AccessInv

(* An invocation that holds no check of a grant has nothing to rely on.    *)
LEMMA NoCheck ==
    ASSUME NEW t, t.pc \notin {"checked", "itemChecked", "itemCounted"}
    PROVE  CheckHolds(t)
BY DEF CheckHolds

(* Loading a grant: the checks hold of the row that was loaded.            *)
LEMMA LoadInv ==
    ASSUME AccessInv, TypeOK', NEW w \in Workers, NEW g \in Grants, NEW job \in Jobs,
           NEW by \in Operators, Load(w, g, job, by)
    PROVE  AccessInv'
<1>1. CASE MarkFor(grants[g]) = "NONE"
  <2>1. Accepts(job, by, grants[g])
    BY <1>1 DEF Load
  <2>2. job \in {"REVIEW", "RECERTIFY"} => MayReview(by, grants[g])
    BY <2>1 DEF Accepts, Reviewable, Recertifiable, Activatable
  <2>3. job = "ACTIVATE" => HasApproval(g)
    BY <2>1 DEF Accepts, Activatable, AccessInv, ActiveIsApproved, HasApproval
  <2>4. CheckHolds([pc |-> "checked", job |-> job, grant |-> g, by |-> by])
    BY <2>2, <2>3 DEF CheckHolds
  <2> QED
    BY <1>1, <2>4, ReadOnlyStep DEF Load, Begin
<1>2. CASE MarkFor(grants[g]) # "NONE"
  <2>1. CheckHolds([pc |-> "marking", job |-> job, grant |-> g, by |-> by,
                    mark |-> MarkFor(grants[g])])
    BY NoCheck
  <2> QED
    BY <1>2, <2>1, ReadOnlyStep DEF Load, Begin
<1> QED
  BY <1>1, <1>2

(* The mark closes the grant, so nothing about active grants is lost, and  *)
(* a marked grant is neither reviewed for the first time nor activated.    *)
LEMMA MarkInv ==
    ASSUME AccessInv, TypeOK', NEW w \in Workers, Mark(w)
    PROVE  AccessInv'
<1> DEFINE t == tx[w]
           marked == [grants[t.grant] EXCEPT !.status = t.mark]
<1>1. t \in Marking
  BY TxShape DEF Mark, AccessInv
<1>2. t.grant \in Grants /\ t.by \in Operators /\ t.mark \in {"EXPIRED", "RECERTIFICATION_REQUIRED"}
  BY <1>1 DEF Marking
<1>3. /\ marked.status = t.mark
      /\ marked.issuer = grants[t.grant].issuer
  BY <1>2 DEF AccessInv, TypeOK, GrantRow
<1>4. \A g \in Grants : grants'[g] = IF g = t.grant THEN marked ELSE grants[g]
  BY <1>2 DEF Mark, AccessInv, TypeOK
<1>5. Preserves
  BY <1>3, <1>4 DEF Mark, Preserves
<1>6. ActiveIsApproved'
  <2>1. \A g \in Grants : grants'[g].status = "ACTIVE" => grants'[g] = grants[g]
    BY <1>2, <1>3, <1>4
  <2> QED
    BY <1>5, <2>1, ActiveUntouched DEF AccessInv
<1>7. CheckHolds(tx[w])'
  <2>1. CASE Accepts(t.job, t.by, marked)
    <3>1. tx'[w] = [pc |-> "checked", job |-> t.job, grant |-> t.grant, by |-> t.by]
      BY <2>1, OthersWait DEF Mark, Proceed, AccessInv
    <3>2. t.job \in {"REVIEW", "RECERTIFY"} => MayReview(t.by, grants'[t.grant])
      BY <2>1, <1>2, <1>3, <1>4 DEF Accepts, Reviewable, Recertifiable, MayReview
    <3>3. t.job # "ACTIVATE"
      BY <2>1, <1>2, <1>3 DEF Accepts, Reviewable, Recertifiable, Activatable
    <3> QED
      BY <3>1, <3>2, <3>3 DEF CheckHolds, MayReview
  <2>2. CASE ~Accepts(t.job, t.by, marked)
    <3>1. tx'[w] = Idle
      BY <2>2, OthersWait DEF Mark, Proceed, AccessInv
    <3> QED
      BY <3>1 DEF CheckHolds, Idle
  <2> QED
    BY <2>1, <2>2
<1>8. ChecksHold'
  <2>1. \A u \in Workers \ {w} : tx'[u] = tx[u]
    BY OthersWait DEF Mark, Proceed, AccessInv
  <2> QED
    BY <1>5, <1>7, <2>1, ChecksKept DEF AccessInv
<1>9. SessionNeedsApproval'
  BY <1>5, SessionsKept DEF Mark, AccessInv
<1> QED
  BY <1>6, <1>8, <1>9 DEF AccessInv

(* The decision of a review and a recertification: the reviewer was        *)
(* checked when the grant was loaded, and the issuer is still the same.    *)
LEMMA CommitReviewInv ==
    ASSUME AccessInv, TypeOK', NEW w \in Workers, NEW decision \in {"APPROVED", "REJECTED"},
           CommitReview(w, decision)
    PROVE  AccessInv'
<1> DEFINE t == tx[w]
<1>1. t.grant \in Grants /\ t.by \in Operators
  BY TxShape DEF CommitReview, AccessInv, Checked
<1>2. MayReview(t.by, grants[t.grant])
  BY DEF CommitReview, AccessInv, ChecksHold, CheckHolds
<1>3. Preserves /\ ActiveIsApproved'
  <2>1. CASE decision = "APPROVED"
    BY <1>1, <1>2, <2>1, ApprovalInv DEF CommitReview
  <2>2. CASE decision = "REJECTED"
    <3>1. grants[t.grant] \in GrantRow
      BY <1>1 DEF AccessInv, TypeOK
    <3>2. \A g \in Grants : grants'[g] =
             IF g = t.grant
             THEN [grants[g] EXCEPT !.status = "REJECTED", !.reviewExpiresAt = NoDeadline]
             ELSE grants[g]
      BY <1>1, <2>2 DEF CommitReview, AccessInv, TypeOK
    <3>3. /\ grants'[t.grant].status = "REJECTED"
          /\ grants'[t.grant].issuer = grants[t.grant].issuer
      BY <1>1, <3>1, <3>2 DEF GrantRow
    <3>4. Preserves
      BY <3>2, <3>3 DEF CommitReview, Reviewed, Preserves
    <3>5. \A g \in Grants : grants'[g].status = "ACTIVE" => grants'[g] = grants[g]
      BY <3>2, <3>3
    <3> QED
      BY <3>4, <3>5, ActiveUntouched DEF AccessInv
  <2> QED
    BY <2>1, <2>2
<1>4. SessionNeedsApproval'
  BY <1>3, SessionsKept DEF CommitReview, AccessInv
<1> QED
  BY <1>3, <1>4, CommitStep DEF CommitReview

(* A revocation only closes a grant.                                       *)
LEMMA RevokeInv ==
    ASSUME AccessInv, NEW g \in Grants, Revoke(g)
    PROVE  Preserves /\ ActiveIsApproved'
<1>1. \A h \in Grants : grants'[h] = IF h = g THEN [grants[g] EXCEPT !.status = "REVOKED"]
                                     ELSE grants[h]
  BY DEF Revoke, AccessInv, TypeOK
<1>2. grants'[g].status = "REVOKED" /\ grants'[g].issuer = grants[g].issuer
  BY <1>1 DEF AccessInv, TypeOK, GrantRow
<1>3. Preserves
  BY <1>1, <1>2 DEF Revoke, Preserves
<1>4. \A h \in Grants : grants'[h].status = "ACTIVE" => grants'[h] = grants[h]
  BY <1>1, <1>2
<1> QED
  BY <1>3, <1>4, ActiveUntouched DEF AccessInv

(* Recertification, revocation and activation preserve the invariant.      *)
LEMMA GrantCommitInv ==
    ASSUME AccessInv, TypeOK', NEW w \in Workers,
           CommitRecertify(w) \/ CommitRevoke(w) \/ CommitActivate(w)
    PROVE  AccessInv'
<1> DEFINE t == tx[w]
<1>1. t.grant \in Grants /\ t.by \in Operators
  BY TxShape DEF CommitRecertify, CommitRevoke, CommitActivate, AccessInv, Checked
<1>2. CheckHolds(t)
  BY DEF AccessInv, ChecksHold
<1>3. CASE CommitRecertify(w)
  <2>1. MayReview(t.by, grants[t.grant])
    BY <1>2, <1>3 DEF CommitRecertify, CheckHolds
  <2>2. Preserves /\ ActiveIsApproved'
    BY <1>1, <1>3, <2>1, ApprovalInv DEF CommitRecertify, Recertify
  <2>3. SessionNeedsApproval'
    BY <1>3, <2>2, SessionsKept DEF CommitRecertify, AccessInv
  <2> QED
    BY <1>3, <2>2, <2>3, CommitStep DEF CommitRecertify
<1>4. CASE CommitRevoke(w)
  <2>1. Preserves /\ ActiveIsApproved'
    BY <1>1, <1>4, RevokeInv DEF CommitRevoke
  <2>2. SessionNeedsApproval'
    BY <1>4, <2>1, SessionsKept DEF CommitRevoke, AccessInv
  <2> QED
    BY <1>4, <2>1, <2>2, CommitStep DEF CommitRevoke
<1>5. CASE CommitActivate(w)
  <2>1. HasApproval(t.grant)
    BY <1>2, <1>5 DEF CommitActivate, CheckHolds
  <2>2. Preserves
    BY <1>5 DEF CommitActivate, Preserves
  <2>3. ActiveIsApproved'
    BY <1>5, <2>2, ActiveUntouched DEF CommitActivate, AccessInv
  <2>4. SessionNeedsApproval'
    BY <1>1, <1>5, <2>1 DEF CommitActivate, SessionNeedsApproval, HasApproval, Approves, AccessInv
  <2> QED
    BY <1>5, <2>2, <2>3, <2>4, CommitStep DEF CommitActivate
<1> QED
  BY <1>3, <1>4, <1>5

(* Resolving a campaign item: as a recertification or a revocation.        *)
LEMMA ItemInv ==
    ASSUME AccessInv, TypeOK', NEW w \in Workers, CheckItem(w) \/ CountItems(w) \/ CommitItem(w)
    PROVE  AccessInv'
<1> DEFINE t == tx[w]
           row == grants[t.grant]
           marked == IF MarkFor(row) = "NONE" THEN row ELSE [row EXCEPT !.status = MarkFor(row)]
<1>1. CASE CheckItem(w)
  <2>1. t \in ItemRead
    BY <1>1, TxShape DEF CheckItem, AccessInv
  <2>2. /\ [t EXCEPT !.pc = "itemChecked"].pc = "itemChecked"
        /\ [t EXCEPT !.pc = "itemChecked"].action = t.action
        /\ [t EXCEPT !.pc = "itemChecked"].by = t.by
        /\ [t EXCEPT !.pc = "itemChecked"].grant = t.grant
    BY <2>1 DEF ItemRead
  <2>3. marked.issuer = row.issuer
    BY <2>1 DEF ItemRead, AccessInv, TypeOK, GrantRow
  <2>4. t.action = "RECERTIFY" => MayReview(t.by, row)
    BY <1>1, <2>3 DEF CheckItem, Accepts, Reviewable, Recertifiable, MayReview
  <2>5. CheckHolds([t EXCEPT !.pc = "itemChecked"])
    BY <2>2, <2>4 DEF CheckHolds
  <2> QED
    BY <1>1, <2>5, ReadOnlyStep DEF CheckItem, Proceed
<1>2. CASE CountItems(w)
  <2>1. CheckHolds(t)
    BY DEF AccessInv, ChecksHold
  <2>2. CheckHolds([pc |-> "itemCounted", campaign |-> t.campaign, grant |-> t.grant,
                    action |-> t.action, by |-> t.by, last |-> NoItemLeft(t.campaign, t.grant)])
    BY <1>2, <2>1 DEF CheckHolds, CountItems
  <2> QED
    BY <1>2, <2>2, ReadOnlyStep DEF CountItems, Proceed
<1>3. CASE CommitItem(w)
  <2>1. t.grant \in Grants /\ t.by \in Operators
    BY <1>3, TxShape DEF CommitItem, AccessInv, ItemCounted
  <2>2. t.action = "RECERTIFY" => MayReview(t.by, grants[t.grant])
    BY <1>3 DEF CommitItem, AccessInv, ChecksHold, CheckHolds
  <2>3. Preserves /\ ActiveIsApproved'
    BY <1>3, <2>1, <2>2, ApprovalInv, RevokeInv DEF CommitItem, Recertify
  <2>4. SessionNeedsApproval'
    BY <1>3, <2>3, SessionsKept DEF CommitItem, AccessInv
  <2> QED
    BY <1>3, <2>3, <2>4, CommitStep DEF CommitItem
<1> QED
  BY <1>1, <1>2, <1>3

(* Steps that leave grants, reviews and sessions alone and check nothing.  *)
LEMMA QuietStepInv ==
    ASSUME AccessInv, TypeOK', NEW w \in Workers,
           \/ ReadCandidates(w)
           \/ \E c \in Campaigns : CommitCampaign(w, c)
           \/ \E c \in Campaigns, g \in Grants, action \in ItemActions, by \in Operators :
                 ReadItem(w, c, g, action, by)
           \/ Abort(w)
    PROVE  AccessInv'
<1>1. UNCHANGED <<grants, reviews, sessions>>
  BY DEF ReadCandidates, CommitCampaign, ReadItem, Abort
<1>2. \E state : tx' = [tx EXCEPT ![w] = state] /\ CheckHolds(state)
  <2>1. CASE ReadCandidates(w)
    BY <2>1, NoCheck DEF ReadCandidates, Begin
  <2>2. CASE (\E c \in Campaigns : CommitCampaign(w, c)) \/ Abort(w)
    BY <2>2, NoCheck DEF CommitCampaign, Abort, Finish, Idle
  <2>3. CASE \E c \in Campaigns, g \in Grants, action \in ItemActions, by \in Operators :
                 ReadItem(w, c, g, action, by)
    BY <2>3, NoCheck DEF ReadItem, Begin
  <2> QED
    BY <2>1, <2>2, <2>3
<1> QED
  BY <1>1, <1>2, ReadOnlyStep

(* Every step preserves the invariant.                                     *)
LEMMA NextAccessInv == AccessInv /\ [Next]_vars => AccessInv'
<1> SUFFICES ASSUME AccessInv, [Next]_vars PROVE AccessInv'
  OBVIOUS
<1>1. TypeOK'
  BY NextTypeOK DEF AccessInv
<1>2. ASSUME UNCHANGED <<reviews, sessions, tx>>, Preserves, ActiveIsApproved' PROVE AccessInv'
  BY <1>1, <1>2, ChecksKept, SessionsKept DEF AccessInv
<1>3. CASE Tick \/ UNCHANGED vars
  <2>1. Preserves
    BY <1>3 DEF Tick, vars, Preserves
  <2>2. ActiveIsApproved'
    BY <1>3, <2>1, ActiveUntouched DEF Tick, vars, AccessInv
  <2> QED
    BY <1>2, <1>3, <2>1, <2>2 DEF Tick, vars
<1>4. CASE \E g \in Grants : Issue(g)
  <2>1. PICK g \in Grants : Issue(g)
    BY <1>4
  <2>2. \A h \in Grants : grants'[h] = IF h = g THEN [grants[g] EXCEPT !.status = "PENDING_REVIEW"]
                                       ELSE grants[h]
    BY <2>1 DEF Issue, AccessInv, TypeOK
  <2>3. grants'[g].status = "PENDING_REVIEW" /\ grants'[g].issuer = grants[g].issuer
    BY <2>2 DEF AccessInv, TypeOK, GrantRow
  <2>4. Preserves
    BY <2>1, <2>2, <2>3 DEF Issue, Preserves
  <2>5. ActiveIsApproved'
    BY <2>2, <2>3, <2>4, ActiveUntouched DEF AccessInv
  <2> QED
    BY <1>2, <2>1, <2>4, <2>5 DEF Issue
<1>5. ASSUME NEW w \in Workers, Serve(w) PROVE AccessInv'
  BY <1>1, <1>5, LoadInv, QuietStepInv DEF Serve
<1>6. ASSUME NEW w \in Workers, Continue(w) PROVE AccessInv'
  BY <1>1, <1>6, MarkInv, CommitReviewInv, GrantCommitInv, QuietStepInv, ItemInv DEF Continue
<1> QED
  BY <1>3, <1>4, <1>5, <1>6 DEF Next

(* What the invariant says of a request with a support token: the grant is *)
(* active and not due, and so is the approval it rests on.                 *)
LEMMA AccessInvAdmits == AccessInv => AdmittedIsReviewed
<1> SUFFICES ASSUME AccessInv, NEW g \in Grants, Admits(g)
             PROVE  \E v \in reviews : Approves(v, g) /\ now < v.at + ReviewTtl
  BY DEF AdmittedIsReviewed
<1>1. /\ grants[g].status = "ACTIVE"
      /\ grants[g].reviewExpiresAt # NoDeadline
      /\ ~(grants[g].reviewExpiresAt <= now)
  BY DEF Admits, MarkFor, AccessInv, ActiveIsApproved
<1>2. PICK v \in reviews : Approves(v, g) /\ grants[g].reviewExpiresAt <= v.at + ReviewTtl
  BY <1>1 DEF AccessInv, ActiveIsApproved
<1>3. now \in Nat /\ v.at \in Nat /\ grants[g].reviewExpiresAt \in Nat /\ ReviewTtl \in Nat
  BY AccessAssumption DEF AccessInv, TypeOK, Instants, ReviewRow, GrantRow, NoDeadline, Deadlines
<1> QED
  BY <1>1, <1>2, <1>3

(* Whatever reviews, recertifications, revocations and marks overwrite     *)
(* each other, a support session is let through only within the review     *)
(* period of an approval by an owner or admin other than the requester.    *)
THEOREM AdmittedSessionsAreReviewed == Spec => []AdmittedIsReviewed
<1>1. Spec => []AccessInv
  BY InitAccessInv, NextAccessInv, PTL DEF Spec
<1> QED
  BY <1>1, AccessInvAdmits, PTL

(* No support token exists for a grant that was never approved.            *)
THEOREM SessionsNeedApproval == Spec => []SessionNeedsApproval
<1>1. Spec => []AccessInv
  BY InitAccessInv, NextAccessInv, PTL DEF Spec
<1>2. AccessInv => SessionNeedsApproval
  BY DEF AccessInv
<1> QED
  BY <1>1, <1>2, PTL

(* Both at once.                                                           *)
THEOREM ReviewedAccess == Spec => []AccessIsReviewed
  BY AdmittedSessionsAreReviewed, SessionsNeedApproval, PTL DEF AccessIsReviewed

-----------------------------------------------------------------------------
(* Review campaigns.                                                       *)

(* What the resolution of an item has learned of the campaign stays true   *)
(* until it commits: the campaign exists, and once no other item is        *)
(* pending none becomes pending again.                                     *)
ItemHolds(t) ==
    /\ t.pc \in {"itemRead", "itemChecked", "itemCounted"} => campaigns[t.campaign] # "ABSENT"
    /\ t.pc = "itemCounted" /\ t.last => NoItemLeft(t.campaign, t.grant)

CampaignInv ==
    /\ CompletedCampaignIsResolved
    /\ \A w \in Workers : ItemHolds(tx[w])

(* A campaign that exists is not opened again, and its items only leave    *)
(* the pending state.                                                      *)
CampaignsMoveOn ==
    \A c \in Campaigns : campaigns[c] # "ABSENT" =>
        /\ campaigns'[c] # "ABSENT"
        /\ \A g \in Grants : items'[c][g] = "PENDING" => items[c][g] = "PENDING"

(* As long as campaigns only move on, what a resolution knows stays true.  *)
LEMMA ItemKept ==
    ASSUME TypeOK, CampaignsMoveOn, NEW w \in Workers, ItemHolds(tx[w]), tx'[w] = tx[w]
    PROVE  ItemHolds(tx[w])'
<1>1. tx[w].pc \in {"itemRead", "itemChecked", "itemCounted"} => tx[w].campaign \in Campaigns
  BY TxShape DEF ItemRead, ItemCounted
<1> QED
  BY <1>1 DEF ItemHolds, CampaignsMoveOn, NoItemLeft

(* A step of w that leaves campaigns and items alone.                      *)
LEMMA CampaignsAlone ==
    ASSUME TypeOK, CampaignInv, NEW w \in Workers, NEW state, ItemHolds(state),
           tx' = [tx EXCEPT ![w] = state], UNCHANGED <<campaigns, items>>
    PROVE  CampaignInv'
<1>1. tx'[w] = state /\ \A v \in Workers : v # w => tx'[v] = tx[v]
  BY DEF TypeOK
<1>2. \A v \in Workers : ItemHolds(tx[v])'
  BY <1>1 DEF CampaignInv, ItemHolds, NoItemLeft
<1> QED
  BY <1>2 DEF CampaignInv, CompletedCampaignIsResolved

(* Outside the resolution of an item there is nothing to know.             *)
LEMMA NoItem ==
    ASSUME NEW state, state.pc \notin {"itemRead", "itemChecked", "itemCounted"}
    PROVE  ItemHolds(state)
BY DEF ItemHolds

(* A new campaign is one nobody is resolving an item of.                   *)
LEMMA CommitCampaignInv ==
    ASSUME TypeOK, CampaignInv, NEW w \in Workers, NEW c \in Campaigns, CommitCampaign(w, c)
    PROVE  CampaignInv'
<1>1. /\ campaigns'[c] = "OPEN"
      /\ \A d \in Campaigns : d # c => campaigns'[d] = campaigns[d] /\ items'[d] = items[d]
  BY DEF CommitCampaign, TypeOK
<1>2. CampaignsMoveOn
  BY <1>1 DEF CampaignsMoveOn, CommitCampaign
<1>3. tx'[w] = Idle /\ \A v \in Workers : v # w => tx'[v] = tx[v]
  BY DEF CommitCampaign, Finish, TypeOK
<1>4. ItemHolds(Idle)'
  BY DEF ItemHolds, Idle
<1>5. \A v \in Workers : ItemHolds(tx[v])'
  BY <1>2, <1>3, <1>4, ItemKept DEF CampaignInv
<1>6. CompletedCampaignIsResolved'
  BY <1>1 DEF CampaignInv, CompletedCampaignIsResolved
<1> QED
  BY <1>5, <1>6 DEF CampaignInv

(* The resolution that closes a campaign is the one that saw no other item *)
(* pending.                                                                *)
LEMMA CommitItemCampaign ==
    ASSUME TypeOK, CampaignInv, NEW w \in Workers, CommitItem(w)
    PROVE  CampaignInv'
<1>1. PICK c \in Campaigns, g \in Grants : c = tx[w].campaign /\ g = tx[w].grant
  BY TxShape DEF CommitItem, ItemCounted
<1>2. campaigns[c] # "ABSENT" /\ (tx[w].last => NoItemLeft(c, g))
  BY <1>1 DEF CommitItem, CampaignInv, ItemHolds
<1>3. /\ campaigns'[c] = IF tx[w].last THEN "COMPLETED" ELSE campaigns[c]
      /\ \A d \in Campaigns : d # c => campaigns'[d] = campaigns[d] /\ items'[d] = items[d]
      /\ items'[c][g] # "PENDING"
      /\ \A h \in Grants : h # g => items'[c][h] = items[c][h]
  BY <1>1 DEF CommitItem, TypeOK
<1>4. CampaignsMoveOn
  BY <1>2, <1>3 DEF CampaignsMoveOn
<1>5. tx'[w] = Idle /\ \A v \in Workers : v # w => tx'[v] = tx[v]
  BY DEF CommitItem, Finish, TypeOK
<1>6. ItemHolds(Idle)'
  BY DEF ItemHolds, Idle
<1>7. \A v \in Workers : ItemHolds(tx[v])'
  BY <1>4, <1>5, <1>6, ItemKept DEF CampaignInv
<1>8. CompletedCampaignIsResolved'
  BY <1>2, <1>3 DEF CampaignInv, CompletedCampaignIsResolved, NoItemLeft
<1> QED
  BY <1>7, <1>8 DEF CampaignInv

(* Every step preserves the campaign invariant.                            *)
LEMMA NextCampaignInv == TypeOK /\ CampaignInv /\ [Next]_vars => CampaignInv'
<1> SUFFICES ASSUME TypeOK, CampaignInv, [Next]_vars PROVE CampaignInv'
  OBVIOUS
<1>1. CASE UNCHANGED <<campaigns, items, tx>>
  BY <1>1 DEF CampaignInv, CompletedCampaignIsResolved, ItemHolds, NoItemLeft
<1>2. ASSUME NEW w \in Workers, Serve(w) PROVE CampaignInv'
  <2>1. ASSUME NEW g \in Grants, NEW job \in Jobs, NEW by \in Operators, Load(w, g, job, by)
        PROVE  CampaignInv'
    BY <2>1, NoItem, CampaignsAlone DEF Load, Begin
  <2>2. CASE ReadCandidates(w)
    BY <2>2, NoItem, CampaignsAlone DEF ReadCandidates, Begin
  <2>3. ASSUME NEW c \in Campaigns, NEW g \in Grants, NEW action \in ItemActions,
               NEW by \in Operators, ReadItem(w, c, g, action, by)
        PROVE  CampaignInv'
    <3>1. ItemHolds([pc |-> "itemRead", campaign |-> c, grant |-> g, action |-> action,
                     by |-> by])
      BY <2>3 DEF ReadItem, ItemHolds
    <3> QED
      BY <2>3, <3>1, CampaignsAlone DEF ReadItem, Begin
  <2> QED
    BY <1>2, <2>1, <2>2, <2>3 DEF Serve
<1>3. ASSUME NEW w \in Workers, Continue(w) PROVE CampaignInv'
  <2>1. CASE Mark(w)
    <3>1. \E state : tx' = [tx EXCEPT ![w] = state] /\ ItemHolds(state)
      BY <2>1, NoItem DEF Mark, Proceed, Idle
    <3> QED
      BY <2>1, <3>1, CampaignsAlone DEF Mark
  <2>2. ASSUME NEW decision, CommitReview(w, decision) PROVE CampaignInv'
    BY <2>2, NoItem, CampaignsAlone DEF CommitReview, Finish, Idle
  <2>3. CASE CommitRecertify(w)
    BY <2>3, NoItem, CampaignsAlone DEF CommitRecertify, Finish, Idle
  <2>4. CASE CommitRevoke(w)
    BY <2>4, NoItem, CampaignsAlone DEF CommitRevoke, Finish, Idle
  <2>5. CASE CommitActivate(w)
    BY <2>5, NoItem, CampaignsAlone DEF CommitActivate, Finish, Idle
  <2>6. CASE Abort(w)
    BY <2>6, NoItem, CampaignsAlone DEF Abort, Finish, Idle
  <2>7. CASE CheckItem(w)
    <3>1. ItemHolds([tx[w] EXCEPT !.pc = "itemChecked"])
      BY <2>7, TxShape DEF CheckItem, CampaignInv, ItemHolds, ItemRead
    <3> QED
      BY <2>7, <3>1, CampaignsAlone DEF CheckItem, Proceed
  <2>8. CASE CountItems(w)
    <3>1. ItemHolds([pc |-> "itemCounted", campaign |-> tx[w].campaign, grant |-> tx[w].grant,
                     action |-> tx[w].action, by |-> tx[w].by,
                     last |-> NoItemLeft(tx[w].campaign, tx[w].grant)])
      BY <2>8 DEF CountItems, CampaignInv, ItemHolds
    <3> QED
      BY <2>8, <3>1, CampaignsAlone DEF CountItems, Proceed
  <2> QED
    BY <1>3, <2>1, <2>2, <2>3, <2>4, <2>5, <2>6, <2>7, <2>8, CommitCampaignInv,
       CommitItemCampaign
       DEF Continue
<1> QED
  BY <1>1, <1>2, <1>3 DEF Next, Tick, Issue, vars

(* Before the first campaign nothing is pending and nothing is resolved.   *)
LEMMA InitCampaignInv == Init => CampaignInv
BY DEF Init, CampaignInv, CompletedCampaignIsResolved, ItemHolds, Idle

(* However resolutions of its items overlap, a campaign is completed only  *)
(* when none of its items is pending, and stays so.                        *)
THEOREM ResolvedCampaigns == Spec => []CompletedCampaignIsResolved
<1>1. CampaignInv => CompletedCampaignIsResolved
  BY DEF CampaignInv
<1> QED
  BY <1>1, InitTypeOK, NextTypeOK, InitCampaignInv, NextCampaignInv, PTL DEF Spec

=============================================================================
