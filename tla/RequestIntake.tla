---------------------------- MODULE RequestIntake ----------------------------
(***************************************************************************)
(* Buyer agents, policies and the creation of spend requests               *)
(* (packages/database/src/buyer-workflow.ts).  Policies and agents are     *)
(* edited by a read and a later update by id; a creation looks its         *)
(* idempotency key up, reads agent and policy, evaluates the rules it read *)
(* and inserts the request, all in one transaction at READ COMMITTED, so   *)
(* edits and other creations commit between its steps.                     *)
(***************************************************************************)
EXTENDS FiniteSets, PolicyEvaluation

CONSTANTS
    Requests,   \* the spend requests that may be created
    Agents,     \* the agents of the buyer organization
    Policies,   \* its policies
    NoPolicy,   \* a null policy id
    Keys,       \* idempotency keys
    NoKey,      \* a call without a key
    Payloads,   \* what callers ask for
    Unbound,    \* what a key is bound to before its first request
    Calls,      \* the creations that are called: key and payload
    RuleSets,   \* the rules policies are given
    AgentInputs,    \* the statuses agents are given
    LinkInputs,     \* the policies agents are linked to
    PolicyInputs,   \* the statuses policies are given
    Workers,    \* invocations that may be in flight together
    MaxVersion  \* bound on policy versions, so that TLC terminates

PolicyStatuses == {"DRAFT", "ACTIVE", "ARCHIVED"}

ASSUME IntakeAssumption ==
    /\ NoPolicy \notin Policies
    /\ NoKey \notin Keys
    /\ AgentInputs \subseteq AgentStatuses
    /\ LinkInputs \subseteq Policies \cup {NoPolicy}
    /\ PolicyInputs \subseteq PolicyStatuses
    /\ MaxVersion \in Nat \ {0}
    /\ Calls \subseteq [key: Keys \cup {NoKey}, payload: Payloads]
    /\ \A p \in Payloads : p.agent \in Agents /\ p.policy \in Policies \cup {NoPolicy}
    /\ \A p \in Payloads : p.amount \in Nat \ {0}
    /\ Unbound \notin Payloads
    /\ \A r \in RuleSets : /\ DOMAIN r = RuleFields /\ r.stop \in BOOLEAN
                           /\ r.maxAmount \in Nat /\ r.autoApproval \in Nat

VARIABLES
    agents,     \* Agent rows: status and linked policy
    policies,   \* Policy rows: status, version and rules
    requests,   \* SpendRequest rows; history: what each was evaluated under
    answers,    \* history: which call was answered with which request
    tx          \* what the invocation of each worker has read so far

vars == <<agents, policies, requests, answers, tx>>

-----------------------------------------------------------------------------
(* Rows.                                                                   *)
NoAgent      == [status |-> "ABSENT", policy |-> NoPolicy]
AgentRow     == [status: AgentStatuses, policy: Policies \cup {NoPolicy}]
NoPolicyRow  == [status |-> "ABSENT", version |-> 0]
PolicyRow    == [status: PolicyStatuses, version: 1..MaxVersion, rules: RuleSets]
NoRequest    == [outcome |-> "none"]
RequestRow   == [key: Keys \cup {NoKey}, payload: Payloads, policy: Policies,
                 version: 1..MaxVersion, outcome: Outcomes,
                 seenStatus: AgentStatuses, seenRules: RuleSets, seenIn: PolicyStatuses]
Idle == [pc |-> "idle"]
EditRead   == [pc: {"editRead"}, policy: Policies, version: 1..MaxVersion]
KeyFree    == [pc: {"keyFree"}, call: Calls]
AgentRead  == [pc: {"agentRead"}, call: Calls, agentStatus: AgentStatuses, policy: Policies]
PolicyRead == [pc: {"policyRead"}, call: Calls, agentStatus: AgentStatuses, policy: Policies,
               policyStatus: PolicyStatuses, version: 1..MaxVersion, rules: RuleSets]

TypeOK ==
    /\ agents   \in [Agents -> AgentRow \cup {NoAgent}]
    /\ policies \in [Policies -> PolicyRow \cup {NoPolicyRow}]
    /\ requests \in [Requests -> RequestRow \cup {NoRequest}]
    /\ tx \in [Workers -> {Idle} \cup EditRead \cup KeyFree \cup AgentRead \cup PolicyRead]

Init ==
    /\ agents   = [a \in Agents |-> NoAgent]
    /\ policies = [p \in Policies |-> NoPolicyRow]
    /\ requests = [r \in Requests |-> NoRequest]
    /\ answers  = {}
    /\ tx       = [w \in Workers |-> Idle]

Begin(w, state)   == tx[w] = Idle /\ tx' = [tx EXCEPT ![w] = state]
Proceed(w, state) == tx' = [tx EXCEPT ![w] = state]
Finish(w)         == tx' = [tx EXCEPT ![w] = Idle]

-----------------------------------------------------------------------------
(* Agents.  Of the row it read an update writes back the purpose only, so  *)
(* for status and policy it is one statement.                              *)
WriteAgent(a, row) ==
    /\ row.policy # NoPolicy => policies[row.policy] # NoPolicyRow
    /\ agents'   = [agents EXCEPT ![a] = row]
    /\ UNCHANGED <<policies, requests, answers, tx>>

CreateAgent(a, status, policy) ==
    /\ agents[a] = NoAgent
    /\ WriteAgent(a, [status |-> status, policy |-> policy])

UpdateAgent(a, status, policy) ==
    /\ agents[a] # NoAgent
    /\ WriteAgent(a, [status |-> status, policy |-> policy])

-----------------------------------------------------------------------------
(* Policies.  An edit that gives rules writes the version it read plus one; *)
(* it gives a status too, which may be the one the policy has.             *)
WritePolicy(p, row) ==
    policies' = [policies EXCEPT ![p] = row]

(* Faulty: a policy is created without a version.                          *)
CreatePolicyUnversioned(p, status, rules) ==
    /\ policies[p] = NoPolicyRow
    /\ WritePolicy(p, [status |-> status, version |-> 0, rules |-> rules])
    /\ UNCHANGED <<agents, requests, answers, tx>>

CreatePolicy(p, status, rules) ==
    /\ policies[p] = NoPolicyRow
    /\ WritePolicy(p, [status |-> status, version |-> 1, rules |-> rules])
    /\ UNCHANGED <<agents, requests, answers, tx>>

ReadPolicyForEdit(w, p) ==
    /\ policies[p] # NoPolicyRow
    /\ Begin(w, [pc |-> "editRead", policy |-> p, version |-> policies[p].version])
    /\ UNCHANGED <<agents, policies, requests, answers>>

(* An edit without rules leaves rules and version to whoever wrote them.   *)
CommitPolicyStatus(w, status) ==
    /\ tx[w].pc = "editRead"
    /\ WritePolicy(tx[w].policy, [policies[tx[w].policy] EXCEPT !.status = status])
    /\ Finish(w)
    /\ UNCHANGED <<agents, requests, answers>>

CommitPolicyRules(w, status, rules) ==
    /\ tx[w].pc = "editRead"
    /\ tx[w].version < MaxVersion
    /\ WritePolicy(tx[w].policy, [policies[tx[w].policy] EXCEPT
                                    !.status = status, !.rules = rules,
                                    !.version = tx[w].version + 1])
    /\ Finish(w)
    /\ UNCHANGED <<agents, requests, answers>>

-----------------------------------------------------------------------------
(* createBuyerRequest.                                                     *)

(* Faulty: a replay is recognized by its amount alone.                     *)
SameAmount(p, q) == p.amount = q.amount

(* The fields a replay is compared on: not the seller, nor the policy.     *)
SameCall(p, q) ==
    /\ p.agent = q.agent
    /\ p.amount = q.amount
    /\ p.title = q.title
    /\ p.category = q.category
    /\ p.service = q.service

Holders(key) == {r \in Requests : requests[r] # NoRequest /\ requests[r].key = key}

Answer(call, r) ==
    answers' = answers \cup {[key |-> call.key, asked |-> call.payload, request |-> r]}

(* A key that is bound to another call is refused: nothing is written.     *)
ReplayRequest(call) ==
    /\ call.key # NoKey
    /\ \E r \in Holders(call.key) :
          /\ SameCall(call.payload, requests[r].payload)
          /\ Answer(call, r)
    /\ UNCHANGED <<agents, policies, requests, tx>>

LookUpKey(w, call) ==
    /\ call.key = NoKey \/ Holders(call.key) = {}
    /\ Begin(w, [pc |-> "keyFree", call |-> call])
    /\ UNCHANGED <<agents, policies, requests, answers>>

(* The policy of the call, or else the one the agent is linked to.         *)
ReadAgent(w) ==
    LET call   == tx[w].call
        agent  == agents[call.payload.agent]
        policy == IF call.payload.policy # NoPolicy THEN call.payload.policy ELSE agent.policy
    IN
    /\ tx[w].pc = "keyFree"
    /\ agent # NoAgent
    /\ policy # NoPolicy
    /\ Proceed(w, [pc |-> "agentRead", call |-> call, agentStatus |-> agent.status,
                   policy |-> policy])
    /\ UNCHANGED <<agents, policies, requests, answers>>

(* Faulty: a draft or archived policy is evaluated like an active one.     *)
UsableInAnyStatus(row) == row # NoPolicyRow

Usable(row) == row.status = "ACTIVE"

ReadPolicy(w) ==
    LET t == tx[w]  row == policies[t.policy] IN
    /\ t.pc = "agentRead"
    /\ Usable(row)
    /\ Proceed(w, [pc |-> "policyRead", call |-> t.call, agentStatus |-> t.agentStatus,
                   policy |-> t.policy, policyStatus |-> row.status,
                   version |-> row.version, rules |-> row.rules])
    /\ UNCHANGED <<agents, policies, requests, answers>>

(* Faulty: no unique index on organization and key.                        *)
NoIndexOnKey(key) == TRUE

KeyIsFree(key) == key = NoKey \/ Holders(key) = {}

CommitRequest(w, r) ==
    LET t == tx[w] IN
    /\ t.pc = "policyRead"
    /\ requests[r] = NoRequest
    /\ KeyIsFree(t.call.key)
    /\ requests' = [requests EXCEPT ![r] =
            [key |-> t.call.key, payload |-> t.call.payload,
             policy |-> t.policy, version |-> t.version,
             outcome |-> Evaluate(t.agentStatus, t.call.payload, t.rules),
             seenStatus |-> t.agentStatus, seenRules |-> t.rules, seenIn |-> t.policyStatus]]
    /\ Answer(t.call, r)
    /\ Finish(w)
    /\ UNCHANGED <<agents, policies>>

(* What the insert stores besides: the status, the approval row and the    *)
(* audit events of the request, each by the outcome.                       *)
RequestStatus(row) == IF row = NoRequest THEN "ABSENT" ELSE StatusOf(row.outcome)

(* Faulty: a denied request gets a pending approval like any other.        *)
ApprovalAlways(row) ==
    IF row = NoRequest THEN "NONE"
    ELSE IF RequestStatus(row) = "APPROVED" THEN "APPROVED" ELSE "PENDING"

Approval(row)      == IF row = NoRequest THEN "NONE" ELSE ApprovalOf(row.outcome)
Events(row)        ==
    IF row = NoRequest THEN {}
    ELSE {"request_created", "policy_evaluated", EventOf(row.outcome)}

-----------------------------------------------------------------------------
(* A refusal, a duplicate key, a timeout or a crash rolls an invocation    *)
(* back.                                                                   *)
Abort(w) ==
    /\ tx[w] # Idle
    /\ Finish(w)
    /\ UNCHANGED <<agents, policies, requests, answers>>

Next ==
    \/ \E a \in Agents, s \in AgentInputs, p \in LinkInputs :
          CreateAgent(a, s, p) \/ UpdateAgent(a, s, p)
    \/ \E p \in Policies, s \in PolicyInputs, rules \in RuleSets : CreatePolicy(p, s, rules)
    \/ \E call \in Calls : ReplayRequest(call)
    \/ \E w \in Workers :
          \/ \E p \in Policies : ReadPolicyForEdit(w, p)
          \/ \E s \in PolicyInputs : CommitPolicyStatus(w, s)
          \/ \E s \in PolicyInputs, rules \in RuleSets : CommitPolicyRules(w, s, rules)
          \/ \E call \in Calls : LookUpKey(w, call)
          \/ ReadAgent(w)
          \/ ReadPolicy(w)
          \/ \E r \in Requests : CommitRequest(w, r)
          \/ Abort(w)

Spec == Init /\ [][Next]_vars

-----------------------------------------------------------------------------
(* Safety.                                                                 *)
Created == {r \in Requests : requests[r] # NoRequest}

(* The verdict of a request is what the rules it was evaluated under mean  *)
(* for it, and those were the rules of an active policy when they were     *)
(* read, whatever was edited before the insert.                            *)
VerdictIsExplained ==
    \A r \in Created :
        LET row == requests[r] IN
        /\ row.seenIn = "ACTIVE"
        /\ Agrees(RequestStatus(row), row.seenStatus, row.payload, row.seenRules)

-----------------------------------------------------------------------------
(* Refinement.                                                             *)

BoundPayload(k) ==
    IF Holders(k) = {} THEN Unbound
    ELSE requests[CHOOSE r \in Holders(k) : TRUE].payload

Keyed == INSTANCE KeyedIntake WITH
    Same    <- SameCall,
    bound   <- [k \in Keys |-> BoundPayload(k)],
    answers <- {[key |-> x.key, asked |-> x.asked, given |-> requests[x.request].payload] :
                    x \in {y \in answers : y.key # NoKey}}

(* Creations, replays and refusals, raced in any way, keep what an         *)
(* idempotency key promises.                                               *)
ImplementsKeyedIntake == Keyed!KeyedSpec

Lifecycle == INSTANCE SpendLifecycle WITH
    Rails             <- {"INTERNAL_SIMULATED"},
    SimulatedOutcomes <- {"CAPTURED"},
    StripeStatuses    <- {},
    MaxAttempts       <- 1,
    MaxIntents        <- 0,
    requests  <- [r \in Requests |-> [status |-> RequestStatus(requests[r]), fulfillment |-> "NONE",
                                      paused |-> FALSE, scenario |-> "CAPTURED"]],
    approvals <- [r \in Requests |-> Approval(requests[r])],
    payments  <- [r \in Requests |-> [rail |-> "NONE", status |-> "NONE"]],
    attempts  <- {},
    receipts  <- [r \in Requests |-> "NONE"],
    audit     <- [r \in Requests |-> Events(requests[r])],
    cases     <- [r \in Requests |-> FALSE],
    intents   <- [r \in Requests |-> 0],
    tx        <- [w \in Workers |-> [pc |-> "idle"]]

(* The steps of the intake are creations of the spend lifecycle, which     *)
(* takes the verdict as an input: status, approval and audit trail of a    *)
(* new request agree with each other as that module says.                  *)
ImplementsCreation ==
    /\ Lifecycle!Init
    /\ [][\E r \in Requests, verdict \in {"APPROVED", "SUBMITTED", "REJECTED"} :
            Lifecycle!CreateRequest(r, verdict)]_(Lifecycle!vars)

=============================================================================
