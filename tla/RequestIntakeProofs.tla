------------------------- MODULE RequestIntakeProofs -------------------------
(***************************************************************************)
(* Proofs about RequestIntake, for any requests, agents, policies, keys,   *)
(* calls and rules.                                                        *)
(*                                                                         *)
(* A key never has two requests, because the unique index rejects the      *)
(* second; requests and answers are never taken back; so what a key is     *)
(* bound to and what its callers were given stay what they are, which is   *)
(* the refinement of KeyedIntake.  A verdict is explained because it is    *)
(* computed from what the same transaction read and keeps.                 *)
(***************************************************************************)
EXTENDS RequestIntake, TLAPS

(* The rules of a policy that is being edited exist.                       *)
EditedExists ==
    \A w \in Workers : tx[w].pc = "editRead" => policies[tx[w].policy] # NoPolicyRow

(* A creation goes on under the rules of an active policy only.            *)
EvaluatesActive ==
    \A w \in Workers : tx[w].pc = "policyRead" => tx[w].policyStatus = "ACTIVE"

(* The outcome of a request is that of the rules it keeps.                 *)
OutcomeIsEvaluated ==
    \A r \in Created :
        /\ requests[r].seenIn = "ACTIVE"
        /\ requests[r].outcome = Evaluate(requests[r].seenStatus, requests[r].payload,
                                          requests[r].seenRules)

(* A key has one request.                                                  *)
OneHolder ==
    \A r, s \in Created :
        requests[r].key = requests[s].key /\ requests[r].key # NoKey => r = s

(* What callers were answered exists.                                      *)
AnswersExist ==
    \A x \in answers : x.request \in Created

IntakeInv ==
    /\ TypeOK
    /\ EditedExists
    /\ EvaluatesActive
    /\ OutcomeIsEvaluated
    /\ OneHolder
    /\ AnswersExist

-----------------------------------------------------------------------------
(* The evaluation.                                                         *)

(* The denial the evaluation names is one the request deserves.            *)
LEMMA FirstBroken ==
    ASSUME NEW broken \in SUBSET (1..6), broken # {}
    PROVE  (CHOOSE i \in broken : \A j \in broken : i <= j) \in broken
<1>1. \E i \in broken : \A j \in broken : i <= j
  <2>1. CASE 1 \in broken
    BY <2>1
  <2>2. CASE 1 \notin broken /\ 2 \in broken
    BY <2>2
  <2>3. CASE 1 \notin broken /\ 2 \notin broken /\ 3 \in broken
    BY <2>3
  <2>4. CASE 1 \notin broken /\ 2 \notin broken /\ 3 \notin broken /\ 4 \in broken
    BY <2>4
  <2>5. CASE 1 \notin broken /\ 2 \notin broken /\ 3 \notin broken /\ 4 \notin broken
             /\ 5 \in broken
    BY <2>5
  <2>6. CASE 1 \notin broken /\ 2 \notin broken /\ 3 \notin broken /\ 4 \notin broken
             /\ 5 \notin broken
    <3>1. \A i \in broken : i = 6
      BY <2>6
    <3>2. PICK i \in broken : TRUE
      OBVIOUS
    <3> QED
      BY <3>1, <3>2
  <2> QED
    BY <2>1, <2>2, <2>3, <2>4, <2>5, <2>6
<1> QED
  BY <1>1

(* The places of the denials.                                              *)
LEMMA DenialPlaces ==
    /\ DOMAIN Denials = 1..6
    /\ Denials[1] = "deny_emergency_stop" /\ Denials[2] = "deny_agent_inactive"
    /\ Denials[3] = "deny_amount_exceeded" /\ Denials[4] = "deny_seller_not_allowed"
    /\ Denials[5] = "deny_service_not_allowed"
    /\ Denials[6] = "deny_service_category_not_allowed"
    /\ \A i \in 1..6 : Denials[i] \notin {"allow_auto_approved", "allow_requires_approval"}
BY DEF Denials

(* A request breaks a rule exactly when the rules do not permit it.        *)
LEMMA BrokenIsForbidden ==
    ASSUME NEW agentStatus, NEW p, NEW rules,
           p.amount \in Nat \ {0}, rules.maxAmount \in Nat
    PROVE  (\E i \in DOMAIN Denials : Denied(Denials[i], agentStatus, p, rules))
                <=> ~Permits(agentStatus, p, rules)
<1>1. (rules.maxAmount \in {NoLimit} \cup p.amount..(p.amount + rules.maxAmount))
        <=> ~(rules.maxAmount # NoLimit /\ p.amount > rules.maxAmount)
  BY DEF NoLimit
<1>2. (\E i \in 1..6 : Denied(Denials[i], agentStatus, p, rules)) <=>
        \/ rules.stop
        \/ agentStatus # "ACTIVE"
        \/ rules.maxAmount # NoLimit /\ p.amount > rules.maxAmount
        \/ Outside(p.seller, rules.sellers)
        \/ Outside(p.service, rules.services)
        \/ Outside(p.category, rules.categories)
  <2>1. \A i \in 1..6 : i = 1 \/ i = 2 \/ i = 3 \/ i = 4 \/ i = 5 \/ i = 6
    OBVIOUS
  <2> QED
    BY <2>1, DenialPlaces DEF Denied
<1> QED
  BY <1>1, <1>2, DenialPlaces DEF Permits, Outside

(* The evaluation agrees with what the rules mean.                         *)
LEMMA EvaluationAgrees ==
    ASSUME NEW agentStatus, NEW p, NEW rules,
           p.amount \in Nat \ {0}, rules.maxAmount \in Nat, rules.autoApproval \in Nat
    PROVE  /\ Evaluate(agentStatus, p, rules) \in Outcomes
           /\ Agrees(StatusOf(Evaluate(agentStatus, p, rules)), agentStatus, p, rules)
<1> DEFINE broken == {i \in DOMAIN Denials : Denied(Denials[i], agentStatus, p, rules)}
           first == CHOOSE i \in broken : \A j \in broken : i <= j
<1>1. WithinThreshold(p, rules) <=> p.amount <= rules.autoApproval
  BY DEF WithinThreshold, NoLimit
<1>2. broken # {} <=> ~Permits(agentStatus, p, rules)
  BY BrokenIsForbidden
<1>3. CASE broken # {}
  <2>1. first \in 1..6
    <3>1. broken \in SUBSET (1..6)
      BY DenialPlaces
    <3> HIDE DEF broken
    <3> QED
      BY <1>3, <3>1, FirstBroken
  <2>2. Evaluate(agentStatus, p, rules) = Denials[first]
    BY <1>3 DEF Evaluate
  <2> HIDE DEF broken, first
  <2>3. StatusOf(Denials[first]) = "REJECTED" /\ Denials[first] \in Outcomes
    BY <2>1, DenialPlaces DEF StatusOf, Outcomes
  <2> QED
    BY <1>2, <1>3, <2>2, <2>3 DEF Agrees
<1>4. CASE broken = {}
  <2>1. Evaluate(agentStatus, p, rules) =
            IF WithinThreshold(p, rules) THEN "allow_auto_approved" ELSE "allow_requires_approval"
    BY <1>4 DEF Evaluate
  <2> QED
    BY <1>1, <1>2, <1>4, <2>1 DEF Agrees, StatusOf, Outcomes
<1> QED
  BY <1>3, <1>4
-----------------------------------------------------------------------------
(* Types.                                                                  *)

(* The states of an invocation.                                            *)
TxStates == {Idle} \cup EditRead \cup KeyFree \cup AgentRead \cup PolicyRead

(* What an invocation that came to a state has read.                       *)
LEMMA TxShape ==
    ASSUME TypeOK, NEW w \in Workers
    PROVE  /\ tx[w] \in TxStates
           /\ tx[w].pc = "editRead"   => tx[w] \in EditRead
           /\ tx[w].pc = "keyFree"    => tx[w] \in KeyFree
           /\ tx[w].pc = "agentRead"  => tx[w] \in AgentRead
           /\ tx[w].pc = "policyRead" => tx[w] \in PolicyRead
BY DEF TypeOK, TxStates, Idle, EditRead, KeyFree, AgentRead, PolicyRead

(* A worker that changes state, as all its transitions write it.           *)
LEMMA TxWritten ==
    ASSUME TypeOK, NEW w \in Workers, NEW state \in TxStates, tx' = [tx EXCEPT ![w] = state]
    PROVE  /\ tx' \in [Workers -> TxStates]
           /\ tx'[w] = state
           /\ \A x \in Workers : x # w => tx'[x] = tx[x]
BY DEF TypeOK, TxStates

(* What is neither edited nor created keeps the invariant.                 *)
LEMMA ReadingKeeps ==
    ASSUME IntakeInv, NEW w \in Workers, NEW state \in TxStates, tx' = [tx EXCEPT ![w] = state],
           state.pc = "editRead" => policies[state.policy] # NoPolicyRow,
           state.pc = "policyRead" => state.policyStatus = "ACTIVE",
           UNCHANGED <<agents, policies, requests, answers>>
    PROVE  IntakeInv'
<1>1. TypeOK'
  BY TxWritten DEF IntakeInv, TypeOK, TxStates
<1>2. EditedExists' /\ EvaluatesActive'
  BY TxWritten DEF IntakeInv, EditedExists, EvaluatesActive
<1>3. OutcomeIsEvaluated' /\ OneHolder' /\ AnswersExist'
  BY DEF IntakeInv, OutcomeIsEvaluated, OneHolder, AnswersExist, Created
<1> QED
  BY <1>1, <1>2, <1>3 DEF IntakeInv

(* An invocation that is over.                                             *)
LEMMA FinishKeeps ==
    ASSUME IntakeInv, NEW w \in Workers, Finish(w), UNCHANGED <<agents, policies, requests, answers>>
    PROVE  IntakeInv'
<1>1. Idle \in TxStates /\ Idle.pc = "idle"
  BY DEF TxStates, Idle
<1> QED
  BY <1>1, ReadingKeeps DEF Finish

-----------------------------------------------------------------------------
(* Agents and policies.                                                    *)

(* An agent that is written.                                               *)
LEMMA WriteAgentKeeps ==
    ASSUME IntakeInv, NEW a \in Agents, NEW status \in AgentInputs, NEW policy \in LinkInputs,
           WriteAgent(a, [status |-> status, policy |-> policy])
    PROVE  IntakeInv'
<1>1. [status |-> status, policy |-> policy] \in AgentRow
  BY IntakeAssumption DEF AgentRow
<1>2. TypeOK'
  BY <1>1 DEF WriteAgent, IntakeInv, TypeOK
<1>3. EditedExists' /\ EvaluatesActive' /\ OutcomeIsEvaluated' /\ OneHolder' /\ AnswersExist'
  BY DEF WriteAgent, IntakeInv, EditedExists, EvaluatesActive, OutcomeIsEvaluated, OneHolder,
     AnswersExist, Created
<1> QED
  BY <1>2, <1>3 DEF IntakeInv

(* A policy that is written is there, whoever is editing it.               *)
LEMMA WritePolicyKeeps ==
    ASSUME IntakeInv, NEW p \in Policies, NEW row \in PolicyRow, WritePolicy(p, row),
           tx' \in [Workers -> TxStates],
           \A w \in Workers : tx'[w] = tx[w] \/ tx'[w] = Idle,
           UNCHANGED <<agents, requests, answers>>
    PROVE  IntakeInv'
<1>1. TypeOK'
  BY DEF WritePolicy, IntakeInv, TypeOK, TxStates
<1>2. row # NoPolicyRow
  BY DEF PolicyRow, NoPolicyRow, PolicyStatuses
<1>3. \A w \in Workers : tx'[w].pc \in {"editRead", "policyRead"} => tx'[w] = tx[w]
  BY DEF Idle
<1>4. EditedExists'
  BY <1>2, <1>3 DEF WritePolicy, IntakeInv, TypeOK, EditedExists
<1>5. EvaluatesActive'
  BY <1>3 DEF IntakeInv, EvaluatesActive
<1>6. OutcomeIsEvaluated' /\ OneHolder' /\ AnswersExist'
  BY DEF IntakeInv, OutcomeIsEvaluated, OneHolder, AnswersExist, Created
<1> QED
  BY <1>1, <1>4, <1>5, <1>6 DEF IntakeInv

(* A new policy.                                                           *)
LEMMA CreatePolicyKeeps ==
    ASSUME IntakeInv, NEW p \in Policies, NEW status \in PolicyInputs, NEW rules \in RuleSets,
           CreatePolicy(p, status, rules)
    PROVE  IntakeInv'
<1>1. [status |-> status, version |-> 1, rules |-> rules] \in PolicyRow
  BY IntakeAssumption DEF PolicyRow
<1>2. tx' \in [Workers -> TxStates] /\ \A w \in Workers : tx'[w] = tx[w]
  BY DEF CreatePolicy, IntakeInv, TypeOK, TxStates
<1> QED
  BY <1>1, <1>2, WritePolicyKeeps DEF CreatePolicy

(* The row an edit writes is one of the policy it read.                    *)
LEMMA EditedRow ==
    ASSUME IntakeInv, NEW w \in Workers, tx[w].pc = "editRead"
    PROVE  /\ tx[w].policy \in Policies /\ tx[w].version \in 1..MaxVersion
           /\ policies[tx[w].policy] \in PolicyRow
<1>1. tx[w] \in EditRead
  BY TxShape DEF IntakeInv
<1> QED
  BY <1>1 DEF EditRead, IntakeInv, TypeOK, EditedExists

(* An edit of the status.                                                  *)
LEMMA CommitPolicyStatusKeeps ==
    ASSUME IntakeInv, NEW w \in Workers, NEW status \in PolicyInputs, CommitPolicyStatus(w, status)
    PROVE  IntakeInv'
<1> DEFINE row == [policies[tx[w].policy] EXCEPT !.status = status]
<1>1. row \in PolicyRow
  BY EditedRow, IntakeAssumption DEF PolicyRow, CommitPolicyStatus
<1>2. Idle \in TxStates
  BY DEF TxStates
<1>3. tx' \in [Workers -> TxStates] /\ \A x \in Workers : tx'[x] = tx[x] \/ tx'[x] = Idle
  BY <1>2, TxWritten DEF CommitPolicyStatus, Finish, IntakeInv
<1>4. tx[w].policy \in Policies /\ WritePolicy(tx[w].policy, row)
  BY EditedRow DEF CommitPolicyStatus
<1> HIDE DEF row
<1> QED
  BY <1>1, <1>3, <1>4, WritePolicyKeeps DEF CommitPolicyStatus

(* An edit of the rules.                                                   *)
LEMMA CommitPolicyRulesKeeps ==
    ASSUME IntakeInv, NEW w \in Workers, NEW status \in PolicyInputs, NEW rules \in RuleSets,
           CommitPolicyRules(w, status, rules)
    PROVE  IntakeInv'
<1> DEFINE row == [policies[tx[w].policy] EXCEPT !.status = status, !.rules = rules,
                                                !.version = tx[w].version + 1]
<1>1. row \in PolicyRow
  <2>1. tx[w].version + 1 \in 1..MaxVersion
    BY EditedRow, IntakeAssumption DEF CommitPolicyRules
  <2> QED
    BY <2>1, EditedRow, IntakeAssumption DEF PolicyRow, CommitPolicyRules
<1>2. Idle \in TxStates
  BY DEF TxStates
<1>3. tx' \in [Workers -> TxStates] /\ \A x \in Workers : tx'[x] = tx[x] \/ tx'[x] = Idle
  BY <1>2, TxWritten DEF CommitPolicyRules, Finish, IntakeInv
<1>4. tx[w].policy \in Policies /\ WritePolicy(tx[w].policy, row)
  BY EditedRow DEF CommitPolicyRules
<1> HIDE DEF row
<1> QED
  BY <1>1, <1>3, <1>4, WritePolicyKeeps DEF CommitPolicyRules
-----------------------------------------------------------------------------
(* Requests.                                                               *)

(* A replay answers with a request that exists.                            *)
LEMMA ReplayRequestKeeps ==
    ASSUME IntakeInv, NEW call \in Calls, ReplayRequest(call)
    PROVE  IntakeInv'
<1>1. AnswersExist'
  BY DEF ReplayRequest, Answer, Holders, Created, IntakeInv, AnswersExist
<1>2. TypeOK' /\ EditedExists' /\ EvaluatesActive' /\ OutcomeIsEvaluated' /\ OneHolder'
  BY DEF ReplayRequest, IntakeInv, TypeOK, EditedExists, EvaluatesActive, OutcomeIsEvaluated,
     OneHolder, Created
<1> QED
  BY <1>1, <1>2 DEF IntakeInv

(* A key that is free is looked up.                                        *)
LEMMA LookUpKeyKeeps ==
    ASSUME IntakeInv, NEW w \in Workers, NEW call \in Calls, LookUpKey(w, call)
    PROVE  IntakeInv'
<1>1. [pc |-> "keyFree", call |-> call] \in TxStates
  BY DEF TxStates, KeyFree
<1> QED
  BY <1>1, ReadingKeeps DEF LookUpKey, Begin

(* The agent is read.                                                      *)
LEMMA ReadAgentKeeps ==
    ASSUME IntakeInv, NEW w \in Workers, ReadAgent(w)
    PROVE  IntakeInv'
<1> DEFINE call == tx[w].call
           agent == agents[call.payload.agent]
           policy == IF call.payload.policy # NoPolicy THEN call.payload.policy ELSE agent.policy
           state == [pc |-> "agentRead", call |-> call, agentStatus |-> agent.status,
                     policy |-> policy]
<1>1. call \in Calls /\ agent # NoAgent /\ policy # NoPolicy
  BY TxShape DEF ReadAgent, KeyFree, IntakeInv
<1>2. call.payload.agent \in Agents /\ call.payload.policy \in Policies \cup {NoPolicy}
  BY <1>1, IntakeAssumption
<1>3. agent \in AgentRow
  BY <1>1, <1>2 DEF IntakeInv, TypeOK
<1>4. policy \in Policies /\ agent.status \in AgentStatuses
  BY <1>1, <1>2, <1>3 DEF AgentRow
<1>5. state \in TxStates
  BY <1>1, <1>4 DEF TxStates, AgentRead
<1>6. tx' = [tx EXCEPT ![w] = state]
  BY DEF ReadAgent, Proceed
<1> QED
  BY <1>5, <1>6, ReadingKeeps DEF ReadAgent

(* The policy is read, if it is active.                                    *)
LEMMA ReadPolicyKeeps ==
    ASSUME IntakeInv, NEW w \in Workers, ReadPolicy(w)
    PROVE  IntakeInv'
<1> DEFINE t == tx[w]
           row == policies[t.policy]
           state == [pc |-> "policyRead", call |-> t.call, agentStatus |-> t.agentStatus,
                     policy |-> t.policy, policyStatus |-> row.status,
                     version |-> row.version, rules |-> row.rules]
<1>1. t \in AgentRead /\ row.status = "ACTIVE"
  BY TxShape DEF ReadPolicy, Usable, IntakeInv
<1>2. row \in PolicyRow
  BY <1>1 DEF AgentRead, IntakeInv, TypeOK, NoPolicyRow
<1>3. state \in TxStates
  BY <1>1, <1>2 DEF TxStates, AgentRead, PolicyRead, PolicyRow
<1>4. tx' = [tx EXCEPT ![w] = state]
  BY DEF ReadPolicy, Proceed
<1> QED
  BY <1>1, <1>3, <1>4, ReadingKeeps DEF ReadPolicy

(* The request a creation inserts.                                         *)
NewRow(t) ==
    [key |-> t.call.key, payload |-> t.call.payload,
     policy |-> t.policy, version |-> t.version,
     outcome |-> Evaluate(t.agentStatus, t.call.payload, t.rules),
     seenStatus |-> t.agentStatus, seenRules |-> t.rules, seenIn |-> t.policyStatus]

(* A creation inserts a row it made of what it read, and which was not     *)
(* there.                                                                  *)
LEMMA CreatedRow ==
    ASSUME IntakeInv, NEW w \in Workers, NEW r \in Requests, CommitRequest(w, r)
    PROVE  /\ requests' = [requests EXCEPT ![r] = NewRow(tx[w])]
           /\ NewRow(tx[w]) \in RequestRow /\ NewRow(tx[w]) # NoRequest
           /\ tx[w].call \in Calls
           /\ requests[r] = NoRequest /\ requests'[r] = NewRow(tx[w])
           /\ \A s \in Requests : s # r => requests'[s] = requests[s]
           /\ Created' = Created \cup {r} /\ r \notin Created
<1>1. tx[w] \in PolicyRead
  BY TxShape DEF CommitRequest, IntakeInv
<1>2. /\ tx[w].call \in Calls /\ tx[w].call.payload \in Payloads
      /\ tx[w].call.key \in Keys \cup {NoKey}
      /\ tx[w].rules \in RuleSets
  BY <1>1, IntakeAssumption DEF PolicyRead
<1>3. Evaluate(tx[w].agentStatus, tx[w].call.payload, tx[w].rules) \in Outcomes
  BY <1>2, EvaluationAgrees, IntakeAssumption
<1>4. NewRow(tx[w]) \in RequestRow
  BY <1>1, <1>2, <1>3 DEF NewRow, RequestRow, PolicyRead
<1>5. "none" \notin Outcomes
  BY DenialPlaces DEF Outcomes, Denials
<1>6. \A row \in RequestRow : row # NoRequest
  BY <1>5 DEF RequestRow, NoRequest
<1>7. requests' = [requests EXCEPT ![r] = NewRow(tx[w])] /\ requests[r] = NoRequest
  BY DEF CommitRequest, NewRow
<1>8. requests'[r] = NewRow(tx[w]) /\ \A s \in Requests : s # r => requests'[s] = requests[s]
  BY <1>7 DEF IntakeInv, TypeOK
<1> QED
  BY <1>2, <1>4, <1>6, <1>7, <1>8 DEF Created

(* A request that is created is the only one of its key, and is explained  *)
(* by what its transaction read.                                           *)
LEMMA CommitRequestKeeps ==
    ASSUME IntakeInv, NEW w \in Workers, NEW r \in Requests, CommitRequest(w, r)
    PROVE  IntakeInv'
<1>1. Idle \in TxStates /\ Idle.pc = "idle"
  BY DEF TxStates, Idle
<1>2. /\ tx' \in [Workers -> TxStates] /\ tx'[w] = Idle
      /\ \A x \in Workers : x # w => tx'[x] = tx[x]
  BY <1>1, TxWritten DEF CommitRequest, Finish, IntakeInv
<1>3. TypeOK'
  BY <1>2, CreatedRow DEF CommitRequest, IntakeInv, TypeOK, TxStates
<1>4. EditedExists' /\ EvaluatesActive'
  BY <1>1, <1>2 DEF CommitRequest, IntakeInv, EditedExists, EvaluatesActive
<1>5. OutcomeIsEvaluated'
  <2>1. NewRow(tx[w]).seenIn = "ACTIVE"
    BY DEF NewRow, CommitRequest, IntakeInv, EvaluatesActive
  <2>2. NewRow(tx[w]).outcome = Evaluate(NewRow(tx[w]).seenStatus, NewRow(tx[w]).payload,
                                         NewRow(tx[w]).seenRules)
    BY DEF NewRow
  <2> QED
    BY <2>1, <2>2, CreatedRow DEF OutcomeIsEvaluated, IntakeInv, Created
<1>6. OneHolder'
  <2>1. NewRow(tx[w]).key # NoKey => \A s \in Created : requests[s].key # NewRow(tx[w]).key
    BY DEF CommitRequest, KeyIsFree, NewRow, Holders, Created
  <2> QED
    BY <2>1, CreatedRow DEF OneHolder, IntakeInv, Created
<1>7. AnswersExist'
  <2>1. answers' = answers \cup {[key |-> tx[w].call.key, asked |-> tx[w].call.payload,
                                  request |-> r]}
    BY DEF CommitRequest, Answer
  <2>2. \A x \in answers' : x \in answers \/ x.request = r
    BY <2>1
  <2> QED
    BY <2>2, CreatedRow DEF IntakeInv, AnswersExist
<1> QED
  BY <1>3, <1>4, <1>5, <1>6, <1>7 DEF IntakeInv

-----------------------------------------------------------------------------
(* The theorems.                                                           *)

(* Nothing was created, read or answered yet.                              *)
LEMMA InitIntakeInv == Init => IntakeInv
<1> SUFFICES ASSUME Init PROVE IntakeInv
  OBVIOUS
<1>1. TypeOK
  BY DEF Init, TypeOK
<1>2. Created = {}
  BY DEF Init, Created
<1> QED
  BY <1>1, <1>2 DEF Init, IntakeInv, EditedExists, EvaluatesActive, OutcomeIsEvaluated,
     OneHolder, AnswersExist, Idle

(* Every step keeps the invariant.                                         *)
LEMMA StepKeeps == IntakeInv /\ [Next]_vars => IntakeInv'
<1> SUFFICES ASSUME IntakeInv, [Next]_vars PROVE IntakeInv'
  OBVIOUS
<1>1. CASE UNCHANGED vars
  BY <1>1 DEF vars, IntakeInv, TypeOK, EditedExists, EvaluatesActive, OutcomeIsEvaluated,
     OneHolder, AnswersExist, Created
<1>2. ASSUME NEW a \in Agents, NEW s \in AgentInputs, NEW p \in LinkInputs,
             CreateAgent(a, s, p) \/ UpdateAgent(a, s, p)
      PROVE  IntakeInv'
  BY <1>2, WriteAgentKeeps DEF CreateAgent, UpdateAgent
<1>3. ASSUME NEW p \in Policies, NEW s \in PolicyInputs, NEW rules \in RuleSets,
             CreatePolicy(p, s, rules)
      PROVE  IntakeInv'
  BY <1>3, CreatePolicyKeeps
<1>4. ASSUME NEW call \in Calls, ReplayRequest(call) PROVE IntakeInv'
  BY <1>4, ReplayRequestKeeps
<1>5. ASSUME NEW w \in Workers, NEW p \in Policies, ReadPolicyForEdit(w, p) PROVE IntakeInv'
  <2> DEFINE state == [pc |-> "editRead", policy |-> p, version |-> policies[p].version]
  <2>1. policies[p] \in PolicyRow
    BY <1>5 DEF ReadPolicyForEdit, IntakeInv, TypeOK
  <2>2. state \in TxStates
    BY <2>1 DEF TxStates, EditRead, PolicyRow
  <2> QED
    BY <1>5, <2>2, ReadingKeeps DEF ReadPolicyForEdit, Begin
<1>6. ASSUME NEW w \in Workers, NEW s \in PolicyInputs, CommitPolicyStatus(w, s)
      PROVE  IntakeInv'
  BY <1>6, CommitPolicyStatusKeeps
<1>7. ASSUME NEW w \in Workers, NEW s \in PolicyInputs, NEW rules \in RuleSets,
             CommitPolicyRules(w, s, rules)
      PROVE  IntakeInv'
  BY <1>7, CommitPolicyRulesKeeps
<1>8. ASSUME NEW w \in Workers, NEW call \in Calls, LookUpKey(w, call) PROVE IntakeInv'
  BY <1>8, LookUpKeyKeeps
<1>9. ASSUME NEW w \in Workers, ReadAgent(w) \/ ReadPolicy(w) PROVE IntakeInv'
  BY <1>9, ReadAgentKeeps, ReadPolicyKeeps
<1>10. ASSUME NEW w \in Workers, NEW r \in Requests, CommitRequest(w, r) PROVE IntakeInv'
  BY <1>10, CommitRequestKeeps
<1>11. ASSUME NEW w \in Workers, Abort(w) PROVE IntakeInv'
  BY <1>11, FinishKeeps DEF Abort
<1> QED
  BY <1>1, <1>2, <1>3, <1>4, <1>5, <1>6, <1>7, <1>8, <1>9, <1>10, <1>11 DEF Next

(* The invariant is one of the specification.                              *)
THEOREM Invariance == Spec => []IntakeInv
<1> QED
  BY InitIntakeInv, StepKeeps, PTL DEF Spec

(* Rows and invocations stay within their types.                           *)
THEOREM TypeCorrect == Spec => []TypeOK
<1>1. IntakeInv => TypeOK
  BY DEF IntakeInv
<1> QED
  BY <1>1, Invariance, PTL

(* The verdict of a request is what the rules it was evaluated under mean  *)
(* for it, and those were the rules of an active policy.                   *)
THEOREM VerdictSafety == Spec => []VerdictIsExplained
<1>1. ASSUME IntakeInv, NEW r \in Created
      PROVE  /\ requests[r].seenIn = "ACTIVE"
             /\ Agrees(RequestStatus(requests[r]), requests[r].seenStatus, requests[r].payload,
                       requests[r].seenRules)
  <2>1. requests[r] \in RequestRow /\ requests[r] # NoRequest
    BY <1>1 DEF Created, IntakeInv, TypeOK
  <2>2. requests[r].payload \in Payloads /\ requests[r].seenRules \in RuleSets
    BY <2>1 DEF RequestRow
  <2>3. RequestStatus(requests[r]) = StatusOf(Evaluate(requests[r].seenStatus,
                                        requests[r].payload, requests[r].seenRules))
    BY <1>1, <2>1 DEF RequestStatus, IntakeInv, OutcomeIsEvaluated
  <2> QED
    BY <1>1, <2>2, <2>3, EvaluationAgrees, IntakeAssumption DEF IntakeInv, OutcomeIsEvaluated
<1>2. IntakeInv => VerdictIsExplained
  BY <1>1 DEF VerdictIsExplained
<1> QED
  BY <1>2, Invariance, PTL
-----------------------------------------------------------------------------
(* What an idempotency key promises.                                       *)

Bound == [k \in Keys |-> BoundPayload(k)]

Given(x) == [key |-> x.key, asked |-> x.asked, given |-> requests[x.request].payload]

GivenAnswers == {Given(x) : x \in {y \in answers : y.key # NoKey}}

(* The only request of a key is what the key is bound to.                  *)
LEMMA HolderIsBound ==
    ASSUME IntakeInv, NEW k \in Keys, NEW r \in Holders(k)
    PROVE  BoundPayload(k) = requests[r].payload /\ BoundPayload(k) # Unbound
<1>1. k # NoKey /\ r \in Created /\ requests[r].key = k
  BY IntakeAssumption DEF Holders, Created
<1>2. \A s \in Holders(k) : s = r
  BY <1>1 DEF IntakeInv, OneHolder, Holders, Created
<1>3. (CHOOSE s \in Holders(k) : TRUE) = r
  BY <1>2
<1>4. requests[r].payload \in Payloads
  BY <1>1 DEF IntakeInv, TypeOK, Created, RequestRow
<1> QED
  BY <1>3, <1>4, IntakeAssumption DEF BoundPayload

(* The same of the next state.                                             *)
LEMMA HolderIsBoundNext ==
    ASSUME IntakeInv', NEW k \in Keys, NEW r \in Holders(k)'
    PROVE  BoundPayload(k)' = requests'[r].payload
<1>1. k # NoKey /\ r \in Created' /\ requests'[r].key = k
  BY IntakeAssumption DEF Holders, Created
<1>2. \A s \in Holders(k)' : s = r
  BY <1>1 DEF IntakeInv, OneHolder, Holders, Created
<1> QED
  BY <1>2 DEF BoundPayload

(* An answer that is added.                                                *)
LEMMA AnswerGiven ==
    ASSUME NEW call, NEW r,
           answers' = answers \cup {[key |-> call.key, asked |-> call.payload, request |-> r]},
           \A x \in answers : requests'[x.request] = requests[x.request],
           call.key # NoKey
    PROVE  GivenAnswers' = GivenAnswers \cup {[key |-> call.key, asked |-> call.payload,
                                              given |-> requests'[r].payload]}
<1> DEFINE new == [key |-> call.key, asked |-> call.payload, request |-> r]
<1>1. {y \in answers' : y.key # NoKey} = {y \in answers : y.key # NoKey} \cup {new}
  OBVIOUS
<1>2. \A x \in answers : Given(x)' = Given(x)
  BY DEF Given
<1>3. Given(new)' = [key |-> call.key, asked |-> call.payload, given |-> requests'[r].payload]
  BY DEF Given
<1> HIDE DEF new
<1> QED
  BY <1>1, <1>2, <1>3 DEF GivenAnswers

(* The same of a call without a key, which is not among the promises.      *)
LEMMA AnswerUnkeyed ==
    ASSUME NEW call, NEW r,
           answers' = answers \cup {[key |-> call.key, asked |-> call.payload, request |-> r]},
           \A x \in answers : requests'[x.request] = requests[x.request],
           call.key = NoKey
    PROVE  GivenAnswers' = GivenAnswers
<1> DEFINE new == [key |-> call.key, asked |-> call.payload, request |-> r]
<1>1. {y \in answers' : y.key # NoKey} = {y \in answers : y.key # NoKey}
  OBVIOUS
<1>2. \A x \in answers : Given(x)' = Given(x)
  BY DEF Given
<1> QED
  BY <1>1, <1>2 DEF GivenAnswers

(* A replay is a replay.                                                   *)
LEMMA ReplayIsReplay ==
    ASSUME IntakeInv, NEW call \in Calls, ReplayRequest(call)
    PROVE  Keyed!Replay(call.key, call.payload)
<1>1. call.key \in Keys /\ call.key # NoKey
  BY IntakeAssumption DEF ReplayRequest
<1>2. PICK r \in Holders(call.key) : SameCall(call.payload, requests[r].payload) /\ Answer(call, r)
  BY DEF ReplayRequest
<1>3. UNCHANGED requests
  BY DEF ReplayRequest
<1>4. Bound[call.key] = requests[r].payload /\ Bound[call.key] # Unbound
  BY <1>1, HolderIsBound DEF Bound
<1>5. UNCHANGED Bound
  BY <1>3 DEF Bound, BoundPayload, Holders
<1>6. GivenAnswers' = GivenAnswers \cup {[key |-> call.key, asked |-> call.payload,
                                         given |-> requests[r].payload]}
  BY <1>1, <1>2, <1>3, AnswerGiven DEF Answer
<1> QED
  BY <1>2, <1>4, <1>5, <1>6 DEF Keyed!Replay, Keyed!Answer, Bound, GivenAnswers, Given

(* A creation under a key binds it, any other changes no key.              *)
LEMMA CreationBinds ==
    ASSUME IntakeInv, IntakeInv', NEW w \in Workers, NEW r \in Requests, CommitRequest(w, r)
    PROVE  \/ \E k \in Keys, p \in Payloads : Keyed!Bind(k, p)
           \/ UNCHANGED Keyed!keyedVars
<1>1. PICK call \in Calls : call = tx[w].call
  BY CreatedRow
<1>2. /\ call.payload \in Payloads
      /\ requests'[r].payload = call.payload /\ requests'[r].key = call.key
      /\ requests'[r] # NoRequest
      /\ \A s \in Requests : s # r => requests'[s] = requests[s]
      /\ r \notin Created
  <2>1. requests'[r] = NewRow(tx[w]) /\ NewRow(tx[w]) # NoRequest
    BY CreatedRow
  <2>2. NewRow(tx[w]).payload = call.payload /\ NewRow(tx[w]).key = call.key
    BY <1>1 DEF NewRow
  <2>3. call.payload \in Payloads
    BY IntakeAssumption
  <2> QED
    BY <2>1, <2>2, <2>3, CreatedRow
<1>3. answers' = answers \cup {[key |-> call.key, asked |-> call.payload, request |-> r]}
  BY <1>1 DEF CommitRequest, Answer
<1>4. \A x \in answers : requests'[x.request] = requests[x.request]
  BY <1>2 DEF IntakeInv, AnswersExist, Created
<1>5. ASSUME NEW k \in Keys, k # call.key PROVE BoundPayload(k)' = BoundPayload(k)
  <2>1. Holders(k)' = Holders(k)
    BY <1>2, <1>5 DEF Holders, Created
  <2>2. CASE Holders(k) = {}
    BY <2>1, <2>2 DEF BoundPayload
  <2>3. CASE Holders(k) # {}
    <3>1. PICK s \in Holders(k) : TRUE
      BY <2>3
    <3>2. s \in Created
      BY <3>1 DEF Holders, Created
    <3> QED
      BY <1>2, <2>1, <3>1, <3>2, HolderIsBound, HolderIsBoundNext DEF Created
  <2> QED
    BY <2>2, <2>3
<1>6. CASE call.key = NoKey
  <2>1. UNCHANGED Bound
    BY <1>5, <1>6, IntakeAssumption DEF Bound
  <2>2. UNCHANGED GivenAnswers
    BY <1>3, <1>4, <1>6, AnswerUnkeyed
  <2> QED
    BY <2>1, <2>2 DEF Keyed!keyedVars, Bound, GivenAnswers, Given
<1>7. CASE call.key # NoKey
  <2>1. call.key \in Keys
    BY <1>7, IntakeAssumption
  <2>2. Holders(call.key) = {}
    BY <1>1, <1>7 DEF CommitRequest, KeyIsFree
  <2>3. Bound[call.key] = Unbound
    BY <2>1, <2>2 DEF Bound, BoundPayload
  <2>4. BoundPayload(call.key)' = call.payload
    <3>1. r \in Holders(call.key)'
      BY <1>2 DEF Holders
    <3> QED
      BY <1>2, <2>1, <3>1, HolderIsBoundNext
  <2>5. Bound' = [Bound EXCEPT ![call.key] = call.payload]
    BY <1>5, <2>1, <2>4 DEF Bound
  <2>6. GivenAnswers' = GivenAnswers \cup {[key |-> call.key, asked |-> call.payload,
                                           given |-> call.payload]}
    BY <1>2, <1>3, <1>4, <1>7, AnswerGiven
  <2>7. Keyed!Bind(call.key, call.payload)
    BY <2>3, <2>5, <2>6 DEF Keyed!Bind, Keyed!Answer, Bound, GivenAnswers, Given
  <2> QED
    BY <1>2, <2>1, <2>7
<1> QED
  BY <1>6, <1>7

(* Creations, replays and refusals, raced in any way, keep what an         *)
(* idempotency key promises.                                               *)
THEOREM KeyedRefinement == Spec => ImplementsKeyedIntake
<1>1. Init => Keyed!KeyedInit
  BY DEF Init, Keyed!KeyedInit, BoundPayload, Holders
<1>2. ASSUME UNCHANGED <<requests, answers>> PROVE UNCHANGED Keyed!keyedVars
  BY <1>2 DEF Keyed!keyedVars, BoundPayload, Holders
<1>3. IntakeInv /\ IntakeInv' /\ [Next]_vars => [Keyed!KeyedNext]_(Keyed!keyedVars)
  <2> SUFFICES ASSUME IntakeInv, IntakeInv', [Next]_vars
               PROVE  [Keyed!KeyedNext]_(Keyed!keyedVars)
    OBVIOUS
  <2>1. ASSUME NEW call \in Calls, ReplayRequest(call) PROVE Keyed!KeyedNext
    <3>1. call.key \in Keys /\ call.payload \in Payloads
      BY <2>1, IntakeAssumption DEF ReplayRequest
    <3> QED
      BY <2>1, <3>1, ReplayIsReplay DEF Keyed!KeyedNext
  <2>2. ASSUME NEW w \in Workers, NEW r \in Requests, CommitRequest(w, r)
        PROVE  Keyed!KeyedNext \/ UNCHANGED Keyed!keyedVars
    BY <2>2, CreationBinds DEF Keyed!KeyedNext
  <2>3. \/ UNCHANGED <<requests, answers>>
        \/ \E call \in Calls : ReplayRequest(call)
        \/ \E w \in Workers, r \in Requests : CommitRequest(w, r)
    BY DEF Next, vars, CreateAgent, UpdateAgent, WriteAgent, CreatePolicy, ReadPolicyForEdit,
       CommitPolicyStatus, CommitPolicyRules, LookUpKey, ReadAgent, ReadPolicy, Abort
  <2> QED
    BY <1>2, <2>1, <2>2, <2>3
<1> QED
  BY <1>1, <1>3, Invariance, PTL DEF Spec, ImplementsKeyedIntake, Keyed!KeyedSpec
-----------------------------------------------------------------------------
(* The creation of the spend lifecycle.                                    *)

LifecycleRequest(row) ==
    [status |-> RequestStatus(row), fulfillment |-> "NONE", paused |-> FALSE,
     scenario |-> "CAPTURED"]

(* Status, approval and event of an outcome are those of one verdict.      *)
LEMMA VerdictOfOutcome ==
    ASSUME NEW outcome
    PROVE  LET verdict == StatusOf(outcome) IN
           /\ verdict \in {"APPROVED", "SUBMITTED", "REJECTED"}
           /\ ApprovalOf(outcome) = Lifecycle!VerdictApproval(verdict)
           /\ EventOf(outcome) = Lifecycle!VerdictEvent(verdict)
<1>1. CASE outcome = "allow_auto_approved"
  BY <1>1 DEF StatusOf, ApprovalOf, EventOf, Lifecycle!VerdictApproval, Lifecycle!VerdictEvent
<1>2. CASE outcome = "allow_requires_approval"
  BY <1>2 DEF StatusOf, ApprovalOf, EventOf, Lifecycle!VerdictApproval, Lifecycle!VerdictEvent
<1>3. CASE outcome \notin {"allow_auto_approved", "allow_requires_approval"}
  BY <1>3 DEF StatusOf, ApprovalOf, EventOf, Lifecycle!VerdictApproval, Lifecycle!VerdictEvent
<1> QED
  BY <1>1, <1>2, <1>3

(* An insert is the creation with the verdict of its outcome.              *)
LEMMA InsertIsCreation ==
    ASSUME IntakeInv, NEW w \in Workers, NEW r \in Requests, CommitRequest(w, r)
    PROVE  \E verdict \in {"APPROVED", "SUBMITTED", "REJECTED"} :
                Lifecycle!CreateRequest(r, verdict)
<1>1. PICK row \in RequestRow : row = NewRow(tx[w])
  BY CreatedRow
<1>2. /\ row # NoRequest /\ requests[r] = NoRequest /\ requests'[r] = row
      /\ \A s \in Requests : s # r => requests'[s] = requests[s]
  BY <1>1, CreatedRow
<1> DEFINE verdict == StatusOf(row.outcome)
<1>3. /\ verdict \in {"APPROVED", "SUBMITTED", "REJECTED"}
      /\ RequestStatus(row) = verdict /\ RequestStatus(NoRequest) = "ABSENT"
      /\ Approval(row) = Lifecycle!VerdictApproval(verdict)
      /\ Events(row) = {"request_created", "policy_evaluated", Lifecycle!VerdictEvent(verdict)}
      /\ Events(NoRequest) = {}
  BY <1>2, VerdictOfOutcome DEF RequestStatus, Approval, Events
<1> HIDE DEF verdict
<1> DEFINE lrequests == [s \in Requests |-> LifecycleRequest(requests[s])]
           lapprovals == [s \in Requests |-> Approval(requests[s])]
           laudit == [s \in Requests |-> Events(requests[s])]
<1>4. lrequests[r].status = "ABSENT"
  BY <1>2, <1>3 DEF LifecycleRequest
<1>5. lrequests' = [lrequests EXCEPT ![r].status = verdict]
  <2>1. ASSUME NEW old \in [status: {"ABSENT"}, fulfillment: {"NONE"}, paused: BOOLEAN,
                             scenario: {"CAPTURED"}], NEW b \in BOOLEAN, old.paused = b
        PROVE  [status |-> verdict, fulfillment |-> "NONE", paused |-> b,
                scenario |-> "CAPTURED"] = [old EXCEPT !.status = verdict]
    BY <2>1
  <2>2. /\ LifecycleRequest(NoRequest) \in [status: {"ABSENT"}, fulfillment: {"NONE"},
                                            paused: BOOLEAN, scenario: {"CAPTURED"}]
        /\ LifecycleRequest(NoRequest).paused = FALSE
    BY <1>3 DEF LifecycleRequest
  <2>3. [status |-> verdict, fulfillment |-> "NONE", paused |-> FALSE, scenario |-> "CAPTURED"]
            = [LifecycleRequest(NoRequest) EXCEPT !.status = verdict]
    BY <2>1, <2>2
  <2>4. LifecycleRequest(row) = [LifecycleRequest(NoRequest) EXCEPT !.status = verdict]
    BY <1>3, <2>3 DEF LifecycleRequest
  <2> QED
    BY <1>2, <2>4
<1>6. lapprovals' = [lapprovals EXCEPT ![r] = Lifecycle!VerdictApproval(verdict)]
  BY <1>2, <1>3
<1>7. laudit' = [laudit EXCEPT ![r] = @ \cup {"request_created", "policy_evaluated",
                                             Lifecycle!VerdictEvent(verdict)}]
  BY <1>2, <1>3
<1>8. Lifecycle!CreateRequest(r, verdict)
  BY <1>4, <1>5, <1>6, <1>7 DEF Lifecycle!CreateRequest, Lifecycle!Record, LifecycleRequest
<1> QED
  BY <1>3, <1>8

(* The steps of the intake are creations of the spend lifecycle: status,   *)
(* approval and audit trail of a new request agree as that module says.    *)
THEOREM CreationRefinement == Spec => ImplementsCreation
<1>1. Init => Lifecycle!Init
  <2> SUFFICES ASSUME Init PROVE Lifecycle!Init
    OBVIOUS
  <2>1. \A r \in Requests : /\ RequestStatus(requests[r]) = "ABSENT"
                            /\ Approval(requests[r]) = "NONE" /\ Events(requests[r]) = {}
    BY DEF Init, RequestStatus, Approval, Events
  <2> QED
    BY <2>1 DEF Lifecycle!Init, Lifecycle!NoPayment, Lifecycle!Idle
<1>2. IntakeInv /\ [Next]_vars =>
        [\E r \in Requests, verdict \in {"APPROVED", "SUBMITTED", "REJECTED"} :
            Lifecycle!CreateRequest(r, verdict)]_(Lifecycle!vars)
  <2> SUFFICES ASSUME IntakeInv, [Next]_vars
               PROVE  \/ \E r \in Requests, verdict \in {"APPROVED", "SUBMITTED", "REJECTED"} :
                            Lifecycle!CreateRequest(r, verdict)
                      \/ UNCHANGED Lifecycle!vars
    OBVIOUS
  <2>1. ASSUME UNCHANGED requests PROVE UNCHANGED Lifecycle!vars
    BY <2>1 DEF Lifecycle!vars
  <2>2. \/ UNCHANGED requests
        \/ \E w \in Workers, r \in Requests : CommitRequest(w, r)
    BY DEF Next, vars, CreateAgent, UpdateAgent, WriteAgent, CreatePolicy, ReadPolicyForEdit,
       CommitPolicyStatus, CommitPolicyRules, ReplayRequest, LookUpKey, ReadAgent, ReadPolicy,
       Abort
  <2> QED
    BY <2>1, <2>2, InsertIsCreation
<1> QED
  BY <1>1, <1>2, Invariance, PTL DEF Spec, ImplementsCreation
=============================================================================
