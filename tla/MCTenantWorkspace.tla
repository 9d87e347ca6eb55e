-------------------------- MODULE MCTenantWorkspace --------------------------
(* TenantWorkspace on a small instance: two buyers that bought from one     *)
(* seller, one of them also from nobody, a seller that sold nothing, and an *)
(* operator with a support grant for a buyer and one for a seller.  The demo  *)
(* runs from a request of the first buyer to one of the second.             *)
EXTENDS TenantWorkspace, TLC

CONSTANTS b1, b2, s1, s2, home, q1, q2, q3, g1, g2, MaxReads

MCBuyerOf == (q1 :> b1) @@ (q2 :> b2) @@ (q3 :> b2)
MCSellerOf == (q1 :> s1) @@ (q2 :> None) @@ (q3 :> s1)
MCDemoScenarios == <<q1, q3>>
MCTargetOf == (g1 :> b1) @@ (g2 :> s1)

Session(o, role, persisted, grant) ==
    [organization |-> o, role |-> role, persisted |-> persisted, grant |-> grant]
MCTokens ==
    {Session(b1, "FINANCE", TRUE, None), Session(s1, "OWNER", FALSE, None),
     Session(s2, "ADMIN", FALSE, None),
     Session(home, "ADMIN", FALSE, None), Session(home, "OPERATOR", FALSE, g1),
     Session(home, "OPERATOR", FALSE, g2)}

(* Reads and writes share no row in the model, so a behaviour asks for one  *)
(* or the other.  Reads share only the audit table, so they take turns, and *)
(* support reads under one grant, whose fate no other one touches; writes   *)
(* are refused to support whatever its grant, so grants rest.               *)
VARIABLE workload  \* "writes", or the grant that support reads under

Busy == {w \in Workers : call[w] # Idle}
BeginRead ==
    /\ Busy = {} /\ calls < MaxReads
    /\ \E w \in Workers, t \in Tokens, op \in Reads : t.grant \in {None, workload} /\ Begin(w, t, op)
BeginWrite == \E w \in Workers, t \in Tokens, op \in Writes : Begin(w, t, op)

MCInit == Init /\ workload \in Grants \cup {"writes"}
MCNext ==
    /\ \/ workload = "writes" /\ BeginWrite
       \/ workload \in Grants /\ BeginRead
       \/ /\ workload \in Grants /\ Elsewhere
          /\ \A g \in Grants \ {workload} : grants'[g] = grants[g]
       \/ \E w \in Workers : Proceed(w)
    /\ UNCHANGED workload
MCSpec == MCInit /\ [][MCNext]_<<vars, workload>>

WorkspaceSymmetry == Permutations(Addresses) \cup Permutations(Workers) \cup Permutations(ServiceIds)
===============================================================================
