--------------------------- MODULE MCSupportAccess ---------------------------
(* SupportAccess on a small instance: the whole life of one grant, or a     *)
(* campaign over two of them.                                               *)
EXTENDS SupportAccess, TLC

CONSTANTS o1, o2

(* A campaign needs two grants to be raced, and one grant needs time to be  *)
(* reviewed, recertified and expire; so a behaviour has one or the other.   *)
VARIABLE workload  \* "grant" or "campaign"

Others(g) == Grants \ {g}
Issuable(g) == workload = "grant" => \A h \in Others(g) : grants[h].status = "ABSENT"

(* What a campaign lists and resolves, and who: the second operator.        *)
Campaigning(t) ==
    \/ t.pc = "candidates"
    \/ t.pc = "itemRead" /\ t.by = o2
    \/ t.pc \in {"checked", "marking"} /\ t.by = o2 /\ t.job \in {"REVIEW", "REVOKE"}

MCInit ==
    /\ Init
    /\ workload \in {"grant", "campaign"}
    /\ IF workload = "grant" THEN \A g, h \in Grants : grants[g] = grants[h]
                             ELSE \A g \in Grants : grants[g].expiresAt = 1
MCNext ==
    /\ \/ Tick /\ (workload = "campaign" => now = 0)
       \/ \E g \in Grants : Issuable(g) /\ Issue(g)
       \/ \E w \in Workers : Continue(w)
       \/ \E w \in Workers :
            /\ Serve(w)
            /\ IF workload = "campaign" THEN Campaigning(tx'[w]) ELSE tx'[w].pc # "candidates"
    /\ UNCHANGED workload
MCSpec == MCInit /\ [][MCNext]_<<vars, workload>>

(* Workers are interchangeable, and so are grants.                         *)
AccessSymmetry == Permutations(Workers) \cup Permutations(Grants)
=============================================================================
