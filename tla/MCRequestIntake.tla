--------------------------- MODULE MCRequestIntake ---------------------------
(* RequestIntake on a small instance; the cfg chooses the values.          *)
EXTENDS RequestIntake, TLC

CONSTANTS a1, p1, k1

Ask(policy, amount, seller) ==
    [agent |-> a1, policy |-> policy, amount |-> amount, title |-> "t",
     seller |-> seller, service |-> "v", category |-> "c"]

(* Two calls with one key that differ in the seller only, which a replay   *)
(* does not compare, and a larger one without a key that names its policy. *)
MCCalls ==
    {[key |-> k1, payload |-> Ask(NoPolicy, 1, "s1")],
     [key |-> k1, payload |-> Ask(NoPolicy, 1, "s2")],
     [key |-> NoKey, payload |-> Ask(p1, 3, "s1")]}

MCPayloads == {c.payload : c \in MCCalls}

(* Rules that approve the small amount and leave the large one to a human, *)
(* and rules that cap amount and sellers.                                  *)
MCRuleSets ==
    {[maxAmount |-> 5, autoApproval |-> 1, sellers |-> {}, services |-> {"v"},
      categories |-> {"c"}, stop |-> FALSE],
     [maxAmount |-> 2, autoApproval |-> 0, sellers |-> {"s1"}, services |-> {},
      categories |-> {}, stop |-> FALSE]}

IntakeSymmetry == Permutations(Requests) \cup Permutations(Workers)
=============================================================================
