-------------------------- MODULE MCRolloutExecution --------------------------
(* RolloutExecution on a small instance: a drill and a rotation with the   *)
(* promotion that rests on them, or syncs of one assignment.               *)
EXTENDS RolloutExecution, TLC

CONSTANTS c1, c2, c3, rot, dep, ups, store, k1, k2

MCKindOf == [t \in Targets |->
                CASE t = rot -> "SECRET_ROTATION"
                  [] t = dep -> "DEPLOYMENT_AUTOMATION"
                  [] t = ups -> "UPSTREAM_IDENTITY"
                  [] t = store -> "PROOF_STORAGE"]

MCModes == [k \in Kinds |->
                CASE k = "RESTORE_DRILL" -> {"psql", "dry-run"}
                  [] k = "SECRET_ROTATION" -> {"command"}
                  [] k = "DEPLOYMENT_AUTOMATION" -> {"dry-run", "command"}
                  [] k = "UPSTREAM_IDENTITY" -> {"command"}]
MCLocals == [k \in Kinds |-> IF k = "RESTORE_DRILL" THEN BOOLEAN ELSE {FALSE}]
MCMaxOf == [k \in Kinds |-> IF k = "UPSTREAM_IDENTITY" THEN 3 ELSE 1]

(* Syncs share nothing with the other executions but the proof store, so a *)
(* behaviour asks for one or the other; syncs leave the targets alone, and  *)
(* two of them overlap and a third comes after.                             *)
VARIABLE workload  \* "promotion" or "syncs"

Made == {c \in Calls : calls[c] # NotMade}
Wanted(call) ==
    IF workload = "syncs"
    THEN call.kind = "UPSTREAM_IDENTITY" /\ (Cardinality(Made) >= 2 => InFlight = {})
    ELSE call.kind # "UPSTREAM_IDENTITY"

MCInit == Init /\ workload \in {"promotion", "syncs"}
MCNext ==
    /\ \/ \E c \in Calls : Step(c)
       \/ \E c \in Calls : Ask(c) /\ Wanted(calls'[c])
       \/ workload = "promotion" /\ Pass
       \/ workload = "promotion" /\ \E t \in Targets : Govern(t)
    /\ UNCHANGED workload
MCSpec == MCInit /\ [][MCNext]_<<vars, workload>>

Symmetric == Permutations(Calls)
=============================================================================
