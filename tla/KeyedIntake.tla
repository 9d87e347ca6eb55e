----------------------------- MODULE KeyedIntake -----------------------------
(***************************************************************************)
(* What an idempotency key promises to the callers of an intake: the first *)
(* call binds the key to one request for good, and every later call that   *)
(* is answered at all is answered with that request, and only if it asks   *)
(* for the same thing.                                                     *)
(***************************************************************************)
CONSTANTS
    Keys,           \* the idempotency keys callers choose
    Payloads,       \* what a call asks for
    Unbound,        \* no request
    Same(_, _)      \* whether two calls ask for the same thing

VARIABLES
    bound,      \* what the request of each key was created from
    answers     \* which call was given which request: key, asked, given

keyedVars == <<bound, answers>>

KeyedInit ==
    /\ bound   = [k \in Keys |-> Unbound]
    /\ answers = {}

Answer(k, asked, given) ==
    answers' = answers \cup {[key |-> k, asked |-> asked, given |-> given]}

Bind(k, p) ==
    /\ bound[k] = Unbound
    /\ bound' = [bound EXCEPT ![k] = p]
    /\ Answer(k, p, p)

Replay(k, p) ==
    /\ bound[k] # Unbound
    /\ Same(p, bound[k])
    /\ Answer(k, p, bound[k])
    /\ UNCHANGED bound

KeyedNext == \E k \in Keys, p \in Payloads : Bind(k, p) \/ Replay(k, p)

KeyedSpec == KeyedInit /\ [][KeyedNext]_keyedVars
=============================================================================
