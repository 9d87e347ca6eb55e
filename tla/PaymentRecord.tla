---------------------------- MODULE PaymentRecord ----------------------------
(***************************************************************************)
(* What the payment tables promise to a reader, whatever the handlers that *)
(* write them race over: a payment opens with its first attempt, grows by  *)
(* one attempt at a time on one rail up to the cap, and each time its own  *)
(* status and its receipt change together with the new attempt.  Nothing   *)
(* is ever deleted or rewritten.                                           *)
(***************************************************************************)
EXTENDS Integers

CONSTANTS Requests, Rails, MaxAttempts

VARIABLES
    payments,   \* the payment of each request: rail and status
    attempts,   \* every attempt ever made
    receipts    \* the status of the receipt of each request

recordVars == <<payments, attempts, receipts>>

Unpaid   == [rail |-> "NONE", status |-> "NONE"]
Outcomes == {"PENDING", "AUTHORIZED", "CAPTURED", "FAILED", "VOIDED"}

Numbers(r) == {a.number : a \in {b \in attempts : b.req = r}}

(* What a receipt may say of a payment with this outcome.                  *)
ReceiptsFor(outcome) ==
    CASE outcome \in {"FAILED", "VOIDED"} -> {"FAILED"}
      [] outcome = "CAPTURED"             -> {"PENDING", "AVAILABLE", "FAILED"}
      [] OTHER                            -> {"PENDING", "FAILED"}

RecordInit ==
    /\ payments = [r \in Requests |-> Unpaid]
    /\ attempts = {}
    /\ receipts = [r \in Requests |-> "NONE"]

(* The rail of the first attempt is the rail of the payment.               *)
RailAllowed(r, rail) == payments[r] = Unpaid \/ payments[r].rail = rail

(* The attempt of a number may only be added when those before it are made. *)
Attempt(r, number, rail, outcome) ==
    /\ RailAllowed(r, rail)
    /\ Numbers(r) = 1..(number - 1)
    /\ payments' = [payments EXCEPT ![r] = [rail |-> rail, status |-> outcome]]
    /\ attempts' = attempts \cup {[req |-> r, number |-> number, rail |-> rail,
                                   status |-> outcome]}
    /\ \E receipt \in ReceiptsFor(outcome) : receipts' = [receipts EXCEPT ![r] = receipt]

RecordNext ==
    \E r \in Requests, number \in 1..MaxAttempts, rail \in Rails, outcome \in Outcomes :
        Attempt(r, number, rail, outcome)

RecordSpec == RecordInit /\ [][RecordNext]_recordVars
==============================================================================
