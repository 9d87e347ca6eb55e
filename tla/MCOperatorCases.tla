--------------------------- MODULE MCOperatorCases ---------------------------
(* OperatorCases on a small instance; the cfg chooses the values.          *)
EXTENDS OperatorCases, TLC

Ledger(request, payment, receipt, fulfillment, attemptCount) ==
    [request |-> request, payment |-> payment, receipt |-> receipt,
     fulfillment |-> fulfillment, attemptCount |-> attemptCount]

(* States SpendLifecycle reaches: failed but approved again by a second    *)
(* decision, so that a requeue is accepted; and done.                      *)
MCFirst   == Ledger("APPROVED", "FAILED", "FAILED", "NONE", 1)
MCLedgers == {MCFirst, Ledger("COMPLETED", "CAPTURED", "AVAILABLE", "DELIVERED", 2)}

CasesSymmetry == Permutations(Workers)
=============================================================================
