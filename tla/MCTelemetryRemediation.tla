------------------------ MODULE MCTelemetryRemediation ------------------------
(* TelemetryRemediation on a small instance.  Operators, and the calls     *)
(* that are not the scheduler's, are interchangeable.                      *)
EXTENDS TelemetryRemediation

Interchangeable == Permutations(Operators) \cup Permutations(Workers \ {Scheduler})
=============================================================================
