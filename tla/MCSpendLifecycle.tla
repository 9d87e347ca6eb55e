-------------------------- MODULE MCSpendLifecycle --------------------------
(* SpendLifecycle on small instances; the cfg files choose the values.     *)
EXTENDS SpendLifecycle, TLC

(* Workers are interchangeable.                                            *)
WorkerSymmetry == Permutations(Workers)
=============================================================================
