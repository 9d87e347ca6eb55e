---------------------------- MODULE MCAuthSessions ----------------------------
(* AuthSessions on a small instance; the cfg chooses the values.           *)
EXTENDS AuthSessions, TLC

CONSTANTS u1, u2, m1, m2

(* Two people, one of whom is known from the start.                        *)
MCUserOf == m1 :> u1 @@ m2 :> u2

SessionsSymmetry == Permutations(Workers) \cup Permutations(Sessions)
=============================================================================
