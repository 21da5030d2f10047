---------------------------- MODULE MCSinceLast ----------------------------
(* SinceLast with two questions, one that every message matches and one    *)
(* that the first does not match.  Callers are alike.                      *)
EXTENDS SinceLast, TLC

CONSTANTS q1, q2

MCMatch == (q1 :> Uid) @@ (q2 :> Uid \ {1})
Callers == Permutations(Caller)
=============================================================================
