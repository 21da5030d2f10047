------------------------------ MODULE Registry ------------------------------
(***************************************************************************)
(* What administrators are promised of the admin state: one registry that  *)
(* begins as one of Start and changes by one whole operation at a time,    *)
(* each applied to what the one before it left.  Operation(s, t) says that *)
(* one operation makes t of s.                                             *)
(***************************************************************************)
CONSTANTS Start, Operation(_, _)
VARIABLE registry

Init == registry \in Start
Next == Operation(registry, registry')
Spec == Init /\ [][Next]_registry
=============================================================================
