---------------------------- MODULE MCAdminState ----------------------------
(***************************************************************************)
(* AdminState for TLC.  No operation orders or singles out a user, a name, *)
(* a binding id or a process, and the properties are invariants and an     *)
(* action property, so their permutations are symmetries.                  *)
(***************************************************************************)
EXTENDS AdminState, TLC

Symmetry ==
    Permutations(User) \cup Permutations(Name) \cup Permutations(BindingId)
        \cup Permutations(Proc)
=============================================================================
