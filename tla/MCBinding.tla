------------------------------ MODULE MCBinding ------------------------------
(***************************************************************************)
(* Small instances of Binding.                                             *)
(***************************************************************************)
EXTENDS Binding, TLC

Symmetry == Permutations(Users) \union Permutations(Chats)
            \union Permutations(Codes) \union Permutations(Requests)
=============================================================================
