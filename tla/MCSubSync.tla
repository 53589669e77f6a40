------------------------------ MODULE MCSubSync ------------------------------
(***************************************************************************)
(* Small instances of SubSync.                                             *)
(***************************************************************************)
EXTENDS SubSync, TLC

\* max_subscriptions of a role without a limit.
Unlimited == -1

\* Slots, boards and chats are interchangeable.
Symmetry == Permutations(Procs) \union Permutations(Boards)
            \union Permutations(Chats) \union Permutations(Users)
=============================================================================
