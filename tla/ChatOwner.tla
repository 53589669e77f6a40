------------------------------ MODULE ChatOwner ------------------------------
(***************************************************************************)
(* What the binding of chats promises: an account sends to one chat at     *)
(* most, and a chat receives for one account at most.  It is silent about  *)
(* codes, e-mail addresses and rows of a database: module Binding is about *)
(* those, and implements this one.                                         *)
(***************************************************************************)
CONSTANTS Users, Chats, Nobody

VARIABLE owns   \* the chat of each account

Init == owns = [u \in Users |-> Nobody]

Free(c) == \A u \in Users : owns[u] # c

\* A chat that receives for nobody is bound to an account, which leaves another
\* chat if it had one.
Take(u, c) == Free(c) /\ owns' = [owns EXCEPT ![u] = c]

Leave(u) == owns' = [owns EXCEPT ![u] = Nobody]

Next == \E u \in Users : Leave(u) \/ \E c \in Chats : Take(u, c)

Spec == Init /\ [][Next]_owns

-----------------------------------------------------------------------------
\* No chat receives for two accounts.
OneToOne ==
  \A u, v \in Users : owns[u] # Nobody /\ owns[u] = owns[v] => u = v
=============================================================================
