--------------------------- MODULE MCArticleAlerts ---------------------------
(***************************************************************************)
(* Small instances of ArticleAlerts.                                       *)
(***************************************************************************)
EXTENDS ArticleAlerts, TLC

\* Articles are numbered in the order they are posted in, each in a second of its own
\* or the last two in one.
Three   == 1..3
Seconds == <<1, 2, 3>>
Twins   == <<1, 2, 2>>

\* Every subscription matches all articles but the first.
Later == [w \in Watches |-> Articles \ {1}]

Symmetry == Permutations(Checks) \union Permutations(Structs \ High)
            \union Permutations(Loops) \union Permutations(Watches)
=============================================================================
