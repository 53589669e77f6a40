------------------------------ MODULE MCPushSum ------------------------------
(***************************************************************************)
(* Small instances of PushSum.                                             *)
(***************************************************************************)
EXTENDS PushSum, TLC

\* A subscription "+10", and push counts on either side of it.
Up   == 10
Low == {0, 20}

\* Only counts that reach it: a crawl sees any of the articles all the same.
Enough == {20}

Symmetry == Permutations(Articles) \union Permutations(Crawls)
=============================================================================
