----------------------------- MODULE MCComments -----------------------------
(***************************************************************************)
(* A small instance of Comments.                                           *)
(***************************************************************************)
EXTENDS Comments

\* The second comment is within Shift of the first one, the third is not.
Minutes == <<1, 2, 3>>
=============================================================================
