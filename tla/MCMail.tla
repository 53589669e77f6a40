------------------------------- MODULE MCMail -------------------------------
(* A mail, or a login to try a password, and a login beside or after it. *)
EXTENDS Mail

MCKinds == [p \in Calls |-> IF p = 1 THEN {"mail", "test"} ELSE {"test"}]
=============================================================================
