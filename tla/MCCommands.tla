---------------------------- MODULE MCCommands ----------------------------
(* Two items on one board in two spellings, one for two values, an article. *)
EXTENDS Commands, TLC

CONSTANTS u1, u2, lower, upper, pair, thread, x, y, z

MCFolded   == [i \in Items |-> IF i = upper THEN lower ELSE i]
MCValuesOf == [i \in Items |-> CASE i = lower -> <<x>>    [] i = upper  -> <<y>>
                                [] i = pair  -> <<x, z>> [] i = thread -> <<>>]
MCInputs   == {<<lower, pair>>, <<thread>>}
MCRoles    == {"admin", "user", "vip", "extra"}
MCSeed     == ("admin" :> -1) @@ ("user" :> 1) @@ ("vip" :> 2) @@ ("extra" :> None)
MCRoleOf   == (u1 :> "user") @@ (u2 :> "vip")
MCOffers   == {2}
Perms      == Permutations(Handlers) \union Permutations(Workers)
=============================================================================
