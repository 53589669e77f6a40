------------------------------- MODULE Binding -------------------------------
(***************************************************************************)
(* Binding a Telegram chat to an account.  There are two ways: the user    *)
(* asks for a code on the web and sends it from the chat, or the chat asks *)
(* for an e-mail address and binds the account it finds, or makes.  Each   *)
(* way is a handler of several SQL statements without a transaction, and   *)
(* handlers of other requests run between them.  A lookup that fails is    *)
(* taken for one that finds nothing.  What keeps the table in order are    *)
(* its two UNIQUE constraints.                                             *)
(*                                                                         *)
(* One service is modelled.  An account is named by its e-mail address; an *)
(* address whose account was deleted is not registered again.              *)
(***************************************************************************)
EXTENDS Integers, FiniteSets

CONSTANTS
  Users,     \* e-mail addresses
  Chats,     \* Telegram chats
  Codes,     \* random bind codes; bound: how many are made
  Requests,  \* slots for handlers that run at the same time
  None,      \* no row, no code
  Empty      \* the service_id '' of a row that waits for its chat

ASSUME BindingAssumption ==
  /\ None # Empty /\ None \notin Chats \union Codes /\ Empty \notin Chats

VARIABLES
  account,  \* is there an account for an address: "no", "yes", or "gone"
  row,      \* service_id of the row of each account
  code,     \* bind_code of the row
  enabled,  \* enabled of the row
  valid,    \* codes that have not expired
  used,     \* history: codes that were made
  waiting,  \* chats that are asked for an address
  req,      \* the requests
  told,     \* history: <<account, chat>> of which a handler has reported success
  raced     \* history: accounts changed while another handler was about to

table  == <<account, row, code, enabled>>
codes  == <<valid, used>>
facts  == <<told, raced>>
vars   == <<table, codes, waiting, req, facts>>

\* Steps: "lookup", "update" and "insert" of GenerateBindCode; "code", "chat" and
\* "confirm" of handleBindCode; "clear", "email", "bound", "create", "account" and "confirm"
\* of handleEmailInput.
Steps == {"idle", "update", "insert", "chat", "confirm", "clear", "email", "bound", "account",
          "create"}
Idle  == [pc |-> "idle", user |-> None, chat |-> None, code |-> None]

\* Handlers that have looked at the account and will write its row.
Writing(r, u) == req[r].user = u /\ req[r].pc \in {"chat", "confirm", "bound", "create"}
Race(r, u)  == IF \E q \in Requests \ {r} : Writing(q, u) THEN raced \union {u} ELSE raced

Init ==
  /\ account \in [Users -> {"no", "yes"}]
  /\ row = [u \in Users |-> None] /\ code = [u \in Users |-> None]
  /\ enabled = [u \in Users |-> FALSE]
  /\ valid = {} /\ used = {} /\ waiting = {}
  /\ req = [r \in Requests |-> Idle]
  /\ told = {} /\ raced = {}

Go(r, step) == req' = [req EXCEPT ![r].pc = step]
End(r)      == req' = [req EXCEPT ![r] = Idle]

(***************************************************************************)
(* The table.  An UPDATE that finds no row is no error; one that breaks a  *)
(* constraint is.                                                          *)
(***************************************************************************)
Bound(u)   == row[u] \notin {None, Empty}
Taken(c)   == \E u \in Users : row[u] = c
Other(u, c) == \E v \in Users \ {u} : row[v] = c

SetRow(u, c, k, on) ==
  /\ row' = [row EXCEPT ![u] = c] /\ code' = [code EXCEPT ![u] = k]
  /\ enabled' = [enabled EXCEPT ![u] = on]

InsertableAny(u, c) ==   \* mutant: no UNIQUE(service, service_id)
  account[u] = "yes" /\ row[u] = None

\* INSERT: the account exists and both constraints hold.
Insertable(u, c) == account[u] = "yes" /\ row[u] = None /\ ~Taken(c)

(***************************************************************************)
(* GenerateBindCode.                                                       *)
(***************************************************************************)
Generate(r, u) ==
  /\ req[r] = Idle /\ account[u] # "no"
  /\ ~Bound(u)
  /\ \E k \in Codes \ used :
       /\ used' = used \union {k} /\ valid' = valid \union {k}
       /\ req' = [req EXCEPT ![r] = [Idle EXCEPT !.pc = "update", !.user = u, !.code = k]]
  /\ UNCHANGED <<table, waiting, facts>>

UpdateBindCode(r) == LET u == req[r].user IN
  /\ req[r].pc = "update"
  /\ IF row[u] # None
       THEN code' = [code EXCEPT ![u] = req[r].code] /\ End(r)
       ELSE UNCHANGED code /\ Go(r, "insert")
  /\ UNCHANGED <<account, row, enabled, codes, waiting, facts>>

InsertBindCode(r) == LET u == req[r].user IN
  /\ req[r].pc = "insert"
  /\ IF Insertable(u, Empty) THEN SetRow(u, Empty, req[r].code, FALSE)
                             ELSE UNCHANGED <<row, code, enabled>>
  /\ End(r)
  /\ UNCHANGED <<account, codes, waiting, facts>>

\* Ten minutes pass.
Expire(k) ==
  /\ k \in valid /\ valid' = valid \ {k}
  /\ UNCHANGED <<table, used, waiting, req, facts>>

(***************************************************************************)
(* handleBindCode.                                                         *)
(***************************************************************************)
FindByBindCode(r, c, k) ==
  /\ req[r] = Idle
  /\ \E u \in Users :
       /\ code[u] = k /\ k \in valid /\ row[u] = Empty
       /\ req' = [req EXCEPT ![r] = [Idle EXCEPT !.pc = "chat", !.user = u, !.chat = c]]
  /\ UNCHANGED <<table, codes, waiting, facts>>

FindByServiceID(r) ==
  /\ req[r].pc = "chat"
  /\ (Taken(req[r].chat) /\ End(r)) \/ Go(r, "confirm")
  /\ UNCHANGED <<table, codes, waiting, facts>>

Succeed(r, u, c) ==
  /\ told' = told \union {<<u, c>>} /\ raced' = Race(r, u)

ConfirmUnchecked(r) == LET u == req[r].user c == req[r].chat IN   \* mutant: ignores the error
  /\ req[r].pc = "confirm"
  /\ IF row[u] = None \/ Other(u, c) THEN UNCHANGED <<row, code, enabled>>
                                    ELSE SetRow(u, c, None, TRUE)
  /\ Succeed(r, u, c) /\ End(r)
  /\ UNCHANGED <<account, codes, waiting>>

ConfirmBinding(r) == LET u == req[r].user c == req[r].chat IN
  /\ req[r].pc = "confirm"
  /\ IF row[u] # None /\ Other(u, c)
       THEN UNCHANGED <<row, code, enabled, facts>>
       ELSE /\ IF row[u] = None THEN UNCHANGED <<row, code, enabled>>
                                ELSE SetRow(u, c, None, TRUE)
            /\ Succeed(r, u, c)
  /\ End(r)
  /\ UNCHANGED <<account, codes, waiting>>

(***************************************************************************)
(* /bind without a code, and the text that follows.                        *)
(***************************************************************************)
\* Unless FindByServiceID and FindByID find the account of the chat.
AskForEmail(c) ==
  /\ waiting' = waiting \union {c}
  /\ UNCHANGED <<table, codes, req, facts>>

\* Five minutes pass.
WaitingExpires(c) ==
  /\ c \in waiting /\ waiting' = waiting \ {c}
  /\ UNCHANGED <<table, codes, req, facts>>

\* EXISTS, which several texts can pass before one of them clears the key.
EmailInput(r, c, u) ==
  /\ req[r] = Idle /\ c \in waiting
  /\ req' = [req EXCEPT ![r] = [Idle EXCEPT !.pc = "clear", !.user = u, !.chat = c]]
  /\ UNCHANGED <<table, codes, waiting, facts>>

ClearWaiting(r) ==
  /\ req[r].pc = "clear"
  /\ waiting' = waiting \ {req[r].chat}
  /\ Go(r, "email")
  /\ UNCHANGED <<table, codes, facts>>

FindByEmail(r) == LET u == req[r].user IN
  /\ req[r].pc = "email"
  /\ (account[u] = "yes" /\ Go(r, "bound")) \/ Go(r, "account")
  /\ UNCHANGED <<table, codes, waiting, facts>>

FindByUserAndService(r) == LET u == req[r].user IN
  /\ req[r].pc = "bound"
  /\ \/ Bound(u) /\ End(r)
     \/ row[u] = Empty /\ Go(r, "confirm")
     \/ Go(r, "create")
  /\ UNCHANGED <<table, codes, waiting, facts>>

CreateAccount(r) == LET u == req[r].user IN
  /\ req[r].pc = "account"
  /\ IF account[u] = "no"
       THEN /\ account' = [account EXCEPT ![u] = "yes"]
            /\ Go(r, "create")
       ELSE UNCHANGED account /\ End(r)
  /\ UNCHANGED <<row, code, enabled, codes, waiting, facts>>

CreateBinding(r) == LET u == req[r].user c == req[r].chat IN
  /\ req[r].pc = "create"
  /\ IF Insertable(u, c)
       THEN SetRow(u, c, None, TRUE) /\ Succeed(r, u, c)
       ELSE UNCHANGED <<row, code, enabled, facts>>
  /\ End(r)
  /\ UNCHANGED <<account, codes, waiting>>

(***************************************************************************)
(* The web: Register, UnbindService, SetBindingEnabled, and the deletion   *)
(* of an account by an admin, with its rows.                               *)
(***************************************************************************)
Register(u) ==
  /\ account[u] = "no"
  /\ account' = [account EXCEPT ![u] = "yes"]
  /\ UNCHANGED <<row, code, enabled, codes, waiting, req, facts>>

ForgetNull(u) ==   \* mutant: enabled is NULL afterwards
  /\ SetRow(u, None, None, None)
  /\ told' = {p \in told : p[1] # u} /\ UNCHANGED raced

Forget(u) ==
  /\ SetRow(u, None, None, FALSE)
  /\ told' = {p \in told : p[1] # u}
  /\ raced' = IF \E r \in Requests : Writing(r, u) THEN raced \union {u} ELSE raced

UnbindSoft(u) ==   \* mutant: disables the row instead of deleting it
  /\ row[u] # None
  /\ enabled' = [enabled EXCEPT ![u] = FALSE]
  /\ told' = {p \in told : p[1] # u}
  /\ UNCHANGED <<account, row, code, codes, waiting, req, raced>>

Unbind(u) ==
  /\ row[u] # None
  /\ Forget(u)
  /\ UNCHANGED <<account, codes, waiting, req>>

SetEnabled(u, on) ==
  /\ row[u] # None
  /\ enabled' = [enabled EXCEPT ![u] = on]
  /\ UNCHANGED <<account, row, code, codes, waiting, req, facts>>

DeleteAccount(u) ==
  /\ account[u] = "yes"
  /\ account' = [account EXCEPT ![u] = "gone"]
  /\ Forget(u)
  /\ UNCHANGED <<codes, waiting, req>>

Step(r) ==
  \/ UpdateBindCode(r) \/ InsertBindCode(r)
  \/ FindByServiceID(r) \/ ConfirmBinding(r)
  \/ ClearWaiting(r) \/ FindByEmail(r) \/ FindByUserAndService(r) \/ CreateAccount(r) \/ CreateBinding(r)

Next ==
  \/ \E r \in Requests :
       \/ Step(r)
       \/ \E u \in Users : Generate(r, u)
       \/ \E c \in Chats, k \in Codes : FindByBindCode(r, c, k)
       \/ \E c \in Chats, u \in Users : EmailInput(r, c, u)
  \/ \E c \in Chats : AskForEmail(c) \/ WaitingExpires(c)
  \/ \E k \in Codes : Expire(k)
  \/ \E u \in Users :
       \/ Register(u) \/ Unbind(u) \/ DeleteAccount(u)
       \/ \E on \in BOOLEAN : SetEnabled(u, on)

Spec == Init /\ [][Next]_vars

-----------------------------------------------------------------------------
\* Every variable has its type.
TypeOK ==
  /\ account \in [Users -> {"no", "yes", "gone"}]
  /\ row \in [Users -> Chats \union {None, Empty}]
  /\ code \in [Users -> Codes \union {None}]
  /\ enabled \in [Users -> BOOLEAN]
  /\ valid \subseteq used /\ used \subseteq Codes /\ waiting \subseteq Chats
  /\ req \in [Requests -> [pc : Steps, user : Users \union {None}, chat : Chats \union {None},
                           code : Codes \union {None}]]
  /\ told \subseteq Users \X Chats /\ raced \subseteq Users

\* An account that a handler has reported as bound to a chat is bound to that chat
\* until it is unbound or deleted, unless two handlers wrote its row at once: then
\* the later chat takes the account over, or a success is reported for a row that
\* is not there any more.
ToldBound ==
  \A p \in told : row[p[1]] = p[2] \/ p[1] \in raced

\* The chat of an account, without the codes.
Owns == [u \in Users |-> IF Bound(u) THEN row[u] ELSE None]
Owner == INSTANCE ChatOwner WITH Nobody <- None, owns <- Owns

\* The handlers implement ChatOwner: no interleaving binds a chat twice.
OneOwner == Owner!Spec

\* No account is bound behind its user's back: the chat that receives its alerts
\* was told so by the handler that bound it.
BoundTold ==
  \A u \in Users : Bound(u) => <<u, row[u]>> \in told

\* A user without a chat who asks for a code gets one, if the account exists.
CodeForEveryone ==
  [][\A r \in Requests :
       req[r].pc = "insert" /\ req'[r].pc = "idle" /\ account[req[r].user] = "yes"
         => row'[req[r].user] # None]_vars
=============================================================================
