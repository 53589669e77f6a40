-------------------------------- MODULE Mail --------------------------------
(***************************************************************************)
(* Mail to the author of an article, sent from a button under an alert.    *)
(* The handler plays a PTT user: it logs in over SSH, types the keys of a  *)
(* fixed script, and after each waits for a text on the screen, but goes   *)
(* on when the text does not come in time.  PTT handles the keys in order  *)
(* and at its own pace; the reader adds what it shows to a buffer that the *)
(* client empties before it types.  Binding a PTT account logs in the same *)
(* way, to try the password.                                               *)
(*                                                                         *)
(* The keys of the script are numbered, 1 and 2 are the name and the       *)
(* password.  Screen k is what PTT shows once it has accepted keys 1 to k; *)
(* screen 0 is the welcome, screen 2 the main menu.  PTT itself is not in  *)
(* the repository: it is modelled by what the client expects of it.        *)
(***************************************************************************)
EXTENDS Integers, Sequences, FiniteSets

CONSTANTS
  Calls,      \* the handlers that talk to PTT, 1, 2, ...; bound: each runs once
  Kinds,      \* bound: what each handler does, a set of "mail" and "test"
  Templates,  \* mail templates
  None,       \* no row, no template, no account
  MaxEdits,   \* bound: changes of the template, the account and the role
  MaxDrops    \* bound: connections lost

ASSUME MailAssumption ==
  /\ None \notin Templates \union {"right", "sent", "failed", "notemplate", "noaccount", "bound"}
  /\ Calls \subseteq Nat /\ Kinds \in [Calls -> SUBSET {"mail", "test"}]
  /\ MaxEdits \in Nat /\ MaxDrops \in Nat

VARIABLES
  template,  \* the template of the subscription, None without one or without a row
  account,   \* the stored PTT password: "right", "wrong", or None
  vip,       \* may the user send mail
  offered,   \* the buttons in the chat: "preview" and "confirm"
  call,      \* the handlers
  ptt,       \* the other end of each connection
  edits,     \* changes so far
  drops      \* connections lost so far

rows  == <<template, account, vip>>
count == <<edits, drops>>
vars  == <<rows, offered, call, ptt, count>>

\* The script: name, password, M, S, recipient, subject, content with ^X, Enter, 0, n.
Name == 1  Password == 2  Menu == 3  Recipient == 5  Signature == 9  Last == 10

\* Screens off the script: three prompts between the password and the main menu, each
\* with the key that answers it, the refusals, and where no key of the script fits.
Duplicate == -1  AnyKey == -2  Attempts == -3  Refused == -4  NoUser == -5  Lost == -6  Closed == -7
Hello == -8
Prompts == {Duplicate, AnyKey, Attempts}
Screens == (NoUser..-1) \union (0..Last)

Off  == [at |-> Closed, in |-> <<>>]
Idle == [pc |-> "idle", kind |-> None, key |-> 0, text |-> None, password |-> None,
         screen |-> {}, again |-> FALSE, late |-> FALSE, cut |-> FALSE,
         mails |-> <<>>, reply |-> None]

Init ==
  /\ template \in Templates /\ account = "right" /\ vip = TRUE   \* all has been set up
  /\ offered = {}
  /\ call = [p \in Calls |-> Idle] /\ ptt = [p \in Calls |-> Off]
  /\ edits = 0 /\ drops = 0

(***************************************************************************)
(* The chat and the web.                                                   *)
(***************************************************************************)
\* An alert carries a button if the user may send mail, has bound a PTT account and
\* the subscription has a template.
GetMailButtonData ==
  /\ vip /\ account # None /\ template # None
  /\ offered' = offered \union {"preview"}
  /\ UNCHANGED <<rows, call, ptt, count>>

HandleMailPreview ==
  /\ "preview" \in offered /\ template # None
  /\ offered' = offered \union {"confirm"}
  /\ UNCHANGED <<rows, call, ptt, count>>

Start(p, r) ==
  /\ r.kind \in Kinds[p]
  /\ call[p] = Idle /\ \A q \in Calls : q < p => call[q] # Idle
  /\ call' = [call EXCEPT ![p] = r]

\* The buttons stay: one can be pressed again.
HandleMailConfirm(p) ==
  /\ "confirm" \in offered
  /\ Start(p, [Idle EXCEPT !.pc = "template", !.kind = "mail"])
  /\ UNCHANGED <<rows, offered, ptt, edits, drops>>

\* The role is the one in the token, of the time of the login: it was given once, and
\* may have been taken back since.
BindPTTAccount(p, password) ==
  /\ Start(p, [Idle EXCEPT !.pc = "dial", !.kind = "test", !.password = password])
  /\ UNCHANGED <<rows, offered, ptt, edits, drops>>

Edit == edits < MaxEdits /\ edits' = edits + 1

EditTemplate(t) ==
  /\ Edit /\ t # template /\ template' = t
  /\ UNCHANGED <<account, vip, offered, call, ptt, drops>>

UnbindPTTAccount ==
  /\ Edit /\ account # None /\ account' = None
  /\ UNCHANGED <<template, vip, offered, call, ptt, drops>>

\* The user changes the password at PTT, or an administrator his role.
ChangePassword ==
  /\ Edit /\ account = "right" /\ account' = "wrong"
  /\ UNCHANGED <<template, vip, offered, call, ptt, drops>>

ChangeRole ==
  /\ Edit /\ vip' = ~vip
  /\ UNCHANGED <<template, account, offered, call, ptt, drops>>

(***************************************************************************)
(* PTT.                                                                    *)
(***************************************************************************)
\* A screen goes to the buffer of readLoop.  How long it is on its way is part of the
\* time PTT takes: the client cannot tell.
Show(p, s)  ==
  /\ ptt' = [ptt EXCEPT ![p] = [at |-> s, in |-> Tail(@.in)]]
  /\ call' = [call EXCEPT ![p].screen = @ \union {s},
                          ![p].mails = IF s = Signature THEN Append(@, call[p].text) ELSE @]
Lose(p)     == ptt' = [ptt EXCEPT ![p] = [at |-> Lost, in |-> <<>>]] /\ UNCHANGED call
LoggedIn(q) == ptt[q].at \in (Password..Last) \union {AnyKey, Attempts, NoUser}

\* What may follow the password, or a prompt that has been answered.
After(p, s) == {Password} \union
  {q \in Prompts : q < s /\ (q = Duplicate => \E r \in Calls \ {p} : LoggedIn(r))}

\* The key a place waits for; the welcome takes none.
Fits(at, key) == \/ at = Hello
                 \/ at \in Prompts /\ key = at
                 \/ at \in 0..(Last - 1) /\ key = at + 1

\* The next key.  A key that does not fit leads somewhere else for good; the mail is
\* out once the signature is chosen.
Serve(p) == LET at == ptt[p].at  key == Head(ptt[p].in) IN
  /\ ptt[p].in # <<>>
  /\ \/ at = Hello /\ Show(p, 0)
     \/ at \in 0..(Last - 1) \ {Name} /\ key = at + 1 /\ Show(p, key)
     \/ at = Name /\ key = Password /\ call[p].password # "right" /\ Show(p, Refused)
     \/ at = Name /\ key = Password /\ call[p].password = "right"
          /\ \E s \in After(p, at) : Show(p, s)
     \/ at \in Prompts /\ key = at /\ \E s \in After(p, at) : Show(p, s)
     \/ at = Recipient - 1 /\ key = Recipient /\ Show(p, NoUser)
     \/ ~Fits(at, key) /\ Lose(p)
  /\ UNCHANGED <<rows, offered, count>>

\* The connection is lost: no key gets through, and the next one fails.
Drop(p) ==
  /\ drops < MaxDrops /\ drops' = drops + 1
  /\ ptt[p].at # Closed
  /\ ptt' = [ptt EXCEPT ![p] = Off] /\ call' = [call EXCEPT ![p].cut = TRUE]
  /\ UNCHANGED <<rows, offered, edits>>

(***************************************************************************)
(* The client.                                                             *)
(***************************************************************************)
Answers(c, r) == [Idle EXCEPT !.pc = "told", !.reply = r, !.text = c.text, !.password = c.password,
                              !.late = c.late, !.cut = c.cut, !.mails = c.mails]
ReplyOpen(p, r) ==   \* mutant: the connection is left open
  call' = [call EXCEPT ![p] = Answers(@, r)] /\ UNCHANGED ptt

Reply(p, r) ==
  /\ call' = [call EXCEPT ![p] = Answers(@, r)]
  /\ ptt' = [ptt EXCEPT ![p] = Off]

\* Empty the screen and type; the handler ends when that fails.
Type(p, key, rest) ==
  IF ptt[p].at = Closed THEN Reply(p, "failed")
  ELSE /\ call' = [call EXCEPT ![p] = [rest EXCEPT !.screen = {}]]
       /\ ptt' = [ptt EXCEPT ![p].in = IF ptt[p].at = Lost THEN <<>> ELSE Append(@, key)]

FindTemplate(p) ==
  /\ call[p].pc = "template"
  /\ IF template = None THEN Reply(p, "notemplate")
     ELSE call' = [call EXCEPT ![p].pc = "account", ![p].text = template] /\ UNCHANGED ptt
  /\ UNCHANGED <<rows, offered, count>>

GetCredentials(p) ==
  /\ call[p].pc = "account"
  /\ IF account = None THEN Reply(p, "noaccount")
     ELSE call' = [call EXCEPT ![p].pc = "dial", ![p].password = account] /\ UNCHANGED ptt
  /\ UNCHANGED <<rows, offered, count>>

\* Before key k the client waits for screen k - 1.
Connect(p) ==
  /\ call[p].pc = "dial"
  /\ \/ Reply(p, "failed")
     \/ /\ call' = [call EXCEPT ![p].pc = "wait", ![p].key = Name]
        /\ ptt' = [ptt EXCEPT ![p] = [at |-> Hello, in |-> <<0>>]]
  /\ UNCHANGED <<rows, offered, count>>

\* The texts of the wait after S are also on the screen after M.
Found(c)   == \/ c.key - 1 \in c.screen
              \/ c.key = Recipient /\ Menu \in c.screen
              \/ c.key = Recipient + 1 /\ NoUser \in c.screen
Never(c)   == FALSE   \* mutant: the wait has no deadline
Expired(c) == ~Found(c)

\* Key k is typed: the password is followed by the login loop, the last key by the reply.
TypeKey(p, c) ==
  Type(p, c.key, IF c.key = Password THEN [c EXCEPT !.pc = "login", !.key = Menu]
                 ELSE IF c.key = Last THEN [c EXCEPT !.pc = "end"]
                 ELSE [c EXCEPT !.key = @ + 1])

\* The text is there.  Only the answer to the recipient is looked at.
WaitFor(p) == LET c == call[p] IN
  /\ c.pc = "wait" /\ Found(c)
  /\ IF NoUser \in c.screen /\ c.key = Recipient + 1 THEN Reply(p, "failed") ELSE TypeKey(p, c)
  /\ UNCHANGED <<rows, offered, count>>

\* The text has not come in time: no answer at all is an error at the welcome; the mail
\* menu is asked for once more; else the script goes on.
WaitOut(p) == LET c == [call[p] EXCEPT !.late = TRUE] IN
  /\ c.pc = "wait" /\ Expired(c)
  /\ IF c.key = Name /\ c.screen = {} THEN Reply(p, "failed")
     ELSE IF c.key = Menu + 1 /\ ~c.again THEN Type(p, Menu, [c EXCEPT !.again = TRUE])
     ELSE TypeKey(p, c)
  /\ UNCHANGED <<rows, offered, count>>

\* The login is over without an error: the password was only tried, or the script
\* goes on with the mail menu.
LoggedOn(p, c) ==
  IF c.kind = "test"
    THEN call' = [call EXCEPT ![p] = [c EXCEPT !.pc = "save"]] /\ ptt' = [ptt EXCEPT ![p] = Off]
    ELSE Type(p, Menu, [c EXCEPT !.pc = "wait", !.key = Menu + 1])

\* The text of a refusal, or its two words anywhere in the buffer: one in the prompt for
\* the password, one in the prompt about failed attempts.
Refusal(c) == Refused \in c.screen \/ {Name, Attempts} \subseteq c.screen

LoginSoft(p) == LET c == call[p] IN   \* mutant: the refusal is not looked at
  /\ c.pc = "login"
  /\ \/ {Password, Refused} \cap c.screen # {} /\ LoggedOn(p, c)
     \/ /\ {Password, Refused} \cap c.screen = {}
        /\ \E s \in Prompts \cap c.screen : Type(p, s, c)
  /\ UNCHANGED <<rows, offered, count>>

Login(p) == LET c == call[p]
                first == IF Duplicate \in c.screen THEN Duplicate
                         ELSE IF AnyKey \in c.screen THEN AnyKey ELSE Attempts IN
  /\ c.pc = "login"
  /\ \/ Refusal(c) /\ Reply(p, IF c.kind = "test" THEN "refused" ELSE "failed")
     \/ ~Refusal(c) /\ Password \in c.screen /\ LoggedOn(p, c)
     \/ /\ ~Refusal(c) /\ Password \notin c.screen /\ first \in c.screen
        /\ IF ptt[p].at = Closed THEN call' = [call EXCEPT ![p].screen = {}] /\ UNCHANGED ptt
                                ELSE Type(p, first, c)
  /\ UNCHANGED <<rows, offered, count>>

\* After 25 polls the login counts as done, whatever is on the screen.
LoginGivesUp(p) ==
  /\ call[p].pc = "login"
  /\ LoggedOn(p, [call[p] EXCEPT !.late = TRUE])
  /\ UNCHANGED <<rows, offered, count>>

EndSend(p) ==
  /\ call[p].pc = "end" /\ Reply(p, "sent")
  /\ UNCHANGED <<rows, offered, count>>

\* FindByUserID, then Update or Create: two statements.
FindPTTAccount(p) ==
  /\ call[p].pc = "save"
  /\ call' = [call EXCEPT ![p].pc = IF account = None THEN "create" ELSE "update"]
  /\ UNCHANGED <<rows, offered, ptt, count>>

SavePTTAccount(p) == LET c == call[p] IN
  /\ c.pc \in {"create", "update"}
  /\ IF (account = None) = (c.pc = "create")
       THEN account' = c.password /\ Reply(p, "bound")
       ELSE UNCHANGED account /\ Reply(p, "failed")
  /\ UNCHANGED <<template, vip, offered, count>>

Client(p) ==
  \/ FindTemplate(p) \/ GetCredentials(p) \/ Connect(p) \/ WaitFor(p) \/ WaitOut(p)
  \/ Login(p) \/ LoginGivesUp(p) \/ EndSend(p) \/ FindPTTAccount(p) \/ SavePTTAccount(p)

Next ==
  \/ GetMailButtonData \/ HandleMailPreview
  \/ UnbindPTTAccount \/ ChangePassword \/ ChangeRole
  \/ \E t \in Templates \union {None} : EditTemplate(t)
  \/ \E p \in Calls :
       \/ HandleMailConfirm(p) \/ \E password \in {"right", "wrong"} : BindPTTAccount(p, password)
       \/ Serve(p) \/ Drop(p) \/ Client(p)

\* Every wait of the client has a deadline; of PTT nothing is assumed.
Spec == Init /\ [][Next]_vars /\ \A p \in Calls : WF_vars(Client(p))
-----------------------------------------------------------------------------
\* Types; a handler that has not dialled, or that has answered, has no connection.
TypeOK ==
  /\ template \in Templates \union {None} /\ account \in {"right", "wrong", None} /\ vip \in BOOLEAN
  /\ offered \subseteq {"preview", "confirm"}
  /\ \A p \in Calls :
       /\ call[p].key \in 0..Last /\ call[p].screen \subseteq Screens
       /\ call[p].text \in Templates \union {None}
       /\ call[p].pc \in {"template", "account", "dial", "save", "create", "update", "told", "idle"}
            => ptt[p] = Off
       /\ ptt[p].at \in Screens \union {Closed, Lost, Hello}

\* What the user is told is true, unless a wait ran out or the connection was lost:
\* "sent" after exactly one mail, with the text that was read when the button was
\* pressed, an error after none, and "bound" after a login with the right password.
\* A press never sends two mails (mail.go:52-73, 333-440; ptt_account.go:47-79).
RepliesTrue == \A p \in Calls : LET c == call[p] IN
  /\ Len(c.mails) <= 1
  /\ c.reply = "sent" /\ ~c.late /\ ~c.cut => c.mails = <<c.text>>
  /\ c.reply \in {"failed", "notemplate", "noaccount"} /\ ~c.cut => c.mails = <<>>
  /\ c.reply = "bound" /\ ~c.late => c.password = "right"

\* Whatever PTT does or fails to do, the handler ends and the user gets an answer:
\* every wait has a deadline and the login loop an end (mail.go:246, 293).
Answered == \A p \in Calls : call[p].pc = "dial" ~> call[p].pc = "told"
=============================================================================
