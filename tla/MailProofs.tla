----------------------------- MODULE MailProofs -----------------------------
(***************************************************************************)
(* Proofs about Mail: for any number of handlers, templates, changes and   *)
(* lost connections, and whatever PTT answers, what the user is told is    *)
(* true.  A handler shares nothing with another but the rows and the login *)
(* at PTT, so the invariant is stated of one handler and its connection.   *)
(***************************************************************************)
EXTENDS Mail, TLAPS

Handler ==
  [pc : {"idle", "template", "account", "dial", "wait", "login", "end", "save", "create",
         "update", "told"},
   kind : {"mail", "test", None}, key : 0..Last, text : Templates \union {None},
   password : {"right", "wrong", None}, screen : SUBSET Screens, again : BOOLEAN,
   late : BOOLEAN, cut : BOOLEAN, mails : Seq(Templates \union {None}),
   reply : {"sent", "failed", "refused", "notemplate", "noaccount", "bound", None}]

Connection == [at : Screens \union {Closed, Lost, Hello}, in : Seq(Int)]

\* Connected; connected and not yet past the login.
Talks(c) == c.pc \in {"wait", "login", "end"}
Early(c) == c.pc = "login" \/ (c.pc = "wait" /\ c.key \in {Name, Password})

\* A connection is open only while the handler talks, and if it is not, it was lost.
Connected(c, t) ==
  /\ ~Talks(c) => t = Off
  /\ Talks(c) /\ t.at = Closed => c.cut
  /\ Talks(c) => c.key # 0

\* Before the login is over no key of the mail menu is typed.
NotYet(c, t) ==
  Early(c) => t.at \notin (Menu..Last) \union {NoUser} /\ \A i \in 1..Len(t.in) : t.in[i] < Menu

\* PTT never goes back behind the signature: one mail at most, with the text that was read.
OneMail(c, t) ==
  /\ c.mails = <<>> \/ (c.mails = <<c.text>> /\ t.at \in {Signature, Last, Lost, Closed})
  /\ Early(c) \/ c.pc \in {"idle", "template", "account", "dial", "save", "create", "update"}
       => c.mails = <<>>

\* What the handler has on its screen.
Seen(c, t) ==
  /\ Signature \in c.screen => c.mails # <<>>
  /\ NoUser \in c.screen => c.mails = <<>> /\ t.at \in {NoUser, Lost, Closed}
  /\ ({t.at} \union c.screen) \intersect (Prompts \union (Password..Last)) # {}
       => c.password = "right"

\* The screen of a handler that has not dialled is empty.
Blank(c) == c.pc \in {"idle", "template", "account", "dial"} => c.screen = {}

\* What it will tell, or has told, the user.
Tells(c) ==
  /\ c.pc \in {"save", "create", "update"} /\ ~c.late => c.password = "right"
  /\ c.pc = "end" /\ ~c.late /\ ~c.cut => c.mails = <<c.text>>
  /\ c.pc # "told" => c.reply = None
  /\ c.reply = "sent" /\ ~c.late /\ ~c.cut => c.mails = <<c.text>>
  /\ c.reply \in {"failed", "notemplate", "noaccount"} /\ ~c.cut => c.mails = <<>>
  /\ c.reply = "bound" /\ ~c.late => c.password = "right"

Sound(c, t) ==
  /\ c \in Handler /\ t \in Connection
  /\ Connected(c, t) /\ NotYet(c, t) /\ OneMail(c, t) /\ Seen(c, t) /\ Blank(c) /\ Tells(c)

Rows ==
  /\ template \in Templates \union {None} /\ account \in {"right", "wrong", None} /\ vip \in BOOLEAN
  /\ offered \subseteq {"preview", "confirm"}

Inv ==
  /\ Rows
  /\ call \in [Calls -> Handler] /\ ptt \in [Calls -> Connection]
  /\ \A p \in Calls : Sound(call[p], ptt[p])

\* A step of one handler, or of PTT at the other end of its connection.
LEMMA OneHandler ==
  ASSUME Inv, Rows', NEW p \in Calls, NEW c, NEW t, Sound(c, t),
         call' = [call EXCEPT ![p] = c], ptt' = [ptt EXCEPT ![p] = t]
  PROVE  Inv'
<1>1. c \in Handler /\ t \in Connection
  BY DEF Sound
<1>2. call' \in [Calls -> Handler] /\ ptt' \in [Calls -> Connection]
  BY <1>1 DEF Inv
<1>3. ASSUME NEW q \in Calls PROVE Sound(call'[q], ptt'[q])
  <2>1. CASE q = p
    BY <2>1 DEF Inv
  <2>2. CASE q # p
    <3>1. call'[q] = call[q] /\ ptt'[q] = ptt[q]
      BY <2>2 DEF Inv
    <3> QED
      BY <3>1 DEF Inv
  <2> QED
    BY <2>1, <2>2
<1> QED
  BY <1>2, <1>3 DEF Inv

\* A step of the handler alone.
LEMMA HandlerOnly ==
  ASSUME Inv, Rows', NEW p \in Calls, NEW c, Sound(c, ptt[p]),
         call' = [call EXCEPT ![p] = c], UNCHANGED ptt
  PROVE  Inv'
<1>1. ptt' = [ptt EXCEPT ![p] = ptt[p]]
  BY DEF Inv
<1> QED
  BY <1>1, OneHandler

\* No connection.
LEMMA OffIs == Off \in Connection /\ Off.at = Closed /\ Off.in = <<>>
BY DEF Off, Connection

\* A handler before it begins.
LEMMA IdleIs ==
  Idle \in Handler /\ Idle.pc = "idle" /\ Idle.mails = <<>> /\ Idle.screen = {} /\ Idle.reply = None
<1>1. <<>> \in Seq(Templates \union {None})
  OBVIOUS
<1> QED
  BY <1>1 DEF Idle, Handler, Last

\* The answer leaves what has been sent and seen as it is.
LEMMA AnswersIs ==
  ASSUME NEW c \in Handler, NEW r
  PROVE  LET a == Answers(c, r) IN
         /\ a.pc = "told" /\ a.reply = r /\ a.screen = {} /\ a.mails = c.mails /\ a.text = c.text
         /\ a.password = c.password /\ a.late = c.late /\ a.cut = c.cut
         /\ r \in {"sent", "failed", "refused", "notemplate", "noaccount", "bound"} => a \in Handler
<1> DEFINE a == Answers(c, r)
<1>1. a.pc = "told" /\ a.reply = r /\ a.text = c.text /\ a.password = c.password
  BY DEF Answers, Idle
<1>2. a.late = c.late /\ a.cut = c.cut /\ a.mails = c.mails /\ a.screen = {}
  BY DEF Answers, Idle
<1>3. ASSUME r \in {"sent", "failed", "refused", "notemplate", "noaccount", "bound"}
      PROVE  a \in Handler
  <2> DEFINE d == [Idle EXCEPT !.pc = "told", !.reply = r, !.text = c.text]
  <2>1. Idle \in Handler
    BY IdleIs
  <2>2. d \in Handler
    BY <1>3, <2>1 DEF Handler
  <2>3. a = [d EXCEPT !.password = c.password, !.late = c.late, !.cut = c.cut, !.mails = c.mails]
    BY DEF Answers
  <2> HIDE DEF d, a
  <2> QED
    BY <2>2, <2>3 DEF Handler
<1> QED
  BY <1>1, <1>2, <1>3

\* An answer that is true leaves a sound handler.
LEMMA Ended ==
  ASSUME Inv, Rows', NEW p \in Calls, NEW r, Reply(p, r),
         r \in {"sent", "failed", "refused", "notemplate", "noaccount", "bound"},
         r = "sent" /\ ~call[p].late /\ ~call[p].cut => call[p].mails = <<call[p].text>>,
         r \in {"failed", "notemplate", "noaccount"} /\ ~call[p].cut => call[p].mails = <<>>,
         r = "bound" /\ ~call[p].late => call[p].password = "right"
  PROVE  Inv'
<1> DEFINE c == call[p]
           a == Answers(c, r)
<1>1. c \in Handler /\ Sound(c, ptt[p])
  BY DEF Inv
<1>2. /\ a.pc = "told" /\ a.reply = r /\ a.screen = {}
      /\ a.mails = c.mails /\ a.text = c.text /\ a.password = c.password
      /\ a.late = c.late /\ a.cut = c.cut /\ a \in Handler
  BY <1>1, AnswersIs
<1>3. call' = [call EXCEPT ![p] = a] /\ ptt' = [ptt EXCEPT ![p] = Off]
  BY DEF Reply
<1>4. c.mails = <<>> \/ c.mails = <<c.text>>
  BY <1>1 DEF Sound, OneMail
<1> HIDE DEF a
<1>5. Connected(a, Off) /\ NotYet(a, Off) /\ OneMail(a, Off)
  BY <1>2, <1>4, OffIs DEF Connected, NotYet, OneMail, Early, Talks
<1>6. Seen(a, Off)
  BY <1>2, OffIs DEF Seen, Prompts, Closed, Duplicate, AnyKey, Attempts, Password, Last
<1>7. Tells(a)
  BY <1>2 DEF Tells
<1> QED
  BY <1>2, <1>3, <1>5, <1>6, <1>7, OffIs, OneHandler DEF Sound, Blank, Talks

\* A key is typed, or the connection was lost.
LEMMA Typed ==
  ASSUME Inv, Rows', NEW p \in Calls, NEW key \in Int, NEW rest \in Handler, Type(p, key, rest),
         Talks(call[p]), Talks(rest), rest.mails = call[p].mails, rest.text = call[p].text,
         rest.password = call[p].password, rest.cut = call[p].cut, rest.reply = call[p].reply,
         Early(rest) => Early(call[p]) /\ key < Menu, rest.key # 0,
         rest.pc = "end" /\ ~rest.late /\ ~rest.cut => rest.mails = <<rest.text>>
  PROVE  Inv'
<1> DEFINE c == call[p]
           t == ptt[p]
<1>1. c \in Handler /\ t \in Connection /\ Sound(c, t)
  BY DEF Inv
<1>2. CASE t.at = Closed
  <2>1. c.cut
    BY <1>1, <1>2 DEF Sound, Connected
  <2> QED
    BY <1>2, <2>1, Ended DEF Type
<1>3. CASE t.at # Closed
  <2> DEFINE c1 == [rest EXCEPT !.screen = {}]
             t1 == [t EXCEPT !.in = IF t.at = Lost THEN <<>> ELSE Append(@, key)]
  <2>1. call' = [call EXCEPT ![p] = c1] /\ ptt' = [ptt EXCEPT ![p] = t1]
    BY <1>3 DEF Type, Inv
  <2>2. /\ c1 \in Handler /\ c1.screen = {} /\ c1.pc = rest.pc /\ c1.key = rest.key
        /\ c1.mails = c.mails /\ c1.text = c.text /\ c1.password = c.password
        /\ c1.cut = c.cut /\ c1.late = rest.late /\ c1.reply = c.reply
    BY DEF Handler
  <2>3. t1 \in Connection /\ t1.at = t.at
    <3>1. t.in \in Seq(Int) /\ Append(t.in, key) \in Seq(Int) /\ <<>> \in Seq(Int)
      BY <1>1 DEF Connection
    <3> QED
      BY <1>1, <3>1 DEF Connection
  <2>4. \A i \in 1..Len(t1.in) : t1.in[i] = key \/ (i \in 1..Len(t.in) /\ t1.in[i] = t.in[i])
    BY <1>1 DEF Connection
  <2> HIDE DEF c1, t1
  <2>5. Connected(c1, t1)
    BY <1>3, <2>2, <2>3 DEF Connected, Talks
  <2>6. NotYet(c1, t1)
    BY <1>1, <2>2, <2>3, <2>4 DEF Sound, NotYet, Early
  <2>7. OneMail(c1, t1)
    BY <1>1, <2>2, <2>3 DEF Sound, OneMail, Early, Talks
  <2>8. Seen(c1, t1)
    BY <1>1, <2>2, <2>3 DEF Sound, Seen
  <2>9. Tells(c1)
    <3>1. c.reply = None /\ c.pc # "told"
      BY <1>1 DEF Sound, Tells, Talks
    <3> QED
      BY <2>2, <3>1, MailAssumption DEF Tells, Talks
  <2> QED
    BY <2>1, <2>2, <2>3, <2>5, <2>6, <2>7, <2>8, <2>9, OneHandler DEF Sound, Blank, Talks
<1> QED
  BY <1>2, <1>3

\* What PTT answers to a key: it goes to a place it has told the handler of, in the order
\* of the script, or to none.
Follows(at, s) ==
  \/ at = Hello /\ s = 0
  \/ at = Name /\ s = Refused
  \/ at \in {Name} \union Prompts /\ s \in Prompts \union {Password}
  \/ at = Recipient - 1 /\ s = NoUser
  \/ at \in (0..(Last - 1)) \ {Name} /\ s = at + 1

LEMMA Served ==
  ASSUME Inv, NEW p \in Calls, Serve(p)
  PROVE  /\ ptt[p].in # <<>>
         /\ \/ Lose(p)
            \/ \E s \in Screens :
                 /\ Follows(ptt[p].at, s) /\ Show(p, s)
                 /\ s \in Prompts \union {Password} => call[p].password = "right" \/ ptt[p].at \in Prompts
                 /\ s \in Menu..Last => Head(ptt[p].in) = s
                 /\ s = NoUser => Head(ptt[p].in) = Recipient
<1> DEFINE at == ptt[p].at
           key == Head(ptt[p].in)
           Answer(s) ==
             /\ Follows(at, s) /\ Show(p, s)
             /\ s \in Prompts \union {Password} => call[p].password = "right" \/ at \in Prompts
             /\ s \in Menu..Last => key = s
             /\ s = NoUser => key = Recipient
<1>8. ptt[p].in # <<>>
  BY DEF Serve
<1>1. \A s \in Prompts \union {Password} : s \in Screens /\ s \notin Menu..Last /\ s # NoUser
  BY DEF Prompts, Password, Menu, Last, NoUser, Duplicate, AnyKey, Attempts, Screens
<1>2. CASE at = Hello /\ Show(p, 0)
  <2>1. 0 \in Screens /\ Follows(at, 0) /\ 0 \notin Prompts \union {Password} /\ 0 \notin Menu..Last
        /\ 0 # NoUser
    BY <1>2 DEF Follows, Screens, Prompts, Password, Menu, Last, NoUser, Duplicate, AnyKey, Attempts
  <2> QED
    BY <1>2, <1>8, <2>1
<1>3. CASE at \in 0..(Last - 1) \ {Name} /\ key = at + 1 /\ Show(p, key)
  <2>1. key \in Screens /\ Follows(at, key) /\ key # NoUser /\ key \notin Prompts \union {Password}
    BY <1>3 DEF Follows, Screens, NoUser, Last, Prompts, Duplicate, AnyKey, Attempts, Password, Name
  <2> QED
    BY <1>3, <1>8, <2>1
<1>4. CASE at = Name /\ Show(p, Refused)
  <2>1. Refused \in Screens /\ Refused \notin Prompts \union {Password}
        /\ Refused \notin Menu..Last /\ Refused # NoUser
    BY DEF Prompts, Password, Menu, Last, NoUser, Duplicate, AnyKey, Attempts, Refused, Screens
  <2> QED
    BY <1>4, <1>8, <2>1 DEF Follows
<1>5. CASE (at \in Prompts \/ (at = Name /\ call[p].password = "right")) /\ \E s \in After(p, at) : Show(p, s)
  <2>1. After(p, at) \subseteq Prompts \union {Password}
    BY DEF After
  <2> QED
    BY <1>1, <1>5, <1>8, <2>1 DEF Follows
<1>6. CASE at = Recipient - 1 /\ key = Recipient /\ Show(p, NoUser)
  <2>1. NoUser \in Screens /\ NoUser \notin Prompts \union {Password} /\ NoUser \notin Menu..Last
    BY DEF NoUser, Screens, Prompts, Duplicate, AnyKey, Attempts, Password, Menu, Last
  <2> QED
    BY <1>6, <1>8, <2>1 DEF Follows
<1>7. CASE Lose(p)
  BY <1>7, <1>8
<1> QED
  <2>1. \/ at = Hello /\ Show(p, 0)
        \/ at \in 0..(Last - 1) \ {Name} /\ key = at + 1 /\ Show(p, key)
        \/ at = Name /\ Show(p, Refused)
        \/ (at \in Prompts \/ (at = Name /\ call[p].password = "right")) /\ \E s \in After(p, at) : Show(p, s)
        \/ at = Recipient - 1 /\ key = Recipient /\ Show(p, NoUser)
        \/ Lose(p)
    BY DEF Serve
  <2> QED
    BY <2>1, <1>2, <1>3, <1>4, <1>5, <1>6, <1>7

\* PTT shows a screen, or none, and the handler stays sound.
LEMMA ServeKeeps ==
  ASSUME Inv, Rows', NEW p \in Calls, Serve(p)
  PROVE  Inv'
<1> DEFINE c == call[p]
           t == ptt[p]
<1> USE DEF Name, Password, Menu, Recipient, Signature, Last, Duplicate, AnyKey, Attempts, Refused,
            NoUser, Lost, Closed, Hello, Prompts, Screens
<1>1. c \in Handler /\ t \in Connection /\ Sound(c, t)
  BY DEF Inv
<1>2. Talks(c)
  <2>1. t # Off
    BY <1>1, OffIs, Served
  <2> QED
    BY <1>1, <2>1 DEF Sound, Connected
<1>3. CASE Lose(p)
  <2> DEFINE t1 == [at |-> Lost, in |-> <<>>]
  <2>1. ptt' = [ptt EXCEPT ![p] = t1] /\ call' = [call EXCEPT ![p] = c]
    BY <1>3 DEF Lose, Inv
  <2>2. t1 \in Connection /\ t1.at = Lost /\ Len(t1.in) = 0
    BY DEF Connection
  <2> HIDE DEF t1
  <2>3. Connected(c, t1) /\ NotYet(c, t1) /\ OneMail(c, t1) /\ Tells(c)
    BY <1>1, <1>2, <2>2 DEF Sound, Connected, NotYet, OneMail, Tells
  <2>4. Seen(c, t1)
    BY <1>1, <2>2 DEF Sound, Seen
  <2> QED
    BY <1>1, <2>1, <2>2, <2>3, <2>4, OneHandler DEF Sound
<1>4. ASSUME NEW s \in Screens, Follows(t.at, s), Show(p, s),
             s \in Prompts \union {Password} => c.password = "right" \/ t.at \in Prompts,
             s \in Menu..Last => Head(t.in) = s,
             s = NoUser => Head(t.in) = Recipient
      PROVE  Inv'
  <2> DEFINE c1 == [c EXCEPT !.screen = @ \union {s},
                             !.mails = IF s = Signature THEN Append(@, c.text) ELSE @]
             t1 == [at |-> s, in |-> Tail(t.in)]
  <2>1. call' = [call EXCEPT ![p] = c1] /\ ptt' = [ptt EXCEPT ![p] = t1]
    BY <1>4 DEF Show, Inv
  <2>2. t.in \in Seq(Int) /\ t.in # <<>> /\ c.mails \in Seq(Templates \union {None})
        /\ c.text \in Templates \union {None}
    BY <1>1, Served DEF Connection, Handler
  <2>3. t1 \in Connection /\ t1.at = s /\ t1.in = Tail(t.in)
    BY <2>2 DEF Connection
  <2>4. \A i \in 1..Len(t1.in) : i + 1 \in 1..Len(t.in) /\ t1.in[i] = t.in[i + 1]
    BY <2>2, <2>3
  <2>5. Head(t.in) = t.in[1] /\ 1 \in 1..Len(t.in)
    BY <2>2
  <2>6. Early(c) => s \notin (Menu..Last) \union {NoUser}
    BY <1>1, <1>4, <2>5 DEF Sound, NotYet
  <2>7. s \in {Signature, Last} \/ c.mails = <<>>
    BY <1>1, <1>4 DEF Sound, OneMail, Follows
  <2>8. s = Signature => c.mails = <<>>
    BY <1>1, <1>4 DEF Sound, OneMail, Follows
  <2>9. s = Signature => Append(c.mails, c.text) = <<c.text>>
    <3>1. Append(<<>>, c.text) = <<c.text>>
      OBVIOUS
    <3> QED
      BY <2>8, <3>1
  <2>10. /\ c1 \in Handler /\ c1.screen = c.screen \union {s} /\ c1.pc = c.pc /\ c1.key = c.key
         /\ c1.text = c.text /\ c1.password = c.password /\ c1.cut = c.cut /\ c1.late = c.late
         /\ c1.reply = c.reply /\ c1.mails = IF s = Signature THEN <<c.text>> ELSE c.mails
    <3>1. <<c.text>> \in Seq(Templates \union {None})
      BY <2>2
    <3> QED
      BY <1>1, <2>9, <3>1 DEF Handler
  <2> HIDE DEF c1, t1
  <2>11. Connected(c1, t1)
    BY <1>1, <1>2, <2>3, <2>10 DEF Sound, Connected, Talks
  <2>12. NotYet(c1, t1)
    BY <1>1, <2>3, <2>4, <2>6, <2>10 DEF Sound, NotYet, Early
  <2>13. OneMail(c1, t1)
    <3>1. Early(c) => s # Signature
      BY <2>6
    <3> QED
      BY <1>1, <1>2, <2>3, <2>7, <2>10, <3>1 DEF Sound, OneMail, Early, Talks
  <2>14. Seen(c1, t1)
    <3>1. Signature \in c1.screen => c1.mails # <<>>
      BY <1>1, <2>10 DEF Sound, Seen
    <3>2. t.at \notin {NoUser, Lost, Closed}
      BY <1>4 DEF Follows
    <3>3. NoUser \in c1.screen => c1.mails = <<>> /\ s = NoUser
      BY <1>1, <2>7, <2>10, <3>2 DEF Sound, Seen
    <3>4. s \in Prompts \union (Password..Last) =>
            c.password = "right" \/ t.at \in Prompts \union (Password..Last)
      BY <1>4 DEF Follows
    <3>5. ({t1.at} \union c1.screen) \intersect (Prompts \union (Password..Last)) # {}
            => c.password = "right"
      BY <1>1, <2>3, <2>10, <3>4 DEF Sound, Seen
    <3> QED
      BY <2>3, <2>10, <3>1, <3>3, <3>5 DEF Seen
  <2>15. Tells(c1)
    <3>1. c.reply = None /\ c.pc # "told" /\ c.pc \notin {"save", "create", "update"}
      BY <1>1, <1>2 DEF Sound, Tells, Talks
    <3>2. c.pc = "end" /\ ~c.late /\ ~c.cut => c1.mails = <<c.text>>
      BY <1>1, <2>10 DEF Sound, Tells
    <3> QED
      BY <2>10, <3>1, <3>2, MailAssumption DEF Tells
  <2> QED
    BY <1>2, <2>1, <2>3, <2>10, <2>11, <2>12, <2>13, <2>14, <2>15, OneHandler DEF Sound, Blank, Talks
<1> QED
  BY <1>3, <1>4, Served

\* Once a handler has found its screen, or has given up, it goes on.
LEMMA TypeKeyKeeps ==
  ASSUME Inv, Rows', NEW p \in Calls, NEW c \in Handler, TypeKey(p, c), call[p].pc = "wait",
         c = call[p] \/ c = [call[p] EXCEPT !.late = TRUE],
         ~c.late => Found(c)
  PROVE  Inv'
<1> USE DEF Name, Password, Menu, Recipient, Signature, Last
<1> DEFINE rest == IF c.key = Password THEN [c EXCEPT !.pc = "login", !.key = Menu]
                   ELSE IF c.key = Last THEN [c EXCEPT !.pc = "end"]
                   ELSE [c EXCEPT !.key = @ + 1]
           d == call[p]
<1>1. /\ c.pc = "wait" /\ c.key = d.key /\ c.mails = d.mails /\ c.text = d.text
      /\ c.password = d.password /\ c.cut = d.cut /\ c.reply = d.reply /\ c.screen = d.screen
      /\ d \in Handler /\ Sound(d, ptt[p])
  BY DEF Inv, Handler
<1>2. Type(p, c.key, rest) /\ c.key \in 0..Last
  BY DEF TypeKey, Handler
<1>3. /\ rest \in Handler /\ Talks(rest) /\ rest.mails = c.mails /\ rest.text = c.text
      /\ rest.password = c.password /\ rest.cut = c.cut /\ rest.reply = c.reply
  <2>1. CASE c.key = Password
    <3>1. rest = [c EXCEPT !.pc = "login", !.key = Menu] /\ Menu \in 0..Last
      BY <2>1
    <3> QED
      BY <1>1, <3>1 DEF Handler, Talks
  <2>2. CASE c.key # Password /\ c.key = Last
    BY <1>1, <2>2 DEF Handler, Talks
  <2>3. CASE c.key # Password /\ c.key # Last
    <3>1. c.key + 1 \in 0..Last
      BY <1>2, <2>3
    <3> QED
      BY <1>1, <2>3, <3>1 DEF Handler, Talks
  <2> QED
    BY <2>1, <2>2, <2>3
<1>6. rest.key # 0
  <2>1. c.key # 0
    BY <1>1 DEF Sound, Talks, Connected
  <2> QED
    BY <1>1, <1>2, <2>1 DEF Handler
<1>4. Early(rest) => Early(d) /\ c.key < Menu
  <2>1. CASE c.key = Password
    BY <1>1, <2>1 DEF Early
  <2>2. CASE c.key # Password /\ c.key = Last
    <3>1. rest.pc = "end"
      BY <2>2 DEF Handler
    <3> QED
      BY <3>1 DEF Early
  <2>3. CASE c.key # Password /\ c.key # Last
    <3>1. rest.pc = "wait" /\ rest.key = c.key + 1
      BY <1>1, <2>3 DEF Handler
    <3>2. c.key # 0
      BY <1>1, <2>3 DEF Sound, Talks, Connected
    <3> QED
      BY <1>1, <1>2, <2>3, <3>1, <3>2 DEF Early
  <2> QED
    BY <2>1, <2>2, <2>3
<1>5. rest.pc = "end" /\ ~rest.late /\ ~rest.cut => rest.mails = <<rest.text>>
  <2>1. rest.pc = "end" => c.key = Last /\ rest.late = c.late
    BY <1>1 DEF Handler
  <2>2. c.key = Last /\ ~c.late => Signature \in d.screen
    BY <1>1 DEF Found
  <2> QED
    BY <1>1, <1>3, <2>1, <2>2 DEF Sound, Seen, OneMail
<1>7. c.key \in Int /\ Talks(d)
  BY <1>1, <1>2 DEF Talks
<1>8. rest.mails = d.mails /\ rest.text = d.text /\ rest.password = d.password
      /\ rest.cut = d.cut /\ rest.reply = d.reply
  BY <1>1, <1>3
<1> HIDE DEF rest
<1> QED
  BY <1>2, <1>3, <1>4, <1>5, <1>6, <1>7, <1>8, Typed

\* The login is over.
LEMMA LoggedOnKeeps ==
  ASSUME Inv, Rows', NEW p \in Calls, NEW c \in Handler, LoggedOn(p, c), call[p].pc = "login",
         c = call[p] \/ c = [call[p] EXCEPT !.late = TRUE],
         ~c.late => Password \in c.screen
  PROVE  Inv'
<1> USE DEF Menu
<1> DEFINE d == call[p]
<1>1. /\ c.pc = "login" /\ c.key = d.key /\ c.mails = d.mails /\ c.text = d.text
      /\ c.password = d.password /\ c.cut = d.cut /\ c.reply = d.reply /\ c.screen = d.screen
      /\ d \in Handler /\ Sound(d, ptt[p])
  BY DEF Inv, Handler
<1>2. d.mails = <<>> /\ d.reply = None
  BY <1>1 DEF Sound, OneMail, Tells, Early
<1>3. CASE c.kind = "test"
  <2> DEFINE e == [c EXCEPT !.pc = "save"]
  <2>1. call' = [call EXCEPT ![p] = e] /\ ptt' = [ptt EXCEPT ![p] = Off]
    BY <1>3 DEF LoggedOn
  <2>2. /\ e \in Handler /\ e.pc = "save" /\ e.mails = <<>> /\ e.reply = None
        /\ e.screen = d.screen /\ e.password = d.password /\ e.late = c.late
    BY <1>1, <1>2 DEF Handler
  <2>3. ~c.late => d.password = "right"
    BY <1>1 DEF Sound, Seen, Password, Last
  <2> HIDE DEF e
  <2>4. Connected(e, Off) /\ NotYet(e, Off) /\ OneMail(e, Off)
    BY <2>2, OffIs DEF Connected, NotYet, OneMail, Early, Talks
  <2>5. Seen(e, Off)
    <3>1. Signature \notin d.screen
      BY <1>1, <1>2 DEF Sound, Seen
    <3>2. Closed \notin Prompts \union (Password..Last)
      BY DEF Closed, Prompts, Duplicate, AnyKey, Attempts, Password, Last
    <3> QED
      BY <1>1, <2>2, <3>1, <3>2, OffIs DEF Sound, Seen
  <2>6. Tells(e)
    BY <2>2, <2>3, MailAssumption DEF Tells
  <2> QED
    BY <2>1, <2>2, <2>4, <2>5, <2>6, OffIs, OneHandler DEF Sound, Blank, Talks
<1>4. CASE c.kind # "test"
  <2> DEFINE rest == [c EXCEPT !.pc = "wait", !.key = Menu + 1]
  <2>1. Type(p, Menu, rest)
    BY <1>4 DEF LoggedOn
  <2>2. /\ rest \in Handler /\ rest.pc = "wait" /\ rest.key = 4 /\ rest.mails = d.mails
        /\ rest.text = d.text /\ rest.password = d.password /\ rest.cut = d.cut
        /\ rest.reply = d.reply
    <3>1. 4 \in 0..Last /\ Menu + 1 = 4
      BY DEF Last
    <3> QED
      BY <1>1, <3>1 DEF Handler
  <2>3. Talks(rest) /\ ~Early(rest) /\ rest.pc # "end" /\ Talks(d)
    BY <1>1, <2>2 DEF Talks, Early, Name, Password
  <2> HIDE DEF rest
  <2> QED
    BY <2>1, <2>2, <2>3, Typed
<1> QED
  BY <1>3, <1>4

\* The types and the invariant at the start.
LEMMA InvInit ==
  ASSUME Init
  PROVE  Inv
<1>1. Idle \in Handler /\ Idle.pc = "idle" /\ Idle.mails = <<>> /\ Idle.screen = {} /\ Idle.reply = None
  BY IdleIs
<1>2. Connected(Idle, Off) /\ NotYet(Idle, Off) /\ OneMail(Idle, Off)
  BY <1>1, OffIs DEF Connected, NotYet, OneMail, Early, Talks
<1>3. Seen(Idle, Off) /\ Tells(Idle)
  BY <1>1, OffIs, MailAssumption
     DEF Seen, Tells, Closed, Prompts, Duplicate, AnyKey, Attempts, Password, Last
<1>4. Sound(Idle, Off)
  BY <1>1, <1>2, <1>3, OffIs DEF Sound, Blank, Talks
<1> QED
  BY <1>1, <1>4, OffIs DEF Init, Inv, Rows

\* A handler that has not dialled has sent nothing and has no connection.
LEMMA Undialled ==
  ASSUME Inv, Rows', NEW p \in Calls, NEW c \in Handler, ptt[p] = Off,
         call' = [call EXCEPT ![p] = c], UNCHANGED ptt,
         c.pc \in {"template", "account", "dial"},
         c.mails = <<>>, c.reply = None, c.screen = {}
  PROVE  Inv'
<1>1. Connected(c, Off) /\ NotYet(c, Off) /\ OneMail(c, Off)
  BY OffIs DEF Connected, NotYet, OneMail, Early, Talks
<1>2. Seen(c, Off)
  BY OffIs DEF Seen, Closed, Prompts, Duplicate, AnyKey, Attempts, Password, Last, Signature
<1>3. Tells(c)
  BY MailAssumption DEF Tells
<1> QED
  BY <1>1, <1>2, <1>3, OffIs, HandlerOnly DEF Sound, Blank

\* Only the handler of a button, or of a binding, begins.
LEMMA StartKeeps ==
  ASSUME Inv, Rows', NEW p \in Calls, NEW r \in Handler, Start(p, r), UNCHANGED ptt,
         r.pc \in {"template", "dial"}, r.mails = <<>>, r.reply = None, r.screen = {}
  PROVE  Inv'
<1>1. call[p].pc = "idle" /\ call' = [call EXCEPT ![p] = r]
  BY DEF Start, Idle
<1>2. ptt[p] = Off
  BY <1>1 DEF Inv, Sound, Connected, Talks
<1> QED
  BY <1>1, <1>2, Undialled

\* No step of the rows touches a handler.
LEMMA RowSteps ==
  ASSUME Inv, Rows', UNCHANGED <<call, ptt>>
  PROVE  Inv'
BY DEF Inv

LEMMA ClientKeeps ==
  ASSUME Inv, NEW p \in Calls, Client(p)
  PROVE  Inv'
<1> DEFINE c == call[p]
           t == ptt[p]
<1>1. c \in Handler /\ t \in Connection /\ Sound(c, t) /\ Rows
  BY DEF Inv
<1>2. (UNCHANGED rows /\ UNCHANGED offered) => Rows'
  BY <1>1 DEF Rows, rows
<1>3. CASE FindTemplate(p)
  <2>1. c.mails = <<>> /\ c.reply = None /\ t = Off /\ Rows' /\ c.pc = "template"
    BY <1>1, <1>2, <1>3 DEF FindTemplate, Sound, OneMail, Tells, Connected, Talks
  <2>2. CASE template = None
    BY <1>3, <2>1, <2>2, Ended DEF FindTemplate
  <2>3. CASE template # None
    <3> DEFINE d == [c EXCEPT !.pc = "account", !.text = template]
    <3>1. call' = [call EXCEPT ![p] = d] /\ UNCHANGED ptt
      BY <1>1, <1>3, <2>3 DEF FindTemplate, Inv
    <3>2. d \in Handler /\ d.pc = "account" /\ d.mails = <<>> /\ d.reply = None
          /\ d.screen = c.screen
      BY <1>1, <2>1 DEF Handler, Rows
    <3>3. c.screen = {}
      BY <1>1, <2>1 DEF Sound, Blank
    <3> HIDE DEF d
    <3> QED
      BY <2>1, <3>1, <3>2, <3>3, Undialled
  <2> QED
    BY <2>2, <2>3
<1>4. CASE GetCredentials(p)
  <2>1. c.mails = <<>> /\ c.reply = None /\ t = Off /\ Rows' /\ c.pc = "account"
    BY <1>1, <1>2, <1>4 DEF GetCredentials, Sound, OneMail, Tells, Connected, Talks
  <2>2. CASE account = None
    BY <1>4, <2>1, <2>2, Ended DEF GetCredentials
  <2>3. CASE account # None
    <3> DEFINE d == [c EXCEPT !.pc = "dial", !.password = account]
    <3>1. call' = [call EXCEPT ![p] = d] /\ UNCHANGED ptt
      BY <1>1, <1>4, <2>3 DEF GetCredentials, Inv
    <3>2. d \in Handler /\ d.pc = "dial" /\ d.mails = <<>> /\ d.reply = None
          /\ d.screen = c.screen
      BY <1>1, <2>1 DEF Handler, Rows
    <3>3. c.screen = {}
      BY <1>1, <2>1 DEF Sound, Blank
    <3> HIDE DEF d
    <3> QED
      BY <2>1, <3>1, <3>2, <3>3, Undialled
  <2> QED
    BY <2>2, <2>3
<1>5. CASE Connect(p)
  <2>1. c.mails = <<>> /\ c.reply = None /\ c.screen = {} /\ Rows' /\ c.pc = "dial"
    BY <1>1, <1>2, <1>5 DEF Connect, Sound, OneMail, Tells, Blank
  <2>2. CASE Reply(p, "failed")
    BY <2>1, <2>2, Ended
  <2>3. CASE ~Reply(p, "failed")
    <3> DEFINE d == [c EXCEPT !.pc = "wait", !.key = Name]
               u == [at |-> Hello, in |-> <<0>>]
    <3>1. call' = [call EXCEPT ![p] = d] /\ ptt' = [ptt EXCEPT ![p] = u]
      BY <1>1, <1>5, <2>3 DEF Connect, Inv
    <3>2. d \in Handler /\ d.pc = "wait" /\ d.key = 1 /\ d.mails = <<>> /\ d.reply = None
          /\ d.screen = {}
      <4>1. Name \in 0..Last /\ Name = 1
        BY DEF Name, Last
      <4> QED
        BY <1>1, <2>1, <4>1 DEF Handler
    <3>3. u \in Connection /\ u.at = Hello /\ Len(u.in) = 1 /\ u.in[1] = 0
      BY DEF Connection
    <3> HIDE DEF d, u
    <3>4. Connected(d, u) /\ NotYet(d, u) /\ OneMail(d, u) /\ Blank(d)
      BY <3>2, <3>3 DEF Connected, NotYet, OneMail, Early, Talks, Blank, Hello, Closed, Menu, Last, NoUser
    <3>5. Seen(d, u) /\ Tells(d)
      BY <3>2, <3>3, MailAssumption
         DEF Seen, Tells, Hello, Prompts, Duplicate, AnyKey, Attempts, Password, Last
    <3> QED
      BY <2>1, <3>1, <3>2, <3>3, <3>4, <3>5, OneHandler DEF Sound
  <2> QED
    BY <2>2, <2>3
<1>6. CASE WaitFor(p)
  <2>1. Rows' /\ c.pc = "wait" /\ Found(c)
    BY <1>2, <1>6 DEF WaitFor
  <2>2. CASE NoUser \in c.screen /\ c.key = Recipient + 1
    <3>1. c.mails = <<>> /\ Reply(p, "failed")
      BY <1>1, <1>6, <2>2 DEF WaitFor, Sound, Seen
    <3> QED
      BY <2>1, <3>1, Ended
  <2>3. CASE ~(NoUser \in c.screen /\ c.key = Recipient + 1)
    <3>1. TypeKey(p, c)
      BY <1>6, <2>3 DEF WaitFor
    <3> QED
      BY <1>1, <2>1, <3>1, TypeKeyKeeps
  <2> QED
    BY <2>2, <2>3
<1>7. CASE WaitOut(p)
  <2> DEFINE d == [c EXCEPT !.late = TRUE]
  <2>1. Rows' /\ c.pc = "wait"
    BY <1>1, <1>2, <1>7 DEF WaitOut, Handler
  <2>2. /\ d \in Handler /\ d.late /\ d.pc = "wait" /\ d.key = c.key /\ d.screen = c.screen
        /\ d.mails = c.mails /\ d.text = c.text /\ d.password = c.password /\ d.cut = c.cut
        /\ d.reply = c.reply
    BY <1>1, <2>1 DEF Handler
  <2>3. CASE d.key = Name /\ d.screen = {}
    <3>1. Reply(p, "failed")
      BY <1>7, <2>3 DEF WaitOut
    <3>2. c.mails = <<>>
      BY <1>1, <2>1, <2>2, <2>3 DEF Sound, OneMail, Early
    <3> QED
      BY <2>1, <3>1, <3>2, Ended
  <2>4. CASE ~(d.key = Name /\ d.screen = {}) /\ d.key = Menu + 1 /\ ~d.again
    <3> DEFINE rest == [d EXCEPT !.again = TRUE]
    <3>1. Type(p, Menu, rest)
      BY <1>7, <2>4 DEF WaitOut
    <3>2. /\ rest \in Handler /\ rest.late /\ rest.pc = "wait" /\ rest.key = d.key
          /\ rest.mails = c.mails /\ rest.text = c.text /\ rest.password = c.password
          /\ rest.cut = c.cut /\ rest.reply = c.reply
      BY <2>2 DEF Handler
    <3>3. Talks(c) /\ Talks(rest) /\ ~Early(rest) /\ Menu \in Int /\ rest.key # 0
      BY <2>1, <2>4, <3>2 DEF Talks, Early, Menu, Name, Password
    <3> HIDE DEF rest, d
    <3> QED
      BY <2>1, <3>1, <3>2, <3>3, Typed
  <2>5. CASE ~(d.key = Name /\ d.screen = {}) /\ ~(d.key = Menu + 1 /\ ~d.again)
    <3>1. TypeKey(p, d)
      BY <1>7, <2>5 DEF WaitOut
    <3> QED
      BY <2>1, <2>2, <3>1, TypeKeyKeeps
  <2> QED
    BY <2>3, <2>4, <2>5
<1>8. CASE Login(p)
  <2>1. Rows' /\ c.pc = "login" /\ c.mails = <<>> /\ c.reply = None /\ Early(c) /\ Talks(c)
        /\ c.key # 0
    BY <1>1, <1>2, <1>8 DEF Login, Sound, OneMail, Tells, Early, Talks, Connected
  <2>2. CASE Refusal(c)
    <3>1. Reply(p, "refused") \/ Reply(p, "failed")
      BY <1>8, <2>2 DEF Login
    <3> QED
      BY <2>1, <3>1, Ended
  <2>3. CASE ~Refusal(c) /\ Password \in c.screen
    <3>1. LoggedOn(p, c)
      BY <1>8, <2>3 DEF Login
    <3> QED
      BY <1>1, <2>1, <2>3, <3>1, LoggedOnKeeps
  <2>4. CASE ~Refusal(c) /\ Password \notin c.screen /\ t.at = Closed
    <3> DEFINE d == [c EXCEPT !.screen = {}]
    <3>1. call' = [call EXCEPT ![p] = d] /\ UNCHANGED ptt
      BY <1>1, <1>8, <2>4 DEF Login, Inv
    <3>2. /\ d \in Handler /\ d.pc = c.pc /\ d.key = c.key /\ d.mails = c.mails /\ d.text = c.text
          /\ d.password = c.password /\ d.cut = c.cut /\ d.late = c.late /\ d.reply = c.reply
          /\ d.screen = {}
      BY <1>1 DEF Handler
    <3> HIDE DEF d
    <3>3. Connected(d, t) /\ NotYet(d, t) /\ OneMail(d, t) /\ Blank(d)
      BY <1>1, <2>1, <3>2 DEF Sound, Connected, NotYet, OneMail, Early, Talks, Blank
    <3>4. Seen(d, t) /\ Tells(d)
      BY <1>1, <3>2 DEF Sound, Seen, Tells
    <3> QED
      BY <1>1, <2>1, <3>1, <3>2, <3>3, <3>4, HandlerOnly DEF Sound
  <2>5. CASE ~Refusal(c) /\ Password \notin c.screen /\ t.at # Closed
    <3>1. PICK s \in Prompts : Type(p, s, c)
      BY <1>8, <2>5 DEF Login, Prompts
    <3>2. s \in Int /\ s < Menu
      BY DEF Prompts, Duplicate, AnyKey, Attempts, Menu
    <3> QED
      BY <1>1, <2>1, <3>1, <3>2, Typed
  <2> QED
    BY <2>2, <2>3, <2>4, <2>5
<1>9. CASE LoginGivesUp(p)
  <2> DEFINE d == [c EXCEPT !.late = TRUE]
  <2>1. Rows' /\ c.pc = "login" /\ LoggedOn(p, d) /\ d \in Handler /\ d.late
    BY <1>1, <1>2, <1>9 DEF LoginGivesUp, Handler
  <2> HIDE DEF d
  <2> QED
    BY <2>1, LoggedOnKeeps DEF d
<1>10. CASE EndSend(p)
  <2>1. Rows' /\ c.pc = "end" /\ Reply(p, "sent")
    BY <1>2, <1>10 DEF EndSend
  <2> QED
    BY <1>1, <2>1, Ended DEF Sound, Tells
<1>11. CASE FindPTTAccount(p)
  <2>1. Rows' /\ c.mails = <<>> /\ c.reply = None /\ t = Off /\ c.pc = "save" /\ UNCHANGED ptt
    BY <1>1, <1>2, <1>11 DEF FindPTTAccount, Sound, OneMail, Tells, Connected, Talks
  <2> DEFINE d == [c EXCEPT !.pc = IF account = None THEN "create" ELSE "update"]
  <2>2. call' = [call EXCEPT ![p] = d]
    BY <1>1, <1>11 DEF FindPTTAccount, Inv
  <2>3. /\ d \in Handler /\ d.pc \in {"create", "update"} /\ d.mails = <<>> /\ d.reply = None
        /\ d.password = c.password /\ d.late = c.late /\ d.key = c.key /\ d.screen = c.screen
        /\ d.text = c.text
    BY <1>1, <2>1 DEF Handler
  <2> HIDE DEF d
  <2>4. Connected(d, t) /\ NotYet(d, t) /\ OneMail(d, t) /\ Blank(d)
    BY <2>1, <2>3 DEF Connected, NotYet, OneMail, Early, Talks, Blank
  <2>5. Seen(d, t)
    BY <1>1, <2>1, <2>3 DEF Sound, Seen
  <2>6. Tells(d)
    BY <1>1, <2>1, <2>3, MailAssumption DEF Sound, Tells
  <2> QED
    BY <1>1, <2>1, <2>2, <2>3, <2>4, <2>5, <2>6, HandlerOnly DEF Sound
<1>12. CASE SavePTTAccount(p)
  <2>1. /\ c.pc \in {"create", "update"} /\ c.mails = <<>>
        /\ ~c.late => c.password = "right"
    BY <1>1, <1>12 DEF SavePTTAccount, Sound, OneMail, Tells
  <2>2. c.password \in {"right", "wrong", None}
    BY <1>1 DEF Handler
  <2>3. Rows'
    BY <1>1, <1>12, <2>2 DEF SavePTTAccount, Rows
  <2>4. Reply(p, "bound") \/ Reply(p, "failed")
    BY <1>12 DEF SavePTTAccount
  <2> QED
    BY <2>1, <2>3, <2>4, Ended
<1> QED
  BY <1>3, <1>4, <1>5, <1>6, <1>7, <1>8, <1>9, <1>10, <1>11, <1>12 DEF Client

\* No step leaves the invariant.
LEMMA InvStep ==
  ASSUME Inv, [Next]_vars
  PROVE  Inv'
<1>1. Rows
  BY DEF Inv
<1>2. CASE \/ GetMailButtonData \/ HandleMailPreview \/ UnbindPTTAccount \/ ChangePassword
           \/ ChangeRole \/ \E tt \in Templates \union {None} : EditTemplate(tt)
  <2>1. UNCHANGED <<call, ptt>>
    BY <1>2 DEF GetMailButtonData, HandleMailPreview, UnbindPTTAccount, ChangePassword, ChangeRole,
                EditTemplate
  <2>2. Rows'
    BY <1>1, <1>2 DEF GetMailButtonData, HandleMailPreview, UnbindPTTAccount, ChangePassword,
                      ChangeRole, EditTemplate, Rows, rows
  <2> QED
    BY <2>1, <2>2, RowSteps
<1>3. ASSUME NEW p \in Calls, HandleMailConfirm(p) PROVE Inv'
  <2> DEFINE r == [Idle EXCEPT !.pc = "template", !.kind = "mail"]
  <2>1. Start(p, r) /\ UNCHANGED ptt /\ Rows'
    BY <1>1, <1>3 DEF HandleMailConfirm, Rows, rows
  <2>2. r \in Handler /\ r.pc = "template" /\ r.mails = <<>> /\ r.reply = None /\ r.screen = {}
    BY IdleIs DEF Handler
  <2> HIDE DEF r
  <2> QED
    BY <2>1, <2>2, StartKeeps
<1>4. ASSUME NEW p \in Calls, NEW pw \in {"right", "wrong"}, BindPTTAccount(p, pw) PROVE Inv'
  <2> DEFINE r == [Idle EXCEPT !.pc = "dial", !.kind = "test", !.password = pw]
  <2>1. Start(p, r) /\ UNCHANGED ptt /\ Rows'
    BY <1>1, <1>4 DEF BindPTTAccount, Rows, rows
  <2>2. r \in Handler /\ r.pc = "dial" /\ r.mails = <<>> /\ r.reply = None /\ r.screen = {}
    BY IdleIs DEF Handler
  <2> HIDE DEF r
  <2> QED
    BY <2>1, <2>2, StartKeeps
<1>5. ASSUME NEW p \in Calls, Serve(p) PROVE Inv'
  <2>1. Rows'
    BY <1>1, <1>5 DEF Serve, Rows, rows
  <2> QED
    BY <1>5, <2>1, ServeKeeps
<1>6. ASSUME NEW p \in Calls, Drop(p) PROVE Inv'
  <2> DEFINE c == call[p]
             d == [c EXCEPT !.cut = TRUE]
  <2>1. call' = [call EXCEPT ![p] = d] /\ ptt' = [ptt EXCEPT ![p] = Off] /\ Rows'
    BY <1>1, <1>6 DEF Drop, Inv, Rows, rows
  <2>2. c \in Handler /\ Sound(c, ptt[p])
    BY DEF Inv
  <2>3. Talks(c)
    BY <1>6, <2>2, OffIs DEF Drop, Sound, Connected
  <2>4. /\ d \in Handler /\ d.cut /\ d.pc = c.pc /\ d.key = c.key /\ d.mails = c.mails
        /\ d.text = c.text /\ d.password = c.password /\ d.late = c.late /\ d.reply = c.reply
        /\ d.screen = c.screen
    BY <2>2 DEF Handler
  <2> HIDE DEF d
  <2>5. Connected(d, Off) /\ NotYet(d, Off) /\ OneMail(d, Off) /\ Blank(d)
    BY <2>2, <2>3, <2>4, OffIs DEF Sound, Connected, NotYet, OneMail, Early, Talks, Blank,
                                   Closed, Menu, Last, NoUser
  <2>6. Seen(d, Off)
    <3>1. Closed \notin Prompts \union (Password..Last)
      BY DEF Closed, Prompts, Duplicate, AnyKey, Attempts, Password, Last
    <3> QED
      BY <2>2, <2>4, <3>1, OffIs DEF Sound, Seen
  <2>7. Tells(d)
    BY <2>2, <2>4 DEF Sound, Tells
  <2> QED
    BY <2>1, <2>4, <2>5, <2>6, <2>7, OffIs, OneHandler DEF Sound
<1>7. ASSUME NEW p \in Calls, Client(p) PROVE Inv'
  BY <1>7, ClientKeeps
<1>8. CASE UNCHANGED vars
  BY <1>1, <1>8, RowSteps DEF vars, Rows, rows
<1> QED
  BY <1>2, <1>3, <1>4, <1>5, <1>6, <1>7, <1>8 DEF Next

\* What is told is part of the invariant.
LEMMA InvSays ==
  ASSUME Inv
  PROVE  TypeOK /\ RepliesTrue
<1>1. ASSUME NEW p \in Calls
      PROVE  LET c == call[p] IN
             /\ Len(c.mails) <= 1
             /\ c.reply = "sent" /\ ~c.late /\ ~c.cut => c.mails = <<c.text>>
             /\ c.reply \in {"failed", "notemplate", "noaccount"} /\ ~c.cut => c.mails = <<>>
             /\ c.reply = "bound" /\ ~c.late => c.password = "right"
  <2>1. Sound(call[p], ptt[p])
    BY DEF Inv
  <2>2. Len(<<>>) = 0 /\ Len(<<call[p].text>>) = 1
    OBVIOUS
  <2>3. call[p].mails = <<>> \/ call[p].mails = <<call[p].text>>
    BY <2>1 DEF Sound, OneMail
  <2>4. Len(call[p].mails) <= 1
    <3>1. CASE call[p].mails = <<>>
      BY <3>1
    <3>2. CASE call[p].mails = <<call[p].text>>
      <4>1. Len(call[p].mails) = 1
        BY <2>2, <3>2, Zenon
      <4> QED
        BY <4>1
    <3> QED
      BY <2>3, <3>1, <3>2
  <2>5. Tells(call[p])
    BY <2>1 DEF Sound
  <2> QED
    BY <2>4, <2>5 DEF Tells
<1>2. ASSUME NEW p \in Calls
      PROVE  /\ call[p].key \in 0..Last /\ call[p].screen \subseteq Screens
             /\ call[p].text \in Templates \union {None}
             /\ call[p].pc \in {"template", "account", "dial", "save", "create", "update", "told",
                                "idle"} => ptt[p] = Off
             /\ ptt[p].at \in Screens \union {Closed, Lost, Hello}
  <2>1. Sound(call[p], ptt[p])
    BY DEF Inv
  <2>2. call[p] \in Handler /\ ptt[p] \in Connection
    BY DEF Inv
  <2>3. call[p].key \in 0..Last /\ call[p].screen \subseteq Screens
        /\ call[p].text \in Templates \union {None} /\ ptt[p].at \in Screens \union {Closed, Lost, Hello}
    BY <2>2 DEF Handler, Connection
  <2> QED
    BY <2>1, <2>3 DEF Sound, Connected, Talks
<1> QED
  BY <1>1, <1>2 DEF Inv, Rows, TypeOK, RepliesTrue

\* Types; a handler that has not dialled, or has answered, holds no connection to PTT
\* (mail.go:67, ptt_account.go:71): PTT counts a login that stays open.
THEOREM TypeCorrect == Spec => []TypeOK
<1>1. Init => Inv
  BY InvInit
<1>2. Inv /\ [Next]_vars => Inv'
  BY InvStep
<1>3. Inv => TypeOK
  BY InvSays
<1> QED
  BY <1>1, <1>2, <1>3, PTL DEF Spec

\* Whatever PTT shows, in whatever time, and wherever the connection is lost: no press
\* sends two mails; "sent", an error and "bound" are true unless a wait ran out or the
\* connection was lost (mail.go:52-73, 333-440; ptt_account.go:47-79).
THEOREM WhatIsToldIsTrue == Spec => []RepliesTrue
<1>1. Init => Inv
  BY InvInit
<1>2. Inv /\ [Next]_vars => Inv'
  BY InvStep
<1>3. Inv => RepliesTrue
  BY InvSays
<1> QED
  BY <1>1, <1>2, <1>3, PTL DEF Spec
=============================================================================
