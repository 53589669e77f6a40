---------------------------- MODULE BindingProofs ----------------------------
(***************************************************************************)
(* Proofs about Binding: for any number of accounts, chats, codes and      *)
(* handlers at once, the handlers implement ChatOwner, and what they told  *)
(* the chats agrees with the table, except after a race.                   *)
(***************************************************************************)
EXTENDS Binding, TLAPS

\* What a handler has looked up before each of its steps.
ReqOK ==
  \A r \in Requests :
    /\ req[r].pc # "idle" => req[r].user \in Users
    /\ req[r].pc \in {"chat", "confirm", "clear", "email", "bound", "account", "create"}
         => req[r].chat \in Chats

Inv == TypeOK /\ ReqOK

Requested == [pc : Steps, user : Users \union {None}, chat : Chats \union {None},
              code : Codes \union {None}]

\* A handler is only advanced to a step whose data it has.
LEMMA Advanced ==
  ASSUME Inv, NEW r \in Requests, NEW x \in Requested,
         req' = [req EXCEPT ![r] = x],
         x.pc # "idle" => x.user \in Users,
         x.pc \in {"chat", "confirm", "clear", "email", "bound", "account", "create"} => x.chat \in Chats
  PROVE  req' \in [Requests -> Requested] /\ ReqOK'
BY DEF Inv, TypeOK, ReqOK, Requested

\* The end of a handler, in particular.
LEMMA Ended ==
  ASSUME Inv, NEW r \in Requests, End(r)
  PROVE  req' \in [Requests -> Requested] /\ ReqOK'
<1>1. Idle \in Requested /\ Idle.pc = "idle"
  BY DEF Idle, Requested, Steps
<1> QED
  BY <1>1, Advanced DEF End

\* The next step of a handler, in particular.
LEMMA Gone ==
  ASSUME Inv, NEW r \in Requests, NEW step \in Steps, Go(r, step),
         req[r].user \in Users,
         step \in {"chat", "confirm", "clear", "email", "bound", "account", "create"}
           => req[r].chat \in Chats
  PROVE  req' \in [Requests -> Requested] /\ ReqOK'
<1> DEFINE x == [req[r] EXCEPT !.pc = step]
<1>1. req' = [req EXCEPT ![r] = x]
  BY DEF Go
<1>2. req[r] \in Requested
  BY DEF Inv, TypeOK, Requested
<1>3. x \in Requested /\ x.pc = step /\ x.user = req[r].user /\ x.chat = req[r].chat
  BY <1>2 DEF Requested
<1> HIDE DEF x
<1> QED
  BY <1>1, <1>3, Advanced

\* What a step may write to a row has its type.
LEMMA Written ==
  ASSUME Inv, NEW u \in Users, NEW c \in Chats \union {None, Empty},
         NEW k \in Codes \union {None}, NEW on \in BOOLEAN, SetRow(u, c, k, on)
  PROVE  /\ row' \in [Users -> Chats \union {None, Empty}]
         /\ code' \in [Users -> Codes \union {None}]
         /\ enabled' \in [Users -> BOOLEAN]
         /\ row' = [row EXCEPT ![u] = c]
BY DEF Inv, TypeOK, SetRow

\* No step leaves the types, and no handler goes on without its data.
LEMMA InvKept ==
  ASSUME Inv, [Next]_vars
  PROVE  Inv'
<1> DEFINE Tables == /\ account' \in [Users -> {"no", "yes", "gone"}]
                     /\ row' \in [Users -> Chats \union {None, Empty}]
                     /\ code' \in [Users -> Codes \union {None}]
                     /\ enabled' \in [Users -> BOOLEAN]
           Reqs == req' \in [Requests -> Requested] /\ ReqOK'
           Rest == /\ valid' \subseteq used' /\ used' \subseteq Codes /\ waiting' \subseteq Chats
                   /\ told' \subseteq Users \X Chats /\ raced' \subseteq Users
<1> SUFFICES Tables /\ Reqs /\ Rest
  BY DEF Inv, TypeOK, Requested
<1>1. ASSUME UNCHANGED table PROVE Tables
  BY <1>1 DEF table, Inv, TypeOK
<1>2. ASSUME UNCHANGED req PROVE Reqs
  BY <1>2 DEF Inv, TypeOK, ReqOK, Requested
<1>3. ASSUME UNCHANGED <<codes, waiting, facts>> PROVE Rest
  BY <1>3 DEF codes, facts, Inv, TypeOK
<1>4. ASSUME NEW r \in Requests, NEW u \in Users, Generate(r, u) PROVE Tables /\ Reqs /\ Rest
  <2>1. PICK k \in Codes \ used :
          /\ used' = used \union {k} /\ valid' = valid \union {k}
          /\ req' = [req EXCEPT ![r] = [Idle EXCEPT !.pc = "update", !.user = u, !.code = k]]
    BY <1>4 DEF Generate
  <2> DEFINE x == [Idle EXCEPT !.pc = "update", !.user = u, !.code = k]
  <2>2. x \in Requested /\ x.pc = "update" /\ x.user = u
    BY DEF Idle, Requested, Steps
  <2>3. req' = [req EXCEPT ![r] = x]
    BY <2>1
  <2> HIDE DEF x
  <2>4. Reqs
    BY <2>2, <2>3, Advanced
  <2>5. Rest
    BY <1>4, <2>1 DEF Generate, facts, Inv, TypeOK
  <2> QED
    BY <1>1, <1>4, <2>4, <2>5 DEF Generate
<1>5. ASSUME NEW r \in Requests, UpdateBindCode(r) PROVE Tables /\ Reqs /\ Rest
  <2>1. req[r].user \in Users /\ "insert" \in Steps
    BY <1>5 DEF UpdateBindCode, Inv, ReqOK, Steps
  <2>2. req[r].code \in Codes \union {None}
    BY DEF Inv, TypeOK
  <2>3. code' \in [Users -> Codes \union {None}]
    BY <1>5, <2>2 DEF UpdateBindCode, Inv, TypeOK
  <2>4. Reqs
    BY <1>5, <2>1, Ended, Gone DEF UpdateBindCode
  <2> QED
    BY <1>3, <1>5, <2>3, <2>4 DEF UpdateBindCode, Inv, TypeOK
<1>6. ASSUME NEW r \in Requests, InsertBindCode(r) PROVE Tables /\ Reqs /\ Rest
  <2>1. req[r].user \in Users /\ req[r].code \in Codes \union {None}
    BY <1>6 DEF InsertBindCode, Inv, ReqOK, TypeOK
  <2>2. Tables
    BY <1>6, <2>1, Written DEF InsertBindCode, Inv, TypeOK
  <2> QED
    BY <1>3, <1>6, <2>2, Ended DEF InsertBindCode
<1>7. ASSUME NEW r \in Requests, NEW c \in Chats, NEW k \in Codes, FindByBindCode(r, c, k)
      PROVE  Tables /\ Reqs /\ Rest
  <2>1. PICK u \in Users :
          req' = [req EXCEPT ![r] = [Idle EXCEPT !.pc = "chat", !.user = u, !.chat = c]]
    BY <1>7 DEF FindByBindCode
  <2> DEFINE x == [Idle EXCEPT !.pc = "chat", !.user = u, !.chat = c]
  <2>2. x \in Requested /\ x.user = u /\ x.chat = c
    BY DEF Idle, Requested, Steps
  <2>3. req' = [req EXCEPT ![r] = x]
    BY <2>1
  <2> HIDE DEF x
  <2>4. Reqs
    BY <2>2, <2>3, Advanced
  <2> QED
    BY <1>1, <1>3, <1>7, <2>4 DEF FindByBindCode
<1>8. ASSUME NEW r \in Requests, FindByServiceID(r) \/ FindByEmail(r) \/ FindByUserAndService(r)
      PROVE  Tables /\ Reqs /\ Rest
  <2>1. req[r].user \in Users /\ req[r].chat \in Chats
    BY <1>8 DEF FindByServiceID, FindByEmail, FindByUserAndService, Inv, ReqOK
  <2>2. End(r) \/ \E step \in Steps : Go(r, step)
    BY <1>8 DEF FindByServiceID, FindByEmail, FindByUserAndService, Steps
  <2>3. Reqs
    BY <2>1, <2>2, Ended, Gone
  <2> QED
    BY <1>1, <1>3, <1>8, <2>3 DEF FindByServiceID, FindByEmail, FindByUserAndService
<1>9. ASSUME NEW r \in Requests, NEW u \in Users, NEW c \in Chats, Succeed(r, u, c)
      PROVE  told' \subseteq Users \X Chats /\ raced' \subseteq Users
  BY <1>9 DEF Succeed, Race, Inv, TypeOK
<1>10. ASSUME NEW r \in Requests, ConfirmBinding(r) PROVE Tables /\ Reqs /\ Rest
  <2>1. req[r].user \in Users /\ req[r].chat \in Chats
    BY <1>10 DEF ConfirmBinding, Inv, ReqOK
  <2>2. Tables
    BY <1>10, <2>1, Written DEF ConfirmBinding, Inv, TypeOK
  <2>3. Rest
    BY <1>9, <1>10, <2>1 DEF ConfirmBinding, codes, facts, Inv, TypeOK
  <2> QED
    BY <1>10, <2>2, <2>3, Ended DEF ConfirmBinding
<1>11. ASSUME NEW r \in Requests, CreateBinding(r) PROVE Tables /\ Reqs /\ Rest
  <2>1. req[r].user \in Users /\ req[r].chat \in Chats
    BY <1>11 DEF CreateBinding, Inv, ReqOK
  <2>2. Tables
    BY <1>11, <2>1, Written DEF CreateBinding, Inv, TypeOK
  <2>3. Rest
    BY <1>9, <1>11, <2>1 DEF CreateBinding, codes, facts, Inv, TypeOK
  <2> QED
    BY <1>11, <2>2, <2>3, Ended DEF CreateBinding
<1>12. ASSUME NEW r \in Requests, CreateAccount(r) PROVE Tables /\ Reqs /\ Rest
  <2>1. req[r].user \in Users /\ req[r].chat \in Chats /\ "create" \in Steps
    BY <1>12 DEF CreateAccount, Inv, ReqOK, Steps
  <2>2. Reqs
    BY <1>12, <2>1, Ended, Gone DEF CreateAccount
  <2>3. account' \in [Users -> {"no", "yes", "gone"}]
    BY <1>12 DEF CreateAccount, Inv, TypeOK
  <2> QED
    BY <1>3, <1>12, <2>2, <2>3 DEF CreateAccount, Inv, TypeOK
<1>13. ASSUME NEW r \in Requests, NEW c \in Chats, NEW u \in Users, EmailInput(r, c, u)
       PROVE  Tables /\ Reqs /\ Rest
  <2> DEFINE x == [Idle EXCEPT !.pc = "clear", !.user = u, !.chat = c]
  <2>1. x \in Requested /\ x.user = u /\ x.chat = c
    BY DEF Idle, Requested, Steps
  <2>2. req' = [req EXCEPT ![r] = x]
    BY <1>13 DEF EmailInput
  <2> HIDE DEF x
  <2>3. Reqs
    BY <2>1, <2>2, Advanced
  <2> QED
    BY <1>1, <1>3, <1>13, <2>3 DEF EmailInput
<1>14. ASSUME NEW c \in Chats, AskForEmail(c) \/ WaitingExpires(c) PROVE Tables /\ Reqs /\ Rest
  BY <1>1, <1>2, <1>14 DEF AskForEmail, WaitingExpires, codes, facts, Inv, TypeOK
<1>15. ASSUME NEW k \in Codes, Expire(k) PROVE Tables /\ Reqs /\ Rest
  BY <1>1, <1>2, <1>15 DEF Expire, facts, Inv, TypeOK
<1>16. ASSUME NEW u \in Users, Register(u) PROVE Tables /\ Reqs /\ Rest
  BY <1>2, <1>3, <1>16 DEF Register, Inv, TypeOK
<1>17. ASSUME NEW u \in Users, NEW on \in BOOLEAN, SetEnabled(u, on) PROVE Tables /\ Reqs /\ Rest
  BY <1>2, <1>3, <1>17 DEF SetEnabled, Inv, TypeOK
<1>18. ASSUME NEW u \in Users, Unbind(u) \/ DeleteAccount(u) PROVE Tables /\ Reqs /\ Rest
  <2>1. Forget(u) /\ UNCHANGED <<codes, waiting, req>>
    BY <1>18 DEF Unbind, DeleteAccount
  <2>2. /\ row' \in [Users -> Chats \union {None, Empty}]
        /\ code' \in [Users -> Codes \union {None}] /\ enabled' \in [Users -> BOOLEAN]
    BY <2>1, Written DEF Forget
  <2>3. account' \in [Users -> {"no", "yes", "gone"}]
    BY <1>18 DEF Unbind, DeleteAccount, Inv, TypeOK
  <2>4. Rest
    BY <2>1 DEF Forget, codes, Inv, TypeOK
  <2> QED
    BY <1>2, <2>1, <2>2, <2>3, <2>4
<1>19. ASSUME NEW r \in Requests, ClearWaiting(r) PROVE Tables /\ Reqs /\ Rest
  <2>1. req[r].user \in Users /\ req[r].chat \in Chats /\ "email" \in Steps
    BY <1>19 DEF ClearWaiting, Inv, ReqOK, Steps
  <2>2. Reqs
    BY <1>19, <2>1, Gone DEF ClearWaiting
  <2>3. Rest
    BY <1>19 DEF ClearWaiting, codes, facts, Inv, TypeOK
  <2> QED
    BY <1>1, <1>19, <2>2, <2>3 DEF ClearWaiting
<1>20. CASE UNCHANGED vars
  BY <1>1, <1>2, <1>3, <1>20 DEF vars
<1> QED
  BY <1>4, <1>5, <1>6, <1>7, <1>8, <1>10, <1>11, <1>12, <1>13, <1>14, <1>15, <1>16,
     <1>17, <1>18, <1>19, <1>20 DEF Next, Step

\* What each step assigns has its type, and handlers have looked up what they use.
LEMMA InvHolds == Spec => []Inv
<1>1. Init => Inv
  BY DEF Init, Inv, TypeOK, ReqOK, Idle, Steps
<1> QED
  BY <1>1, InvKept, PTL DEF Spec

\* Every reachable state is well typed.
THEOREM TypeCorrect == Spec => []TypeOK
<1> QED
  BY InvHolds, PTL DEF Inv

-----------------------------------------------------------------------------
\* A handler that is about to confirm has seen a row that waits for its chat; if
\* it does not wait any more, another handler or an unbinding was in between.
Fresh ==
  \A r \in Requests :
    req[r].pc \in {"chat", "confirm"} =>
      row[req[r].user] = Empty \/ req[r].user \in raced

Told == Fresh /\ ToldBound /\ BoundTold

\* A step that writes neither the rows nor what was told, and that makes a handler
\* about to confirm only for a row that waits.
LEMMA ToldQuiet ==
  ASSUME Inv, Told, UNCHANGED <<row, facts>>,
         \A r \in Requests : req'[r].pc \in {"chat", "confirm"} =>
           \/ req[r].pc \in {"chat", "confirm"} /\ req'[r].user = req[r].user
           \/ row[req'[r].user] = Empty
  PROVE  Told'
<1>1. Fresh'
  BY DEF Told, Fresh, facts
<1>2. ToldBound' /\ BoundTold'
  BY DEF Told, ToldBound, BoundTold, Bound, facts
<1> QED
  BY <1>1, <1>2 DEF Told

\* A handler that has ended confirms nothing any more.
LEMMA OthersStay ==
  ASSUME Inv, NEW r \in Requests, End(r), NEW q \in Requests,
         req'[q].pc \in {"chat", "confirm"}
  PROVE  q # r /\ req'[q] = req[q]
BY DEF End, Inv, TypeOK, Idle

\* An unbinding, or the deletion of the account, takes what was told with the row.
LEMMA ToldForget ==
  ASSUME Inv, Told, NEW u \in Users, Forget(u), UNCHANGED req
  PROVE  Told'
<1>1. row' = [row EXCEPT ![u] = None] /\ told' = {p \in told : p[1] # u}
  BY DEF Forget, SetRow
<1>2. raced \subseteq raced'
  BY DEF Forget
<1>3. Fresh'
  <2> SUFFICES ASSUME NEW r \in Requests, req[r].pc \in {"chat", "confirm"}
               PROVE  row'[req[r].user] = Empty \/ req[r].user \in raced'
    BY DEF Fresh
  <2>1. CASE req[r].user = u
    BY <2>1 DEF Forget, Writing
  <2>2. CASE req[r].user # u
    BY <1>1, <1>2, <2>2 DEF Told, Fresh, Inv, TypeOK, ReqOK
  <2> QED
    BY <2>1, <2>2
<1>4. ToldBound'
  <2> SUFFICES ASSUME NEW p \in told, p[1] # u PROVE row'[p[1]] = p[2] \/ p[1] \in raced'
    BY <1>1 DEF ToldBound
  <2>1. p[1] \in Users
    BY DEF Inv, TypeOK
  <2> QED
    BY <1>1, <1>2, <2>1 DEF Told, ToldBound, Inv, TypeOK
<1>5. BoundTold'
  <2> SUFFICES ASSUME NEW v \in Users, row'[v] \notin {None, Empty}
               PROVE  <<v, row'[v]>> \in told'
    BY DEF BoundTold, Bound
  <2>1. v # u /\ row'[v] = row[v]
    BY <1>1 DEF Inv, TypeOK
  <2>2. <<v, row[v]>> \in told
    BY <2>1 DEF Told, BoundTold, Bound
  <2> QED
    BY <1>1, <2>1, <2>2
<1> QED
  BY <1>3, <1>4, <1>5 DEF Told

\* A handler that reports success for what it has written, or, after a race, for a
\* row that is not there.
LEMMA ToldSucceed ==
  ASSUME Inv, Told, NEW r \in Requests, NEW u \in Users, NEW c \in Chats,
         req[r].user = u, Succeed(r, u, c), End(r),
         \/ row' = [row EXCEPT ![u] = c] /\ (row[u] \in {None, Empty} \/ u \in raced)
         \/ row' = row /\ u \in raced
  PROVE  Told'
<1>1. told' = told \union {<<u, c>>} /\ raced \subseteq raced'
  BY DEF Succeed, Race
<1>2. Fresh'
  <2> SUFFICES ASSUME NEW q \in Requests, req'[q].pc \in {"chat", "confirm"}
               PROVE  row'[req'[q].user] = Empty \/ req'[q].user \in raced'
    BY DEF Fresh
  <2>1. q # r /\ req'[q] = req[q]
    BY OthersStay
  <2>2. req[q].user \in Users
    BY <2>1 DEF Inv, ReqOK
  <2>3. CASE req[q].user = u
    BY <2>1, <2>3 DEF Succeed, Race, Writing
  <2>4. CASE req[q].user # u
    BY <1>1, <2>1, <2>2, <2>4 DEF Told, Fresh, Inv, TypeOK
  <2> QED
    BY <2>3, <2>4
<1>3. ToldBound'
  <2> SUFFICES ASSUME NEW p \in told' PROVE row'[p[1]] = p[2] \/ p[1] \in raced'
    BY DEF ToldBound
  <2>1. CASE p = <<u, c>>
    BY <1>1, <2>1 DEF Inv, TypeOK
  <2>2. CASE p # <<u, c>>
    <3>1. p \in told /\ p[1] \in Users /\ p[2] \in Chats
      BY <1>1, <2>2 DEF Inv, TypeOK
    <3>2. row[p[1]] = p[2] \/ p[1] \in raced
      BY <3>1 DEF Told, ToldBound
    <3>3. CASE p[1] = u
      BY <1>1, <3>1, <3>2, <3>3, BindingAssumption
    <3>4. CASE p[1] # u
      BY <1>1, <3>1, <3>2, <3>4 DEF Inv, TypeOK
    <3> QED
      BY <3>3, <3>4
  <2> QED
    BY <2>1, <2>2
<1>4. BoundTold'
  <2> SUFFICES ASSUME NEW v \in Users, row'[v] \notin {None, Empty}
               PROVE  <<v, row'[v]>> \in told'
    BY DEF BoundTold, Bound
  <2>1. CASE row'[v] = row[v]
    BY <1>1, <2>1 DEF Told, BoundTold, Bound
  <2>2. CASE row'[v] # row[v]
    BY <1>1, <2>2 DEF Inv, TypeOK
  <2> QED
    BY <2>1, <2>2
<1> QED
  BY <1>2, <1>3, <1>4 DEF Told

\* Every step of every handler keeps the table and what was told together.
LEMMA ToldKept ==
  ASSUME Inv, Told, [Next]_vars
  PROVE  Told'
<1> USE BindingAssumption
<1> DEFINE Quiet == /\ UNCHANGED <<row, facts>>
                    /\ \A r \in Requests : req'[r].pc \in {"chat", "confirm"} =>
                         \/ req[r].pc \in {"chat", "confirm"} /\ req'[r].user = req[r].user
                         \/ row[req'[r].user] = Empty
<1>1. ASSUME UNCHANGED <<row, facts, req>> PROVE Quiet
  BY <1>1
<1>2. ASSUME UNCHANGED <<row, facts>>, NEW r \in Requests, NEW x,
             req' = [req EXCEPT ![r] = x], x.pc \notin {"chat", "confirm"}
      PROVE  Quiet
  BY <1>2 DEF Inv, TypeOK
<1>3. ASSUME UNCHANGED <<row, facts>>, NEW r \in Requests, End(r) PROVE Quiet
  <2>1. Idle.pc = "idle"
    BY DEF Idle
  <2> QED
    BY <1>2, <1>3, <2>1 DEF End
<1>4. ASSUME UNCHANGED <<row, facts>>, NEW r \in Requests, NEW step \in Steps, Go(r, step),
             \/ step \notin {"chat", "confirm"}
             \/ req[r].pc \in {"chat", "confirm"} \/ row[req[r].user] = Empty
      PROVE  Quiet
  BY <1>4 DEF Go, Inv, TypeOK
<1>5. ASSUME NEW r \in Requests, NEW u \in Users, Generate(r, u) PROVE Quiet
  BY <1>2, <1>5 DEF Generate, Idle, table, facts
<1>6. ASSUME NEW r \in Requests,
             UpdateBindCode(r) \/ ClearWaiting(r) \/ FindByEmail(r) \/ CreateAccount(r)
      PROVE  Quiet
  <2>1. UNCHANGED <<row, facts>>
    BY <1>6 DEF UpdateBindCode, ClearWaiting, FindByEmail, CreateAccount, table, facts
  <2>2. End(r) \/ \E step \in {"insert", "email", "bound", "account", "create"} : Go(r, step)
    BY <1>6 DEF UpdateBindCode, ClearWaiting, FindByEmail, CreateAccount
  <2> QED
    BY <1>3, <1>4, <2>1, <2>2 DEF Steps
<1>7. ASSUME NEW r \in Requests, InsertBindCode(r) PROVE Told'
  <2>1. CASE Insertable(req[r].user, Empty)
    <3> DEFINE u == req[r].user
    <3>1. /\ row' = [row EXCEPT ![u] = Empty] /\ row[u] = None
          /\ UNCHANGED facts /\ End(r) /\ u \in Users
      BY <1>7, <2>1 DEF InsertBindCode, Insertable, SetRow, Inv, ReqOK
    <3> HIDE DEF u
    <3>2. Fresh'
      <4> SUFFICES ASSUME NEW q \in Requests, req'[q].pc \in {"chat", "confirm"}
                   PROVE  row'[req'[q].user] = Empty \/ req'[q].user \in raced'
        BY DEF Fresh
      <4>1. req'[q] = req[q]
        BY <3>1, OthersStay
      <4> QED
        BY <3>1, <4>1 DEF Told, Fresh, facts, Inv, TypeOK, ReqOK
    <3>3. ToldBound'
      <4> SUFFICES ASSUME NEW p \in told PROVE row'[p[1]] = p[2] \/ p[1] \in raced
        BY <3>1 DEF ToldBound, facts
      <4>1. p[1] \in Users /\ p[2] \in Chats
        BY DEF Inv, TypeOK
      <4> QED
        BY <3>1, <4>1 DEF Told, ToldBound, Inv, TypeOK
    <3>4. BoundTold'
      BY <3>1 DEF Told, BoundTold, Bound, facts, Inv, TypeOK
    <3> QED
      BY <3>2, <3>3, <3>4 DEF Told
  <2>2. CASE ~Insertable(req[r].user, Empty)
    BY <1>3, <1>7, <2>2, ToldQuiet DEF InsertBindCode
  <2> QED
    BY <2>1, <2>2
<1>8. ASSUME NEW r \in Requests, NEW c \in Chats, NEW k \in Codes, FindByBindCode(r, c, k)
      PROVE  Quiet
  <2>1. PICK u \in Users :
          /\ row[u] = Empty
          /\ req' = [req EXCEPT ![r] = [Idle EXCEPT !.pc = "chat", !.user = u, !.chat = c]]
    BY <1>8 DEF FindByBindCode
  <2>2. req'[r].user = u
    BY <2>1 DEF Idle, Inv, TypeOK
  <2> QED
    BY <1>8, <2>1, <2>2 DEF FindByBindCode, table, Inv, TypeOK
<1>9. ASSUME NEW r \in Requests, FindByServiceID(r) PROVE Quiet
  BY <1>3, <1>4, <1>9 DEF FindByServiceID, table, Steps
<1>10. ASSUME NEW r \in Requests, FindByUserAndService(r) PROVE Quiet
  BY <1>3, <1>4, <1>10 DEF FindByUserAndService, table, Steps, Bound
<1>11. ASSUME NEW r \in Requests, ConfirmBinding(r) PROVE Told'
  <2> DEFINE u == req[r].user
             c == req[r].chat
  <2>1. u \in Users /\ c \in Chats /\ (row[u] = Empty \/ u \in raced)
    BY <1>11 DEF ConfirmBinding, Inv, ReqOK, Told, Fresh
  <2>2. CASE row[u] # None /\ Other(u, c)
    BY <1>3, <1>11, <2>2, ToldQuiet DEF ConfirmBinding
  <2>3. CASE ~(row[u] # None /\ Other(u, c))
    <3>1. Succeed(r, u, c) /\ End(r)
      BY <1>11, <2>3 DEF ConfirmBinding
    <3>2. \/ row[u] = None /\ row' = row
          \/ row' = [row EXCEPT ![u] = c]
      BY <1>11, <2>3 DEF ConfirmBinding, SetRow
    <3>3. row[u] \in {None, Empty} \/ u \in raced
      BY <2>1
    <3>4. row[u] = None => u \in raced
      BY <2>1
    <3> HIDE DEF u, c
    <3> QED
      BY <2>1, <3>1, <3>2, <3>3, <3>4, ToldSucceed DEF u
  <2> QED
    BY <2>2, <2>3
<1>12. ASSUME NEW r \in Requests, CreateBinding(r) PROVE Told'
  <2> DEFINE u == req[r].user
             c == req[r].chat
  <2>1. u \in Users /\ c \in Chats
    BY <1>12 DEF CreateBinding, Inv, ReqOK
  <2>2. CASE ~Insertable(u, c)
    BY <1>3, <1>12, <2>2, ToldQuiet DEF CreateBinding
  <2>3. CASE Insertable(u, c)
    <3>1. Succeed(r, u, c) /\ End(r) /\ row' = [row EXCEPT ![u] = c] /\ row[u] = None
      BY <1>12, <2>3 DEF CreateBinding, Insertable, SetRow
    <3> HIDE DEF u, c
    <3> QED
      BY <2>1, <3>1, ToldSucceed DEF u
  <2> QED
    BY <2>2, <2>3
<1>13. ASSUME NEW r \in Requests, NEW c \in Chats, NEW u \in Users, EmailInput(r, c, u)
       PROVE  Quiet
  BY <1>2, <1>13 DEF EmailInput, Idle, table
<1>14. ASSUME \/ \E c \in Chats : AskForEmail(c) \/ WaitingExpires(c)
              \/ \E k \in Codes : Expire(k)
              \/ \E u \in Users : Register(u) \/ \E on \in BOOLEAN : SetEnabled(u, on)
              \/ UNCHANGED vars
       PROVE  Quiet
  BY <1>1, <1>14 DEF AskForEmail, WaitingExpires, Expire, Register, SetEnabled, vars, table
<1>15. ASSUME NEW u \in Users, Unbind(u) \/ DeleteAccount(u) PROVE Told'
  BY <1>15, ToldForget DEF Unbind, DeleteAccount
<1>16. Quiet => Told'
  BY ToldQuiet
<1> HIDE DEF Quiet
<1> QED
  BY <1>5, <1>6, <1>7, <1>8, <1>9, <1>10, <1>11, <1>12, <1>13, <1>14, <1>15, <1>16
  DEF Next, Step

\* The three facts hold from the empty tables on.
LEMMA ToldHolds == Spec => []Told
<1>1. Init => Told
  BY DEF Init, Told, Fresh, ToldBound, BoundTold, Bound, Idle
<1> QED
  BY <1>1, ToldKept, InvHolds, PTL DEF Spec

\* Without a race on its row, an account that was reported as bound to a chat is
\* bound to that chat until it is unbound or deleted.
THEOREM SuccessIsTrue == Spec => []ToldBound
<1> QED
  BY ToldHolds, PTL DEF Told

\* Race or not, no chat receives the alerts of an account without having been told.
THEOREM NoSilentBinding == Spec => []BoundTold
<1> QED
  BY ToldHolds, PTL DEF Told

-----------------------------------------------------------------------------
\* Writing a row gives the account that chat, or none.
LEMMA OwnsWritten ==
  ASSUME Inv, NEW u \in Users, NEW x, row' = [row EXCEPT ![u] = x]
  PROVE  Owns' = [Owns EXCEPT ![u] = IF x \notin {None, Empty} THEN x ELSE None]
BY DEF Owns, Bound, Inv, TypeOK

\* A chat no row names receives for nobody.
LEMMA FreeChat ==
  ASSUME Inv, NEW c \in Chats, \A v \in Users : row[v] # c
  PROVE  Owner!Free(c)
BY BindingAssumption DEF Owner!Free, Owns, Bound

\* Each write of service_id is a step of ChatOwner or changes nobody's chat; the
\* UNIQUE constraint, not the handlers, keeps two chats apart.
LEMMA OwnerStep ==
  ASSUME Inv, [Next]_vars
  PROVE  [Owner!Next]_Owns
<1> USE BindingAssumption
<1>1. ASSUME UNCHANGED row PROVE UNCHANGED Owns
  BY <1>1 DEF Owns, Bound
<1>2. ASSUME NEW u \in Users, NEW x \in {None, Empty}, row' = [row EXCEPT ![u] = x]
      PROVE  Owner!Next
  <2>1. Owner!Leave(u)
    BY <1>2, OwnsWritten DEF Owner!Leave
  <2> QED
    BY <2>1 DEF Owner!Next
<1>3. ASSUME NEW u \in Users, NEW c \in Chats, row' = [row EXCEPT ![u] = c], ~Other(u, c)
      PROVE  [Owner!Next]_Owns
  <2>1. CASE row[u] = c
    BY <1>1, <1>3, <2>1 DEF Inv, TypeOK
  <2>2. CASE row[u] # c
    <3>1. Owner!Free(c)
      BY <1>3, <2>2, FreeChat DEF Other
    <3> DEFINE chat == IF c \notin {None, Empty} THEN c ELSE None
    <3>2. Owns' = [Owns EXCEPT ![u] = chat]
      BY <1>3, OwnsWritten
    <3>3. chat = c
      OBVIOUS
    <3> HIDE DEF chat
    <3>4. Owns' = [Owns EXCEPT ![u] = c]
      BY <3>2, <3>3
    <3>5. Owner!Take(u, c)
      BY <3>1, <3>4 DEF Owner!Take
    <3> QED
      BY <3>5 DEF Owner!Next
  <2> QED
    BY <2>1, <2>2
<1>4. ASSUME NEW r \in Requests, InsertBindCode(r) PROVE [Owner!Next]_Owns
  <2>1. req[r].user \in Users
    BY <1>4 DEF InsertBindCode, Inv, ReqOK
  <2>2. UNCHANGED row \/ row' = [row EXCEPT ![req[r].user] = Empty]
    BY <1>4 DEF InsertBindCode, SetRow
  <2> QED
    BY <1>1, <1>2, <2>1, <2>2
<1>5. ASSUME NEW r \in Requests, ConfirmBinding(r) \/ CreateBinding(r) PROVE [Owner!Next]_Owns
  <2>1. req[r].user \in Users /\ req[r].chat \in Chats
    BY <1>5 DEF ConfirmBinding, CreateBinding, Inv, ReqOK
  <2>2. \/ UNCHANGED row
        \/ row' = [row EXCEPT ![req[r].user] = req[r].chat] /\ ~Other(req[r].user, req[r].chat)
    BY <1>5 DEF ConfirmBinding, CreateBinding, Insertable, Taken, Other, SetRow
  <2> QED
    BY <1>1, <1>3, <2>1, <2>2
<1>6. ASSUME NEW u \in Users, Unbind(u) \/ DeleteAccount(u) PROVE [Owner!Next]_Owns
  BY <1>2, <1>6 DEF Unbind, DeleteAccount, Forget, SetRow
<1>7. ASSUME NEW r \in Requests,
             \/ UpdateBindCode(r) \/ FindByServiceID(r) \/ ClearWaiting(r) \/ FindByEmail(r)
             \/ FindByUserAndService(r) \/ CreateAccount(r)
             \/ \E u \in Users : Generate(r, u)
             \/ \E c \in Chats, k \in Codes : FindByBindCode(r, c, k)
             \/ \E c \in Chats, u \in Users : EmailInput(r, c, u)
      PROVE  UNCHANGED row
  BY <1>7 DEF UpdateBindCode, FindByServiceID, ClearWaiting, FindByEmail, FindByUserAndService,
              CreateAccount, Generate, FindByBindCode, EmailInput, table
<1>8. ASSUME \/ \E c \in Chats : AskForEmail(c) \/ WaitingExpires(c)
             \/ \E k \in Codes : Expire(k)
             \/ \E u \in Users : Register(u) \/ \E on \in BOOLEAN : SetEnabled(u, on)
             \/ UNCHANGED vars
      PROVE  UNCHANGED row
  BY <1>8 DEF AskForEmail, WaitingExpires, Expire, Register, SetEnabled, vars, table
<1> QED
  BY <1>1, <1>4, <1>5, <1>6, <1>7, <1>8 DEF Next, Step

\* The handlers, in any number and any order, implement ChatOwner.
THEOREM ImplementsChatOwner == Spec => OneOwner
<1>1. Init => Owner!Init
  BY DEF Init, Owner!Init, Owns, Bound
<1> QED
  BY <1>1, OwnerStep, InvHolds, PTL DEF Spec, OneOwner, Owner!Spec

\* What the abstraction is for: no chat ever receives for two accounts.
THEOREM NeverShared == Spec => []Owner!OneToOne
<1>1. Init => Owner!OneToOne
  BY DEF Init, Owner!OneToOne, Owns, Bound
<1>2. Inv /\ Owner!OneToOne /\ [Next]_vars => Owner!OneToOne'
  <2> SUFFICES ASSUME Inv, Owner!OneToOne, [Owner!Next]_Owns PROVE Owner!OneToOne'
    BY OwnerStep
  <2>1. Owns = [u \in Users |-> Owns[u]]
    BY DEF Owns
  <2>2. ASSUME NEW u \in Users, Owner!Leave(u) PROVE Owner!OneToOne'
    BY <2>1, <2>2 DEF Owner!Leave, Owner!OneToOne
  <2>3. ASSUME NEW u \in Users, NEW c \in Chats, Owner!Take(u, c) PROVE Owner!OneToOne'
    BY <2>1, <2>3 DEF Owner!Take, Owner!Free, Owner!OneToOne
  <2>4. CASE UNCHANGED Owns
    BY <2>4 DEF Owner!OneToOne
  <2> QED
    BY <2>2, <2>3, <2>4 DEF Owner!Next
<1> QED
  BY <1>1, <1>2, InvHolds, PTL DEF Spec
=============================================================================
