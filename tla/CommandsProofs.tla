--------------------------- MODULE CommandsProofs ---------------------------
(***************************************************************************)
(* Proofs about Commands: for any number of accounts, items, requests that *)
(* run at once, statistics goroutines and failures, the table keeps its    *)
(* constraints, a request changes rows of its own account only, the        *)
(* requests that run at once exceed the limit by less than their number,   *)
(* and the ranking agrees with the table but for the values the histories  *)
(* name.                                                                   *)
(***************************************************************************)
EXTENDS Commands, FiniteSetTheorems, SequenceTheorems, TLAPS

Steps == [up : BOOLEAN, v : Values]
Good  == {q \in Request : HasWhatItNeeds(q)}

\* The type invariant, in parts: accounts and limits, the table, the statistics and
\* the counters.
RolesOK == role \in [Users -> Roles \union {Gone}] /\ limits \in [Roles -> Int \union {None}]
TableOK == rows \subseteq RowType /\ nextId \in Nat \ {0} /\ Unalike
HndOK   == hnd \in [Handlers -> Good]
StatsOK == bg \in [Workers -> Seq(Steps)] /\ count \in [Values -> Nat \union {None}]
HistOK  == asked \in Nat /\ faults \in Nat /\ low \subseteq Values /\ high \subseteq Values
PeakOK  == peak \in [Users -> Int]

\* They are the type invariant.
LEMMA TypeParts == TypeOK <=> RolesOK /\ TableOK /\ HndOK /\ StatsOK /\ HistOK /\ PeakOK
<1>1. HndOK <=> hnd \in [Handlers -> Request] /\ \A h \in Handlers : HasWhatItNeeds(hnd[h])
  BY DEF HndOK, Good
<1> QED
  BY <1>1 DEF TypeOK, RolesOK, TableOK, StatsOK, HistOK, PeakOK, Steps

(***************************************************************************)
(* Requests.                                                               *)
(***************************************************************************)
\* The state of one handler changes, to one that has what it needs and is not about
\* to insert, to count or to change a row.
Plain == {"idle", "articles", "account", "limit", "find", "own", "clean"}
Plainly(h) == \E q \in Good : q.pc \in Plain /\ hnd' = [hnd EXCEPT ![h] = q]

\* A handler at rest is well typed.
LEMMA IdleGood == Idle \in Good /\ Idle.pc = "idle"
<1>1. <<>> \in Seq(Items)
  BY EmptySeq
<1>2. Idle \in Request
  BY <1>1 DEF Idle, Request, NoRow, Pcs
<1> QED
  BY <1>2 DEF Good, HasWhatItNeeds, Idle

\* A request of a handler is well typed.
LEMMA Hnd == ASSUME HndOK, NEW h \in Handlers PROVE hnd[h] \in Good /\ hnd[h] \in Request
BY DEF HndOK, Good

\* One that becomes well typed leaves all of them so.
LEMMA Keeps == ASSUME HndOK, NEW h \in Handlers, NEW q \in Good, hnd' = [hnd EXCEPT ![h] = q]
               PROVE  HndOK' /\ hnd'[h] = q /\ \A k \in Handlers : k # h => hnd'[k] = hnd[k]
BY DEF HndOK, Good

\* A request that ends.
LEMMA EndPlain == ASSUME HndOK, NEW h \in Handlers, End(h) PROVE Plainly(h)
BY IdleGood DEF Plainly, Plain, End

\* A request without a maximum.
LEMMA WithoutMax == ASSUME NEW q \in Request PROVE [q EXCEPT !.max = 0] \in Request
BY DEF Request

\* A request without a row.
LEMMA WithoutRow == ASSUME NEW q \in Request PROVE [q EXCEPT !.row = NoRow] \in Request
BY DEF Request

\* What is left of a list when one item is done.
LEMMA NextItem ==
  ASSUME NEW q \in Request, NEW pc \in Pcs, NEW todo \in Seq(Items)
  PROVE  [q EXCEPT !.pc = pc, !.todo = todo, !.role = None, !.max = 0, !.row = NoRow] \in Request
<1> DEFINE a == [q EXCEPT !.pc = pc, !.todo = todo, !.role = None]
           b == [a EXCEPT !.max = 0]
           c == [b EXCEPT !.row = NoRow]
           d == [q EXCEPT !.pc = pc, !.todo = todo, !.role = None, !.max = 0, !.row = NoRow]
<1>1. d = c
  OBVIOUS
<1>2. a \in Request
  BY DEF Request
<1> HIDE DEF a
<1>3. b \in Request
  BY <1>2, WithoutMax
<1> HIDE DEF b
<1>4. c \in Request
  BY <1>3, WithoutRow
<1> HIDE DEF c, d
<1>5. d \in Request
  BY <1>1, <1>4
<1> QED
  BY <1>5 DEF d

\* A request that goes on to its next item, row or end.
LEMMA AdvancePlain ==
  ASSUME HndOK, NEW h \in Handlers, hnd[h].pc # "idle", Advance(h)
  PROVE  Plainly(h)
<1> DEFINE old == hnd[h]
           left == IF old.todo = <<>> THEN <<>> ELSE Tail(old.todo)
           step == IF old.op = "add" THEN "account" ELSE "find"
           a == [old EXCEPT !.pc = "clean", !.row = NoRow]
           b == [old EXCEPT !.pc = step, !.todo = left, !.role = None, !.max = 0, !.row = NoRow]
<1>1. old \in Request /\ HasWhatItNeeds(old) /\ old.user \in Users
  BY Hnd DEF Good, HasWhatItNeeds
<1>2. left \in Seq(Items)
  <2>1. old.todo \in Seq(Items)
    BY <1>1 DEF Request
  <2> QED
    BY <2>1, EmptySeq, HeadTailProperties
<1>3. a \in Good /\ a.pc \in Plain
  <2>1. a \in Request
    BY <1>1 DEF Request, Pcs
  <2>2. HasWhatItNeeds(a)
    BY <1>1 DEF HasWhatItNeeds, Request
  <2> QED
    BY <1>1, <2>1, <2>2 DEF Good, Plain, Request
<1>4. left # <<>> => b \in Good /\ b.pc \in Plain
  <2> step \in {"account", "find"}
    OBVIOUS
  <2> HIDE DEF left, step
  <2>1. b \in Request
    BY <1>1, <1>2, NextItem DEF Pcs
  <2>2. left # <<>> => HasWhatItNeeds(b)
    BY <1>1 DEF HasWhatItNeeds, Request
  <2> QED
    BY <1>1, <2>1, <2>2 DEF Good, Plain, Request
<1>5. hnd' = [hnd EXCEPT ![h] = IF old.list # {} THEN a ELSE IF left = <<>> THEN Idle ELSE b]
  BY DEF Advance
<1> HIDE DEF a, b, left, old
<1>6. CASE old.list # {}
  BY <1>3, <1>5, <1>6 DEF Plainly
<1>7. CASE old.list = {} /\ left = <<>>
  BY <1>5, <1>7, IdleGood DEF Plainly, Plain
<1>8. CASE old.list = {} /\ left # <<>>
  BY <1>4, <1>5, <1>8 DEF Plainly
<1> QED
  BY <1>6, <1>7, <1>8

(***************************************************************************)
(* What becomes of the handler in each action.                             *)
(***************************************************************************)
\* A request that has just begun.
LEMMA NewGood ==
  ASSUME NEW pc \in Plain, NEW op \in Ops, NEW u \in Users
  PROVE  LET q == New(pc, op, u) IN
         q \in Request /\ q.pc = pc /\ q.op = op /\ q.user = u
<1>1. Idle \in Request
  BY IdleGood DEF Good
<1> DEFINE q == [Idle EXCEPT !.pc = pc, !.op = op, !.user = u]
<1>2. q \in Request
  BY <1>1 DEF Request, Plain, Pcs
<1>3. q.pc = pc /\ q.op = op /\ q.user = u
  BY <1>1 DEF Request
<1> QED
  BY <1>2, <1>3 DEF New

\* ... with its list, its row or its rows.
LEMMA WithList ==
  ASSUME NEW q \in Request, NEW todo \in Seq(Items), todo # <<>>, q.user \in Users,
         q.pc \in {"account", "find", "articles"}
  PROVE  LET p == [q EXCEPT !.first = TRUE, !.todo = todo]
             r == [q EXCEPT !.todo = todo]
         IN  p \in Good /\ p.pc = q.pc /\ r \in Good /\ r.pc = q.pc
<1> DEFINE p == [q EXCEPT !.first = TRUE, !.todo = todo]
           r == [q EXCEPT !.todo = todo]
<1>1. p \in Request /\ p.pc = q.pc /\ p.user = q.user /\ p.todo = todo
  BY DEF Request
<1>2. r \in Request /\ r.pc = q.pc /\ r.user = q.user /\ r.todo = todo
  BY DEF Request
<1> HIDE DEF p, r
<1>3. HasWhatItNeeds(p) /\ HasWhatItNeeds(r)
  BY <1>1, <1>2 DEF HasWhatItNeeds
<1>4. p \in Good /\ r \in Good
  BY <1>1, <1>2, <1>3 DEF Good
<1> QED
  BY <1>1, <1>2, <1>4 DEF p, r

\* ... for rows, and for one row.
LEMMA WithRows ==
  ASSUME NEW q \in Request, NEW list \in SUBSET RowType, NEW row \in RowType, q.user \in Users,
         q.pc \in {"clean", "own"}, q.op # "update"
  PROVE  LET p == [q EXCEPT !.list = list]
             r == [q EXCEPT !.row = row]
         IN  /\ q.pc = "clean" => p \in Good /\ p.pc = q.pc
             /\ q.pc = "own" => r \in Good /\ r.pc = q.pc
<1> DEFINE p == [q EXCEPT !.list = list]
           r == [q EXCEPT !.row = row]
<1>1. p \in Request /\ p.pc = q.pc /\ p.user = q.user /\ p.op = q.op
  BY DEF Request
<1>2. r \in Request /\ r.pc = q.pc /\ r.user = q.user /\ r.row = row /\ r.op = q.op
  BY DEF Request
<1> HIDE DEF p, r
<1>3. q.pc = "clean" => HasWhatItNeeds(p)
  BY <1>1 DEF HasWhatItNeeds
<1>4. q.pc = "own" => HasWhatItNeeds(r)
  BY <1>2 DEF HasWhatItNeeds
<1>5. (q.pc = "clean" => p \in Good) /\ (q.pc = "own" => r \in Good)
  BY <1>1, <1>2, <1>3, <1>4 DEF Good
<1> QED
  BY <1>1, <1>2, <1>5 DEF p, r

\* An update has both.
LEMMA WithBoth ==
  ASSUME NEW q \in Request, NEW row \in RowType, NEW todo \in Seq(Items), todo # <<>>,
         q.user \in Users, q.pc = "own"
  PROVE  LET p == [q EXCEPT !.row = row, !.todo = todo] IN p \in Good /\ p.pc = q.pc
<1> DEFINE p == [q EXCEPT !.row = row, !.todo = todo]
<1>1. p \in Request /\ p.pc = q.pc /\ p.user = q.user /\ p.row = row /\ p.todo = todo
  BY DEF Request
<1> HIDE DEF p
<1>2. HasWhatItNeeds(p)
  BY <1>1 DEF HasWhatItNeeds
<1> QED
  BY <1>1, <1>2 DEF Good, p

\* Each kind of request begins well typed, and not at a statement that changes rows.
LEMMA BeginsPlain ==
  ASSUME HndOK, NEW h \in Handlers, NEW q \in Good, q.pc \in Plain, Begin(h, q)
  PROVE  Plainly(h)
BY DEF Begin, Plainly

\* Chat commands.
LEMMA ChatsPlain ==
  ASSUME HndOK, TableOK, NEW h \in Handlers, Chats(h)
  PROVE  Plainly(h)
<1>1. ASSUME NEW u \in Users, NEW list \in Inputs, ChatAdd(h, u, list) PROVE Plainly(h)
  <2> DEFINE n == New("account", "add", u)
             q == [n EXCEPT !.first = TRUE, !.todo = list]
  <2>1. list \in Seq(Items) /\ list # <<>>
    BY CommandsAssumption
  <2>2. n \in Request /\ n.pc = "account" /\ n.user = u
    BY NewGood DEF Plain, Ops
  <2>3. Begin(h, q)
    BY <1>1 DEF ChatAdd
  <2> HIDE DEF n
  <2>4. q \in Good /\ q.pc = "account"
    BY <2>1, <2>2, WithList
  <2> QED
    BY <2>3, <2>4, BeginsPlain DEF Plain
<1>2. ASSUME NEW u \in Users, NEW list \in Inputs, ChatDelete(h, u, list) PROVE Plainly(h)
  <2> DEFINE n == New("find", "delete", u)
             q == [n EXCEPT !.todo = list]
  <2>1. list \in Seq(Items) /\ list # <<>>
    BY CommandsAssumption
  <2>2. n \in Request /\ n.pc = "find" /\ n.user = u
    BY NewGood DEF Plain, Ops
  <2>3. Begin(h, q)
    BY <1>2 DEF ChatDelete
  <2> HIDE DEF n
  <2>4. q \in Good /\ q.pc = "find"
    BY <2>1, <2>2, WithList
  <2> QED
    BY <2>3, <2>4, BeginsPlain DEF Plain
<1>3. ASSUME NEW u \in Users, NEW i \in Articles, ChatArticle(h, u, i) PROVE Plainly(h)
  <2> DEFINE n == New("articles", "add", u)
             q == [n EXCEPT !.todo = <<i>>]
  <2>1. <<i>> \in Seq(Items) /\ <<i>> # <<>>
    BY CommandsAssumption
  <2>2. n \in Request /\ n.pc = "articles" /\ n.user = u
    BY NewGood DEF Plain, Ops
  <2>3. Begin(h, q)
    BY <1>3 DEF ChatArticle
  <2> HIDE DEF n
  <2>4. q \in Good /\ q.pc = "articles"
    BY <2>1, <2>2, WithList
  <2> QED
    BY <2>3, <2>4, BeginsPlain DEF Plain
<1>4. ASSUME NEW u \in Users, CleanCommentList(h, u) PROVE Plainly(h)
  <2> DEFINE n == New("clean", "clean", u)
             list == {r \in RowsOf(u) : r.item \in Articles}
             q == [n EXCEPT !.list = list]
  <2>1. list \in SUBSET RowType /\ list # {}
    BY <1>4 DEF CleanCommentList, TableOK, RowsOf
  <2>2. n \in Request /\ n.pc = "clean" /\ n.user = u /\ n.op = "clean"
    BY NewGood DEF Plain, Ops
  <2>3. Begin(h, q)
    BY <1>4 DEF CleanCommentList
  <2>5. \E r : r \in RowType
    BY <2>1
  <2> HIDE DEF n, list
  <2>4. q \in Good /\ q.pc = "clean"
    BY <2>1, <2>2, <2>5, WithRows
  <2> QED
    BY <2>3, <2>4, BeginsPlain DEF Plain
<1> QED
  BY <1>1, <1>2, <1>3, <1>4 DEF Chats

\* API requests.
LEMMA ApiPlain ==
  ASSUME HndOK, TableOK, NEW h \in Handlers, Api(h)
  PROVE  Plainly(h)
<1>1. ASSUME NEW u \in Users, NEW i \in Items, CreateSubscription(h, u, i) PROVE Plainly(h)
  <2> DEFINE n == New("account", "add", u)
             q == [n EXCEPT !.todo = <<i>>]
  <2>1. <<i>> \in Seq(Items) /\ <<i>> # <<>>
    OBVIOUS
  <2>2. n \in Request /\ n.pc = "account" /\ n.user = u
    BY NewGood DEF Plain, Ops
  <2>3. Begin(h, q)
    BY <1>1 DEF CreateSubscription
  <2> HIDE DEF n
  <2>4. q \in Good /\ q.pc = "account"
    BY <2>1, <2>2, WithList
  <2> QED
    BY <2>3, <2>4, BeginsPlain DEF Plain
<1>2. ASSUME NEW u \in Users, NEW r \in rows, DeleteSubscription(h, u, r) PROVE Plainly(h)
  <2> DEFINE n == New("own", "delete", u)
             q == [n EXCEPT !.row = r]
  <2>1. r \in RowType /\ {} \in SUBSET RowType
    BY DEF TableOK
  <2>2. n \in Request /\ n.pc = "own" /\ n.user = u /\ n.op = "delete"
    BY NewGood DEF Plain, Ops
  <2>3. Begin(h, q)
    BY <1>2 DEF DeleteSubscription
  <2> HIDE DEF n
  <2>4. q \in Good /\ q.pc = "own"
    BY <2>1, <2>2, WithRows
  <2> QED
    BY <2>3, <2>4, BeginsPlain DEF Plain
<1>3. ASSUME NEW u \in Users, NEW r \in rows, NEW i \in Items, UpdateSubscription(h, u, r, i)
      PROVE Plainly(h)
  <2> DEFINE n == New("own", "update", u)
             q == [n EXCEPT !.row = r, !.todo = <<i>>]
  <2>1. r \in RowType /\ <<i>> \in Seq(Items) /\ <<i>> # <<>>
    BY DEF TableOK
  <2>2. n \in Request /\ n.pc = "own" /\ n.user = u
    BY NewGood DEF Plain, Ops
  <2>3. Begin(h, q)
    BY <1>3 DEF UpdateSubscription
  <2> HIDE DEF n
  <2>4. q \in Good /\ q.pc = "own"
    BY <2>1, <2>2, WithBoth
  <2> QED
    BY <2>3, <2>4, BeginsPlain DEF Plain
<1> QED
  BY <1>1, <1>2, <1>3 DEF Api

\* A change of the step of a request, and nothing else.
LEMMA GoIs ==
  ASSUME HndOK, NEW h \in Handlers, NEW step \in Pcs, Go(h, step)
  PROVE  /\ hnd' = [hnd EXCEPT ![h] = [hnd[h] EXCEPT !.pc = step]]
         /\ [hnd[h] EXCEPT !.pc = step] \in Request
<1>1. hnd[h] \in Request /\ hnd \in [Handlers -> Good]
  BY Hnd DEF HndOK
<1>2. hnd' = [hnd EXCEPT ![h] = [hnd[h] EXCEPT !.pc = step]]
  BY <1>1 DEF Go
<1> QED
  BY <1>1, <1>2 DEF Request

\* ... keeps what it has.
LEMMA GoGood ==
  ASSUME NEW q \in Good, NEW step \in {"account", "insert"}, q.pc \in {"articles", "count", "limit"}
  PROVE  LET p == [q EXCEPT !.pc = step] IN p \in Good /\ p.pc = step /\ p.user = q.user
<1> DEFINE p == [q EXCEPT !.pc = step]
<1>1. q \in Request /\ HasWhatItNeeds(q)
  BY DEF Good
<1>2. p \in Request /\ p.pc = step /\ p.user = q.user /\ p.todo = q.todo /\ p.op = q.op
  BY <1>1 DEF Request, Pcs
<1> HIDE DEF p
<1>3. HasWhatItNeeds(p)
  BY <1>1, <1>2 DEF HasWhatItNeeds
<1> QED
  BY <1>2, <1>3 DEF Good, p

\* The next row of a clean-up.
LEMMA CleanNextPlain ==
  ASSUME HndOK, NEW h \in Handlers, CleanNext(h)
  PROVE  Plainly(h)
<1>1. PICK r \in hnd[h].list :
        LET left == hnd[h].list \ {r} IN
          \/ hnd' = [hnd EXCEPT ![h].pc = "own", ![h].row = r, ![h].list = left]
          \/ hnd' = [hnd EXCEPT ![h] = IF left = {} THEN Idle ELSE [hnd[h] EXCEPT !.list = left]]
  BY DEF CleanNext
<1> DEFINE left == hnd[h].list \ {r}
           a == [hnd[h] EXCEPT !.pc = "own", !.row = r, !.list = left]
           b == [hnd[h] EXCEPT !.list = left]
<1>2. hnd[h] \in Request /\ HasWhatItNeeds(hnd[h]) /\ hnd[h].pc = "clean" /\ hnd \in [Handlers -> Good]
  BY Hnd DEF HndOK, Good, CleanNext
<1>3. r \in RowType /\ left \in SUBSET RowType
  BY <1>1, <1>2 DEF Request
<1>4. a \in Good /\ a.pc = "own"
  <2>1. a \in Request /\ a.pc = "own" /\ a.row = r /\ a.user = hnd[h].user /\ a.op = hnd[h].op
        /\ a.todo = hnd[h].todo
    <3> HIDE DEF left
    <3> QED
      BY <1>2, <1>3 DEF Request, Pcs
  <2> HIDE DEF a
  <2> QED
    BY <1>2, <1>3, <2>1 DEF Good, HasWhatItNeeds
<1>5. b \in Good /\ b.pc = "clean"
  <2>1. b \in Request /\ b.pc = "clean" /\ b.user = hnd[h].user /\ b.op = hnd[h].op
        /\ b.todo = hnd[h].todo
    <3> HIDE DEF left
    <3> QED
      BY <1>2, <1>3 DEF Request
  <2> HIDE DEF b
  <2> QED
    BY <1>2, <2>1 DEF Good, HasWhatItNeeds
<1>6. CASE hnd' = [hnd EXCEPT ![h].pc = "own", ![h].row = r, ![h].list = left]
  <2>1. hnd' = [hnd EXCEPT ![h] = a]
    BY <1>2, <1>6
  <2> HIDE DEF a
  <2> QED
    BY <1>4, <2>1 DEF Plainly, Plain
<1>7. CASE hnd' = [hnd EXCEPT ![h] = IF left = {} THEN Idle ELSE b]
  <2> HIDE DEF b, left
  <2> QED
    BY <1>5, <1>7, IdleGood DEF Plainly, Plain
<1> QED
  BY <1>1, <1>6, <1>7

\* The limit of articles.
LEMMA CountArticlesPlain ==
  ASSUME HndOK, NEW h \in Handlers, CountArticles(h)
  PROVE  Plainly(h)
<1>1. hnd[h] \in Good /\ hnd[h].pc = "articles"
  BY Hnd DEF CountArticles
<1>2. CASE End(h)
  BY <1>2, EndPlain
<1>3. CASE Go(h, "account")
  <2> DEFINE p == [hnd[h] EXCEPT !.pc = "account"]
  <2>1. hnd' = [hnd EXCEPT ![h] = p]
    BY <1>3, GoIs DEF Pcs
  <2>2. p \in Good /\ p.pc = "account"
    BY <1>1, GoGood
  <2> HIDE DEF p
  <2> QED
    BY <2>1, <2>2 DEF Plainly, Plain
<1> QED
  BY <1>2, <1>3 DEF CountArticles

\* The account and its role.
LEMMA FindAccountPlain ==
  ASSUME HndOK, RolesOK, NEW h \in Handlers, FindAccount(h)
  PROVE  Plainly(h)
<1>1. hnd[h] \in Request /\ HasWhatItNeeds(hnd[h]) /\ hnd[h].pc = "account"
      /\ hnd \in [Handlers -> Good] /\ hnd[h].user \in Users
  BY Hnd DEF FindAccount, HndOK, Good, HasWhatItNeeds
<1>2. CASE End(h)
  BY <1>2, EndPlain
<1>3. CASE Live(hnd[h].user)
  <2> DEFINE r == role[hnd[h].user]
             p == [hnd[h] EXCEPT !.pc = "limit", !.role = r]
  <2>1. r \in Roles
    BY <1>1, <1>3 DEF RolesOK, Live
  <2>2. hnd' = [hnd EXCEPT ![h] = p]
    BY <1>1, <1>3 DEF FindAccount
  <2> HIDE DEF r
  <2>3. p \in Request /\ p.pc = "limit" /\ p.role = r /\ p.user = hnd[h].user /\ p.op = hnd[h].op
        /\ p.todo = hnd[h].todo
    BY <1>1, <2>1 DEF Request, Pcs
  <2> HIDE DEF p
  <2>4. p \in Good
    BY <1>1, <2>1, <2>3 DEF Good, HasWhatItNeeds
  <2> QED
    BY <2>2, <2>3, <2>4 DEF Plainly, Plain
<1> QED
  BY <1>2, <1>3 DEF FindAccount

\* A request that is about to insert.
Inserts(h) == \E q \in Good : /\ q.pc = "insert" /\ q.user = hnd[h].user
                               /\ hnd' = [hnd EXCEPT ![h] = q]

\* A limit that lets pass.
LEMMA PassedStep ==
  ASSUME HndOK, NEW h \in Handlers, hnd[h].pc \in {"limit", "count"}, Passed(h)
  PROVE  Plainly(h) \/ Inserts(h)
<1>1. hnd[h] \in Request /\ HasWhatItNeeds(hnd[h]) /\ hnd[h] \in Good /\ hnd \in [Handlers -> Good]
  BY Hnd DEF HndOK, Good
<1>2. CASE Go(h, "insert")
  <2> DEFINE p == [hnd[h] EXCEPT !.pc = "insert"]
  <2>1. hnd' = [hnd EXCEPT ![h] = p]
    BY <1>2, GoIs DEF Pcs
  <2>2. p \in Good /\ p.pc = "insert" /\ p.user = hnd[h].user
    BY <1>1, GoGood
  <2> HIDE DEF p
  <2> QED
    BY <2>1, <2>2 DEF Inserts
<1>3. CASE hnd' = [hnd EXCEPT ![h].pc = "account", ![h].first = FALSE]
  <2> DEFINE p == [hnd[h] EXCEPT !.pc = "account", !.first = FALSE]
  <2>1. hnd' = [hnd EXCEPT ![h] = p]
    BY <1>1, <1>3
  <2>2. p \in Request /\ p.pc = "account" /\ p.user = hnd[h].user /\ p.op = hnd[h].op
        /\ p.todo = hnd[h].todo
    BY <1>1 DEF Request, Pcs
  <2> HIDE DEF p
  <2>3. p \in Good
    BY <1>1, <2>2 DEF Good, HasWhatItNeeds
  <2> QED
    BY <2>1, <2>2, <2>3 DEF Plainly, Plain
<1> QED
  BY <1>2, <1>3 DEF Passed

\* The limit is a number.
LEMMA MaxType == ASSUME RolesOK, NEW r \in Roles PROVE MaxOf(r) \in Int
BY CommandsAssumption DEF RolesOK, MaxOf

\* A request that is about to count.
Counts(h) == \E q \in Good : /\ q.pc = "count" /\ q.user = hnd[h].user
                              /\ q.max = MaxOf(hnd[h].role)
                              /\ hnd' = [hnd EXCEPT ![h] = q]

\* The limit of the role.
LEMMA GetMaxStep ==
  ASSUME HndOK, RolesOK, NEW h \in Handlers, GetMaxSubscriptions(h)
  PROVE  IF MaxOf(hnd[h].role) < 0 THEN Plainly(h) \/ Inserts(h) ELSE Counts(h)
<1> DEFINE max == MaxOf(hnd[h].role)
<1>1. hnd[h] \in Request /\ HasWhatItNeeds(hnd[h]) /\ hnd \in [Handlers -> Good]
      /\ hnd[h].pc = "limit" /\ hnd[h].role \in Roles
  BY Hnd DEF HndOK, Good, HasWhatItNeeds, GetMaxSubscriptions
<1>2. CASE max < 0
  BY <1>1, <1>2, PassedStep DEF GetMaxSubscriptions
<1>3. CASE ~(max < 0)
  <2> DEFINE p == [hnd[h] EXCEPT !.pc = "count", !.max = max]
  <2>1. max \in Int
    BY <1>1, MaxType
  <2>2. hnd' = [hnd EXCEPT ![h] = p]
    BY <1>1, <1>3 DEF GetMaxSubscriptions
  <2> HIDE DEF max
  <2>3. p \in Request /\ p.pc = "count" /\ p.user = hnd[h].user /\ p.op = hnd[h].op
        /\ p.todo = hnd[h].todo /\ p.max = max
    BY <1>1, <2>1 DEF Request, Pcs
  <2> HIDE DEF p
  <2>4. p \in Good
    BY <1>1, <2>3 DEF Good, HasWhatItNeeds
  <2>5. Counts(h)
    BY <2>2, <2>3, <2>4 DEF Counts, max
  <2> QED
    BY <1>3, <2>5 DEF max
<1> QED
  BY <1>2, <1>3

\* The rows of the user.
LEMMA CountStep ==
  ASSUME HndOK, NEW h \in Handlers, CountByUserID(h)
  PROVE  \/ Plainly(h)
         \/ /\ Inserts(h)
            /\ ~(Cardinality(RowsOf(hnd[h].user)) >= hnd[h].max)
<1>1. hnd[h].pc = "count"
  BY DEF CountByUserID
<1> QED
  BY <1>1, PassedStep, EndPlain DEF CountByUserID

\* A row that matches, and the next item when there is none.
LEMMA FindPlain ==
  ASSUME HndOK, TableOK, NEW h \in Handlers, FindByBoardAndValue(h)
  PROVE  Plainly(h)
<1>1. hnd[h] \in Request /\ hnd[h] \in Good /\ hnd[h].pc = "find" /\ hnd \in [Handlers -> Good]
  BY Hnd DEF HndOK, FindByBoardAndValue
<1>2. CASE Advance(h)
  BY <1>1, <1>2, AdvancePlain
<1>3. ASSUME NEW r \in rows, hnd' = [hnd EXCEPT ![h].pc = "own", ![h].row = r] PROVE Plainly(h)
  <2> DEFINE p == [hnd[h] EXCEPT !.pc = "own", !.row = r]
  <2>1. hnd' = [hnd EXCEPT ![h] = p]
    BY <1>1, <1>3
  <2>2. r \in RowType
    BY DEF TableOK
  <2>3. p \in Request /\ p.pc = "own" /\ p.user = hnd[h].user /\ p.op = hnd[h].op
        /\ p.todo = hnd[h].todo /\ p.row = r
    BY <1>1, <2>2 DEF Request, Pcs
  <2> HIDE DEF p
  <2>4. p \in Good
    BY <1>1, <2>2, <2>3 DEF Good, HasWhatItNeeds
  <2> QED
    BY <2>1, <2>3, <2>4 DEF Plainly, Plain
<1> QED
  BY <1>2, <1>3 DEF FindByBoardAndValue, RowsOf

\* A request that is about to change a row, which it has compared with its user.
Owns(h) == \E q \in Good, now \in rows :
             /\ q.pc \in {"erase", "update"} /\ q.row = now /\ q.user = now.user
             /\ hnd' = [hnd EXCEPT ![h] = q]

\* The comparison of the owner.
LEMMA OwnStep ==
  ASSUME HndOK, TableOK, NEW h \in Handlers, Own(h)
  PROVE  Plainly(h) \/ Owns(h)
<1>1. hnd[h] \in Request /\ HasWhatItNeeds(hnd[h]) /\ hnd[h].pc = "own" /\ hnd \in [Handlers -> Good]
  BY Hnd DEF HndOK, Good, Own
<1>2. CASE Advance(h)
  BY <1>1, <1>2, AdvancePlain
<1>3. ASSUME NEW now \in rows, now.user = hnd[h].user,
             hnd' = [hnd EXCEPT ![h].row = now,
                                ![h].pc = IF hnd[h].op = "update" THEN "update" ELSE "erase"]
      PROVE  Owns(h)
  <2> DEFINE step == IF hnd[h].op = "update" THEN "update" ELSE "erase"
             p == [hnd[h] EXCEPT !.row = now, !.pc = step]
  <2>1. hnd' = [hnd EXCEPT ![h] = p]
    BY <1>1, <1>3
  <2>2. now \in RowType
    BY DEF TableOK
  <2>3. step \in {"update", "erase"} /\ (step = "update" => hnd[h].op = "update")
    OBVIOUS
  <2> HIDE DEF step
  <2>4. p \in Request /\ p.pc = step /\ p.user = hnd[h].user /\ p.op = hnd[h].op
        /\ p.todo = hnd[h].todo /\ p.row = now
    BY <1>1, <2>2, <2>3 DEF Request, Pcs
  <2> HIDE DEF p
  <2>5. p \in Good
    BY <1>1, <2>2, <2>3, <2>4 DEF Good, HasWhatItNeeds
  <2> QED
    BY <1>3, <2>1, <2>3, <2>4, <2>5 DEF Owns
<1> QED
  BY <1>2, <1>3 DEF Own

\* The statements that end a step of a request.
LEMMA EndsPlain ==
  ASSUME HndOK, NEW h \in Handlers,
         \/ BoardNotFound(h) \/ CreateInDB(h) \/ DeleteInDB(h) \/ UpdateInDB(h)
         \/ StatementFails(h) \/ Unreported(h)
  PROVE  Plainly(h)
<1>1. hnd[h].pc # "idle" /\ (End(h) \/ Advance(h))
  BY DEF BoardNotFound, CreateInDB, DeleteInDB, UpdateInDB, StatementFails, Unreported
<1> QED
  BY <1>1, EndPlain, AdvancePlain

(***************************************************************************)
(* Accounts, limits, statistics and histories keep their types.            *)
(***************************************************************************)
\* Roles and limits.
LEMMA RolesStep == ASSUME RolesOK, [Next]_vars PROVE RolesOK'
<1>1. ASSUME NEW u \in Users, AdminDeleteUser(u) PROVE RolesOK'
  BY <1>1 DEF RolesOK, AdminDeleteUser
<1>2. ASSUME NEW u \in Users, NEW r \in Given, AdminUpdateUser(u, r) PROVE RolesOK'
  BY <1>2, CommandsAssumption DEF RolesOK, AdminUpdateUser
<1>3. ASSUME NEW r \in Roles, NEW max \in Offers, AdminCreateRole(r, max) \/ AdminUpdateRole(r, max)
      PROVE  RolesOK'
  BY <1>3, CommandsAssumption DEF RolesOK, AdminCreateRole, AdminUpdateRole
<1>4. ASSUME NEW r \in Roles, AdminDeleteRole(r) PROVE RolesOK'
  BY <1>4 DEF RolesOK, AdminDeleteRole
<1>5. ASSUME NEW h \in Handlers, Chats(h) \/ Api(h) PROVE RolesOK'
  BY <1>5 DEF RolesOK, Chats, Api, ChatAdd, ChatDelete, ChatArticle, CleanCommentList,
              CreateSubscription, DeleteSubscription, UpdateSubscription, Data
<1>6. ASSUME NEW h \in Handlers, Handle(h) PROVE RolesOK'
  BY <1>6 DEF RolesOK, Handle, CleanNext, CountArticles, FindAccount, GetMaxSubscriptions,
              CountByUserID, BoardNotFound, CreateInDB, FindByBoardAndValue, Own, DeleteInDB,
              UpdateInDB, StatementFails, Unreported, Quiet, Data
<1>7. ASSUME NEW w \in Workers, Statistics(w) PROVE RolesOK'
  BY <1>7 DEF RolesOK, Statistics, Increment, Decrement, BatchFails
<1>8. CASE UNCHANGED vars
  BY <1>8 DEF RolesOK, vars
<1> QED
  BY <1>1, <1>2, <1>3, <1>4, <1>5, <1>6, <1>7, <1>8 DEF Next, Administer

\* The statements of one change.
LEMMA BatchType ==
  ASSUME NEW up \in BOOLEAN, NEW i \in Items PROVE Batch(up, i) \in Seq(Steps)
<1>1. ValuesOf[i] \in Seq(Values)
  BY CommandsAssumption
<1>2. DOMAIN ValuesOf[i] = 1..Len(ValuesOf[i]) /\ Len(ValuesOf[i]) \in Nat
  BY <1>1
<1>3. \A k \in 1..Len(ValuesOf[i]) : Step(up, ValuesOf[i][k]) \in Steps
  BY <1>1 DEF Step, Steps
<1>4. Batch(up, i) = [k \in 1..Len(ValuesOf[i]) |-> Step(up, ValuesOf[i][k])]
  BY <1>2 DEF Batch
<1> HIDE DEF Steps
<1> QED
  BY <1>2, <1>3, <1>4

\* A goroutine that starts.
LEMMA SpawnType ==
  ASSUME StatsOK, NEW steps \in Seq(Steps), Spawn(steps) PROVE bg' \in [Workers -> Seq(Steps)]
BY DEF StatsOK, Spawn

\* The values of rows.
LEMMA ValsType == ASSUME NEW set \in SUBSET RowType PROVE Vals(set) \subseteq Values
<1>1. SUFFICES ASSUME NEW r \in set PROVE Range(ValuesOf[r.item]) \subseteq Values
  BY DEF Vals
<1>2. ValuesOf[r.item] \in Seq(Values)
  BY CommandsAssumption DEF RowType
<1>3. \A k \in DOMAIN ValuesOf[r.item] : ValuesOf[r.item][k] \in Values
  BY <1>2
<1> QED
  BY <1>3 DEF Range

\* The part of a batch that is dropped when a statement fails, and what is left.
LEMMA RestType ==
  ASSUME NEW seq \in Seq(Steps), seq # <<>>
  PROVE  /\ Rest(seq) \in Seq(Steps) /\ {seq[k].v : k \in Same(seq)} \subseteq Values
<1>1. Len(seq) \in Nat /\ DOMAIN seq = 1..Len(seq) /\ \A k \in 1..Len(seq) : seq[k] \in Steps
  <2>1. Len(seq) \in Nat /\ DOMAIN seq = 1..Len(seq)
    BY LenProperties
  <2>2. \A k \in 1..Len(seq) : seq[k] \in Steps
    BY ElementOfSeq
  <2> QED
    BY <2>1, <2>2
<1>2. IsFiniteSet(Same(seq)) /\ Same(seq) \subseteq 1..Len(seq)
  <2>1. IsFiniteSet(1..Len(seq))
    BY <1>1, FS_Interval
  <2>2. Same(seq) \subseteq 1..Len(seq)
    BY <1>1 DEF Same
  <2> QED
    BY <2>1, <2>2, FS_Subset
<1>3. Cardinality(Same(seq)) \in Nat
  BY <1>2, FS_CardinalityType
<1>4. \A k \in Cardinality(Same(seq)) + 1 .. Len(seq) : seq[k] \in Steps
  BY <1>1, <1>3
<1>5. Rest(seq) \in Seq(Steps)
  BY <1>1, <1>3, <1>4, SubSeqProperties DEF Rest
<1>6. {seq[k].v : k \in Same(seq)} \subseteq Values
  BY <1>1, <1>2 DEF Steps
<1> QED
  BY <1>5, <1>6

\* Statistics.
LEMMA StatsStep == ASSUME TypeOK, [Next]_vars PROVE StatsOK'
<1>0. StatsOK /\ TableOK /\ HndOK
  BY TypeParts
<1>1. ASSUME NEW w \in Workers, Increment(w) PROVE StatsOK'
  <2>1. bg[w] \in Seq(Steps) /\ bg[w] # <<>>
    BY <1>0, <1>1 DEF StatsOK, Increment
  <2>2. Head(bg[w]) \in Steps /\ Tail(bg[w]) \in Seq(Steps)
    BY <2>1, HeadTailProperties
  <2>3. Head(bg[w]).v \in Values
    BY <2>2 DEF Steps
  <2>4. Counted(Head(bg[w]).v) + 1 \in Nat
    BY <1>0, <2>3 DEF StatsOK, Counted
  <2> QED
    BY <1>0, <1>1, <2>2, <2>3, <2>4 DEF StatsOK, Increment
<1>2. ASSUME NEW w \in Workers, Decrement(w) PROVE StatsOK'
  <2>1. bg[w] \in Seq(Steps) /\ bg[w] # <<>>
    BY <1>0, <1>2 DEF StatsOK, Decrement
  <2>2. Head(bg[w]) \in Steps /\ Tail(bg[w]) \in Seq(Steps)
    BY <2>1, HeadTailProperties
  <2>3. Head(bg[w]).v \in Values
    BY <2>2 DEF Steps
  <2>4. Counted(Head(bg[w]).v) # 0 => count[Head(bg[w]).v] - 1 \in Nat
    BY <1>0, <2>3 DEF StatsOK, Counted
  <2>5. bg' \in [Workers -> Seq(Steps)]
    BY <1>0, <1>2, <2>2 DEF StatsOK, Decrement
  <2>6. count' \in [Values -> Nat \union {None}]
    BY <1>0, <1>2, <2>3, <2>4 DEF StatsOK, Decrement
  <2> QED
    BY <2>5, <2>6 DEF StatsOK
<1>3. ASSUME NEW w \in Workers, BatchFails(w) PROVE StatsOK'
  <2>1. bg[w] \in Seq(Steps) /\ bg[w] # <<>>
    BY <1>0, <1>3 DEF StatsOK, BatchFails
  <2>2. Rest(bg[w]) \in Seq(Steps)
    BY <2>1, RestType
  <2> QED
    BY <1>0, <1>3, <2>2 DEF StatsOK, BatchFails
<1>4. ASSUME NEW h \in Handlers, CreateInDB(h) PROVE StatsOK'
  <2> DEFINE i == Head(hnd[h].todo)
  <2>1. i \in Items
    <3>1. hnd[h].todo \in Seq(Items) /\ hnd[h].todo # <<>>
      BY <1>0, <1>4, Hnd DEF Good, HasWhatItNeeds, Request, CreateInDB
    <3> QED
      BY <3>1, HeadTailProperties
  <2>2. Batch(TRUE, i) \in Seq(Steps)
    BY <2>1, BatchType
  <2>3. UNCHANGED bg \/ Spawn(Batch(TRUE, i))
    BY <1>4 DEF CreateInDB
  <2>4. bg' \in [Workers -> Seq(Steps)]
    BY <1>0, <2>2, <2>3, SpawnType DEF StatsOK
  <2> QED
    BY <1>0, <1>4, <2>4 DEF StatsOK, CreateInDB
<1>5. ASSUME NEW h \in Handlers, DeleteInDB(h) \/ UpdateInDB(h) PROVE StatsOK'
  <2> DEFINE i == Head(hnd[h].todo)
             r == hnd[h].row
  <2>1. r.item \in Items
    BY <1>0, <1>5, Hnd DEF Good, HasWhatItNeeds, DeleteInDB, UpdateInDB, RowType
  <2>2. hnd[h].pc = "update" => i \in Items
    <3>1. hnd[h].pc = "update" => hnd[h].todo \in Seq(Items) /\ hnd[h].todo # <<>>
      BY <1>0, Hnd DEF Good, HasWhatItNeeds, Request
    <3> QED
      BY <3>1, HeadTailProperties
  <2>3. Batch(FALSE, r.item) \in Seq(Steps) /\ (hnd[h].pc = "update" => Batch(TRUE, i) \in Seq(Steps))
    BY <2>1, <2>2, BatchType
  <2>4. hnd[h].pc = "update" => Batch(FALSE, r.item) \o Batch(TRUE, i) \in Seq(Steps)
    BY <2>3, ConcatProperties
  <2>5. \/ UNCHANGED bg
        \/ Spawn(Batch(FALSE, r.item))
        \/ hnd[h].pc = "update" /\ Spawn(Batch(FALSE, r.item) \o Batch(TRUE, i))
    BY <1>5 DEF DeleteInDB, UpdateInDB
  <2>6. bg' \in [Workers -> Seq(Steps)]
    <3> HIDE DEF r, i
    <3>1. CASE UNCHANGED bg
      BY <1>0, <3>1 DEF StatsOK
    <3>2. CASE Spawn(Batch(FALSE, r.item))
      BY <1>0, <2>3, <3>2, SpawnType
    <3>3. CASE hnd[h].pc = "update" /\ Spawn(Batch(FALSE, r.item) \o Batch(TRUE, i))
      BY <1>0, <2>4, <3>3, SpawnType
    <3> QED
      BY <2>5, <3>1, <3>2, <3>3
  <2>7. UNCHANGED count
    BY <1>5 DEF DeleteInDB, UpdateInDB
  <2> QED
    BY <1>0, <2>6, <2>7 DEF StatsOK
<1>6. ASSUME NEW h \in Handlers, Chats(h) \/ Api(h) PROVE StatsOK'
  BY <1>0, <1>6 DEF StatsOK, Chats, Api, ChatAdd, ChatDelete, ChatArticle, CleanCommentList,
              CreateSubscription, DeleteSubscription, UpdateSubscription, Data, stats
<1>7. ASSUME NEW h \in Handlers, Handle(h), ~CreateInDB(h), ~DeleteInDB(h), ~UpdateInDB(h)
      PROVE  StatsOK'
  BY <1>0, <1>7 DEF StatsOK, Handle, CleanNext, CountArticles, FindAccount, GetMaxSubscriptions,
              CountByUserID, BoardNotFound, FindByBoardAndValue, Own, StatementFails, Unreported,
              Quiet, Data, stats
<1>8. CASE Administer
  BY <1>0, <1>8 DEF StatsOK, Administer, AdminDeleteUser, AdminUpdateUser, AdminCreateRole,
              AdminUpdateRole, AdminDeleteRole, stats
<1>9. CASE UNCHANGED vars
  BY <1>0, <1>9 DEF StatsOK, vars, stats
<1> QED
  BY <1>1, <1>2, <1>3, <1>4, <1>5, <1>6, <1>7, <1>8, <1>9 DEF Next, Statistics

\* A statement whose answer is lost leaves rows.
LEMMA UnreportedRows ==
  ASSUME TypeOK, NEW h \in Handlers, Unreported(h) PROVE rows' \subseteq RowType
<1>0. TableOK /\ HndOK
  BY TypeParts
<1> DEFINE u == hnd[h].user
           r == hnd[h].row
           i == Head(hnd[h].todo)
<1>1. hnd[h].pc \in {"insert", "update"} => i \in Items
  <2>1. hnd[h].pc \in {"insert", "update"} => hnd[h].todo \in Seq(Items) /\ hnd[h].todo # <<>>
    BY <1>0, Hnd DEF Good, HasWhatItNeeds, Request
  <2> QED
    BY <2>1, HeadTailProperties
<1>2. hnd[h].pc = "insert" => [id |-> nextId, user |-> u, item |-> i] \in RowType
  <2>1. hnd[h].pc = "insert" => u \in Users
    BY <1>0, Hnd DEF Good, HasWhatItNeeds
  <2> QED
    BY <1>0, <1>1, <2>1 DEF TableOK, RowType
<1>3. hnd[h].pc = "update" => [r EXCEPT !.item = i] \in RowType
  <2>1. hnd[h].pc = "update" => r \in RowType
    BY <1>0, Hnd DEF Good, HasWhatItNeeds
  <2> HIDE DEF r, i
  <2> QED
    BY <1>1, <2>1 DEF RowType
<1>4. \/ hnd[h].pc = "insert" /\ rows' = rows \union {[id |-> nextId, user |-> u, item |-> i]}
      \/ rows' = rows \ Touched(r)
      \/ hnd[h].pc = "update" /\ rows' = (rows \ Touched(r)) \union {[r EXCEPT !.item = i]}
  BY DEF Unreported
<1> QED
  BY <1>0, <1>2, <1>3, <1>4 DEF TableOK

\* Requests and failures that are counted, and the values of the histories.
LEMMA HistStep == ASSUME TypeOK, [Next]_vars PROVE HistOK'
<1>0. StatsOK /\ TableOK /\ HndOK /\ HistOK
  BY TypeParts
<1>1. ASSUME NEW w \in Workers, Statistics(w) PROVE HistOK'
  <2>1. bg[w] # <<>> => bg[w] \in Seq(Steps) /\ Head(bg[w]) \in Steps
    BY <1>0, HeadTailProperties DEF StatsOK
  <2>2. bg[w] # <<>> => Head(bg[w]).v \in Values /\ {bg[w][k].v : k \in Same(bg[w])} \subseteq Values
    BY <2>1, RestType DEF Steps
  <2>3. CASE Increment(w)
    BY <1>0, <2>3 DEF Increment, HistOK, drift
  <2>4. CASE Decrement(w)
    BY <1>0, <2>2, <2>4 DEF Decrement, HistOK
  <2>5. CASE BatchFails(w)
    BY <1>0, <2>2, <2>5 DEF BatchFails, HistOK
  <2> QED
    BY <1>1, <2>3, <2>4, <2>5 DEF Statistics
<1>2. ASSUME NEW h \in Handlers, DeleteInDB(h) \/ UpdateInDB(h) PROVE HistOK'
  <2> DEFINE r == hnd[h].row
             i == Head(hnd[h].todo)
             new == [r EXCEPT !.item = i]
  <2>1. r \in RowType
    BY <1>0, <1>2, Hnd DEF Good, HasWhatItNeeds, DeleteInDB, UpdateInDB
  <2>2. hnd[h].pc = "update" => i \in Items
    <3>1. hnd[h].pc = "update" => hnd[h].todo \in Seq(Items) /\ hnd[h].todo # <<>>
      BY <1>0, Hnd DEF Good, HasWhatItNeeds, Request
    <3> QED
      BY <3>1, HeadTailProperties
  <2>3. hnd[h].pc = "update" => new \in RowType
    <3> HIDE DEF i, r
    <3> QED
      BY <2>1, <2>2 DEF RowType
  <2>4. Touched(r) \subseteq RowType
    BY <1>0 DEF TableOK, Touched
  <2>5. /\ Vals({r}) \subseteq Values /\ Vals(Touched(r)) \subseteq Values
        /\ hnd[h].pc = "update" => Vals({new}) \subseteq Values
    <3> HIDE DEF new, r
    <3> QED
      BY <2>1, <2>3, <2>4, ValsType
  <2>6. CASE DeleteInDB(h)
    BY <1>0, <2>5, <2>6 DEF DeleteInDB, MissedBy, HistOK, drift
  <2>7. CASE UpdateInDB(h)
    <3>1. hnd[h].pc = "update" /\ UNCHANGED <<asked, faults>>
      BY <2>7 DEF UpdateInDB
    <3>2. \/ UNCHANGED drift
          \/ /\ low' = low \union Vals({r})
             /\ high' = high \union Vals(Touched(r))
                        \union (IF Touched(r) = {} THEN Vals({new}) ELSE {})
      BY <2>7 DEF UpdateInDB
    <3> HIDE DEF new, r
    <3> QED
      BY <1>0, <2>5, <3>1, <3>2 DEF HistOK, drift
  <2> QED
    BY <1>2, <2>6, <2>7
<1>3. ASSUME NEW h \in Handlers, Handle(h), ~DeleteInDB(h), ~UpdateInDB(h), ~Unreported(h)
      PROVE  HistOK'
  <2>1. UNCHANGED <<asked, low, high>> /\ (UNCHANGED faults \/ faults' = faults + 1)
    BY <1>3 DEF Handle, CleanNext, CountArticles, FindAccount, GetMaxSubscriptions,
                CountByUserID, BoardNotFound, CreateInDB, FindByBoardAndValue, Own, StatementFails,
                Quiet, Data, drift
  <2> QED
    BY <1>0, <2>1 DEF HistOK
<1>4. ASSUME NEW h \in Handlers, Chats(h) \/ Api(h) PROVE HistOK'
  <2>1. UNCHANGED <<faults, low, high>> /\ asked' = asked + 1
    <3>1. CASE Chats(h)
      BY <3>1 DEF Chats, ChatAdd, ChatDelete, ChatArticle, CleanCommentList, Data, drift, Begin, Ask
    <3>2. CASE Api(h)
      BY <3>2 DEF Api, CreateSubscription, DeleteSubscription, UpdateSubscription, Data, drift,
                  Begin, Ask
    <3> QED
      BY <1>4, <3>1, <3>2
  <2> QED
    BY <1>0, <2>1 DEF HistOK
<1>5. CASE Administer
  <2>1. \A u \in Users : Vals(RowsOf(u)) \subseteq Values
    <3>1. \A u \in Users : RowsOf(u) \subseteq RowType
      BY <1>0 DEF TableOK, RowsOf
    <3> QED
      BY <3>1, ValsType
  <2> QED
    BY <1>0, <1>5, <2>1 DEF HistOK, Administer, AdminDeleteUser, AdminUpdateUser, AdminCreateRole,
              AdminUpdateRole, AdminDeleteRole, drift, Ask
<1>6. CASE UNCHANGED vars
  BY <1>0, <1>6 DEF HistOK, vars, drift
\* The rows before and after are rows.
<1>7. ASSUME NEW h \in Handlers, Unreported(h) PROVE HistOK'
  <2>1. rows \subseteq RowType
    BY <1>0 DEF TableOK
  <2>2. rows' \subseteq RowType
    BY <1>7, UnreportedRows DEF TypeOK
  <2>3. Vals(rows' \ rows) \subseteq Values /\ Vals(rows \ rows') \subseteq Values
    <3>1. rows' \ rows \in SUBSET RowType /\ rows \ rows' \in SUBSET RowType
      BY <2>1, <2>2
    <3> QED
      BY <3>1, ValsType
  <2>4. /\ low' = low \union Vals(rows' \ rows) /\ high' = high \union Vals(rows \ rows')
        /\ faults' = faults + 1 /\ UNCHANGED asked
    BY <1>7 DEF Unreported
  <2> QED
    BY <1>0, <2>3, <2>4 DEF HistOK
<1> QED
  BY <1>1, <1>2, <1>3, <1>4, <1>5, <1>6, <1>7 DEF Next

\* The higher of two limits, of which one below zero is none.
LEMMA HigherType ==
  ASSUME NEW p \in Int, NEW max \in Int
  PROVE  /\ Higher(p, max) \in Int
         /\ Higher(p, max) < 0 \/ (p >= 0 /\ Higher(p, max) >= p /\ Higher(p, max) >= max)
BY DEF Higher

\* The highest limit a user has been checked against only rises, or is none.
Grows == /\ PeakOK'
         /\ \A u \in Users : peak'[u] < 0 \/ (peak[u] >= 0 /\ peak'[u] >= peak[u])

\* Nothing changes it but the look at the limit.
LEMMA PeakStep == ASSUME TypeOK, [Next]_vars PROVE Grows
<1>0. PeakOK /\ HndOK /\ RolesOK
  BY TypeParts
<1>1. ASSUME NEW h \in Handlers, GetMaxSubscriptions(h) PROVE Grows
  <2> DEFINE u == hnd[h].user
             max == MaxOf(hnd[h].role)
  <2>1. u \in Users /\ max \in Int
    <3>1. hnd[h].role \in Roles /\ u \in Users
      BY <1>0, <1>1, Hnd DEF Good, HasWhatItNeeds, GetMaxSubscriptions
    <3> QED
      BY <1>0, <3>1, MaxType
  <2>2. peak' = [peak EXCEPT ![u] = Higher(peak[u], max)] /\ peak[u] \in Int
    BY <1>0, <1>1, <2>1 DEF GetMaxSubscriptions, PeakOK
  <2> HIDE DEF u, max
  <2>3. /\ Higher(peak[u], max) \in Int
        /\ Higher(peak[u], max) < 0 \/ (peak[u] >= 0 /\ Higher(peak[u], max) >= peak[u])
    BY <2>1, <2>2, HigherType
  <2> QED
    BY <1>0, <2>1, <2>2, <2>3 DEF Grows, PeakOK
<1>2. CASE UNCHANGED peak
  BY <1>0, <1>2 DEF Grows, PeakOK
<1>3. ASSUME NEW h \in Handlers, Handle(h), ~GetMaxSubscriptions(h) PROVE UNCHANGED peak
  BY <1>3 DEF Handle, CleanNext, CountArticles, FindAccount, CountByUserID, BoardNotFound,
              CreateInDB, FindByBoardAndValue, Own, DeleteInDB, UpdateInDB, StatementFails,
              Unreported, Quiet, Data
<1>4. ASSUME NEW h \in Handlers, Chats(h) \/ Api(h) PROVE UNCHANGED peak
  BY <1>4 DEF Chats, Api, ChatAdd, ChatDelete, ChatArticle, CleanCommentList,
              CreateSubscription, DeleteSubscription, UpdateSubscription, Data
<1>5. CASE Administer
  BY <1>2, <1>5 DEF Administer, AdminDeleteUser, AdminUpdateUser, AdminCreateRole,
              AdminUpdateRole, AdminDeleteRole
<1>6. ASSUME NEW w \in Workers, Statistics(w) PROVE UNCHANGED peak
  BY <1>6 DEF Statistics, Increment, Decrement, BatchFails
<1>7. CASE UNCHANGED vars
  BY <1>2, <1>7 DEF vars
<1> QED
  BY <1>1, <1>2, <1>3, <1>4, <1>5, <1>6, <1>7 DEF Next

(***************************************************************************)
(* The kinds of steps that tables and handlers know.                       *)
(***************************************************************************)
\* The table stays, and the accounts that are deleted.
Frame == UNCHANGED <<rows, nextId>> /\ \A u \in Users : role'[u] = Gone <=> role[u] = Gone

Elsewhere == Frame /\ UNCHANGED hnd
Moves(h)  == Frame /\ Plainly(h)
Admits(h) == LET u == hnd[h].user IN
  /\ Frame /\ Inserts(h) /\ u \in Users
  /\ \/ peak'[u] < 0
     \/ hnd[h].pc = "count" /\ UNCHANGED peak /\ ~(Cardinality(RowsOf(u)) >= hnd[h].max)
Limits(h) == \E q \in Good :
  /\ Frame /\ q.pc = "count" /\ hnd' = [hnd EXCEPT ![h] = q]
  /\ peak'[q.user] < 0 \/ q.max <= peak'[q.user]
Takes(h)  == Frame /\ Owns(h)
Adds(h)   == LET u == hnd[h].user IN \E i \in Items :
  /\ hnd[h].pc = "insert" /\ Live(u) /\ ~(\E r \in RowsOf(u) : r.item = i)
  /\ rows' = rows \union {[id |-> nextId, user |-> u, item |-> i]} /\ nextId' = nextId + 1
  /\ UNCHANGED role /\ Plainly(h)
Erases(h) ==
  /\ hnd[h].pc = "erase" /\ rows' = rows \ Touched(hnd[h].row)
  /\ UNCHANGED <<role, nextId>> /\ Plainly(h)
Changes(h) == LET r == hnd[h].row IN \E i \in Items :
  /\ hnd[h].pc = "update" /\ Touched(r) # {}
  /\ ~(\E q \in RowsOf(r.user) : q.item = i /\ q.id # r.id)
  /\ rows' = (rows \ Touched(r)) \union {[r EXCEPT !.item = i]}
  /\ UNCHANGED <<role, nextId>> /\ Plainly(h)
Drops(u)  == Live(u) /\ role' = [role EXCEPT ![u] = Gone] /\ rows' = rows \ RowsOf(u)
             /\ UNCHANGED <<nextId, hnd>>

\* A statement whose answer is lost changes the table as one that is answered.
LEMMA UnreportedKind ==
  ASSUME TypeOK, NEW h \in Handlers, Unreported(h) PROVE Adds(h) \/ Erases(h) \/ Changes(h)
<1>0. HndOK
  BY TypeParts
<1> DEFINE u == hnd[h].user
           r == hnd[h].row
           i == Head(hnd[h].todo)
<1>1. Plainly(h) /\ UNCHANGED role
  BY <1>0, EndsPlain DEF Unreported
<1>2. hnd[h].pc \in {"insert", "update"} => i \in Items
  <2>1. hnd[h].pc \in {"insert", "update"} => hnd[h].todo \in Seq(Items) /\ hnd[h].todo # <<>>
    BY <1>0, Hnd DEF Good, HasWhatItNeeds, Request
  <2> QED
    BY <2>1, HeadTailProperties
<1>3. CASE /\ hnd[h].pc = "insert" /\ Live(u) /\ ~(\E o \in RowsOf(u) : o.item = i)
           /\ rows' = rows \union {[id |-> nextId, user |-> u, item |-> i]} /\ nextId' = nextId + 1
  BY <1>1, <1>2, <1>3 DEF Adds
<1>4. CASE hnd[h].pc = "erase" /\ rows' = rows \ Touched(r) /\ UNCHANGED nextId
  BY <1>1, <1>4 DEF Erases
<1>5. CASE /\ hnd[h].pc = "update" /\ Touched(r) # {}
           /\ ~(\E o \in RowsOf(r.user) : o.item = i /\ o.id # r.id)
           /\ rows' = (rows \ Touched(r)) \union {[r EXCEPT !.item = i]} /\ UNCHANGED nextId
  BY <1>1, <1>2, <1>5 DEF Changes
<1> QED
  BY <1>3, <1>4, <1>5 DEF Unreported

\* There are no others.
LEMMA Kinds ==
  ASSUME TypeOK, [Next]_vars
  PROVE  \/ Elsewhere
         \/ \E h \in Handlers : \/ Moves(h) \/ Admits(h) \/ Limits(h) \/ Takes(h)
                               \/ Adds(h) \/ Erases(h) \/ Changes(h)
         \/ \E u \in Users : Drops(u)
<1>0. RolesOK /\ TableOK /\ HndOK /\ PeakOK /\ Grows
  BY TypeParts, PeakStep
<1>1. ASSUME NEW h \in Handlers, Chats(h) \/ Api(h) PROVE Moves(h)
  <2>1. UNCHANGED <<role, rows, nextId>>
    BY <1>1 DEF Chats, Api, ChatAdd, ChatDelete, ChatArticle, CleanCommentList,
                CreateSubscription, DeleteSubscription, UpdateSubscription, Data, table
  <2> QED
    BY <1>0, <1>1, <2>1, ChatsPlain, ApiPlain DEF Moves, Frame
<1>2. ASSUME NEW h \in Handlers,
             CleanNext(h) \/ CountArticles(h) \/ FindAccount(h) \/ FindByBoardAndValue(h)
             \/ BoardNotFound(h) \/ StatementFails(h)
      PROVE  Moves(h)
  <2>1. UNCHANGED <<role, rows, nextId>>
    BY <1>2 DEF CleanNext, CountArticles, FindAccount, FindByBoardAndValue, BoardNotFound,
                StatementFails, Quiet, Data, table
  <2> QED
    BY <1>0, <1>2, <2>1, CleanNextPlain, CountArticlesPlain, FindAccountPlain, FindPlain, EndsPlain
       DEF Moves, Frame
<1>3. ASSUME NEW h \in Handlers, GetMaxSubscriptions(h) PROVE Moves(h) \/ Admits(h) \/ Limits(h)
  <2> DEFINE u == hnd[h].user
             max == MaxOf(hnd[h].role)
  <2>1. Frame
    BY <1>3 DEF GetMaxSubscriptions, table, Frame
  <2>2. u \in Users /\ max \in Int /\ peak[u] \in Int
    <3>1. hnd[h].role \in Roles /\ u \in Users
      BY <1>0, <1>3, Hnd DEF Good, HasWhatItNeeds, GetMaxSubscriptions
    <3> QED
      BY <1>0, <3>1, MaxType DEF PeakOK
  <2>3. peak'[u] = Higher(peak[u], max)
    BY <1>0, <1>3, <2>2 DEF GetMaxSubscriptions, PeakOK
  <2>4. peak'[u] \in Int /\ (peak'[u] < 0 \/ max <= peak'[u])
    BY <2>2, <2>3, HigherType
  <2>5. CASE max < 0
    <3>1. peak'[u] < 0
      BY <2>2, <2>3, <2>5 DEF Higher
    <3>2. Plainly(h) \/ Inserts(h)
      BY <1>0, <1>3, <2>5, GetMaxStep
    <3> QED
      BY <2>1, <2>2, <3>1, <3>2 DEF Moves, Admits
  <2>6. CASE ~(max < 0)
    <3>1. Counts(h)
      BY <1>0, <1>3, <2>6, GetMaxStep
    <3> QED
      BY <2>1, <2>4, <3>1 DEF Counts, Limits
  <2> QED
    BY <2>5, <2>6
<1>4. ASSUME NEW h \in Handlers, CountByUserID(h) PROVE Moves(h) \/ Admits(h)
  <2>1. UNCHANGED <<role, rows, nextId, peak>> /\ hnd[h].pc = "count"
    BY <1>4 DEF CountByUserID, Quiet, Data, table
  <2>2. hnd[h].user \in Users
    BY <1>0, <2>1, Hnd DEF Good, HasWhatItNeeds
  <2> QED
    BY <1>0, <1>4, <2>1, <2>2, CountStep DEF Moves, Admits, Frame
<1>5. ASSUME NEW h \in Handlers, Own(h) PROVE Moves(h) \/ Takes(h)
  <2>1. UNCHANGED <<role, rows, nextId>>
    BY <1>5 DEF Own, Quiet, Data, table
  <2> QED
    BY <1>0, <1>5, <2>1, OwnStep DEF Moves, Takes, Frame
<1>6. ASSUME NEW h \in Handlers, CreateInDB(h) PROVE Moves(h) \/ Adds(h)
  <2> DEFINE u == hnd[h].user
             i == Head(hnd[h].todo)
  <2>1. Plainly(h) /\ UNCHANGED role /\ hnd[h].pc = "insert"
    BY <1>0, <1>6, EndsPlain DEF CreateInDB
  <2>2. i \in Items
    <3>1. hnd[h].todo \in Seq(Items) /\ hnd[h].todo # <<>>
      BY <1>0, <2>1, Hnd DEF Good, HasWhatItNeeds, Request
    <3> QED
      BY <3>1, HeadTailProperties
  <2>3. CASE UNCHANGED table
    BY <2>1, <2>3 DEF Moves, Frame, table
  <2>4. CASE /\ Live(u) /\ ~(\E r \in RowsOf(u) : r.item = i)
             /\ rows' = rows \union {[id |-> nextId, user |-> u, item |-> i]} /\ nextId' = nextId + 1
    BY <2>1, <2>2, <2>4 DEF Adds
  <2> QED
    BY <1>6, <2>3, <2>4 DEF CreateInDB
<1>7. ASSUME NEW h \in Handlers, DeleteInDB(h) PROVE Erases(h)
  BY <1>0, <1>7, EndsPlain DEF DeleteInDB, Erases
<1>8. ASSUME NEW h \in Handlers, UpdateInDB(h) PROVE Moves(h) \/ Changes(h)
  <2> DEFINE r == hnd[h].row
             i == Head(hnd[h].todo)
  <2>1. Plainly(h) /\ UNCHANGED <<role, nextId>> /\ hnd[h].pc = "update"
    BY <1>0, <1>8, EndsPlain DEF UpdateInDB
  <2>2. i \in Items
    <3>1. hnd[h].todo \in Seq(Items) /\ hnd[h].todo # <<>>
      BY <1>0, <2>1, Hnd DEF Good, HasWhatItNeeds, Request
    <3> QED
      BY <3>1, HeadTailProperties
  <2>3. CASE UNCHANGED rows
    BY <2>1, <2>3 DEF Moves, Frame
  <2>4. CASE /\ Touched(r) # {}
             /\ ~(\E q \in RowsOf(r.user) : q.item = i /\ q.id # r.id)
             /\ rows' = (rows \ Touched(r)) \union {[r EXCEPT !.item = i]}
    BY <2>1, <2>2, <2>4 DEF Changes
  <2>5. \/ UNCHANGED rows
        \/ /\ Touched(r) # {}
           /\ ~(\E q \in RowsOf(r.user) : q.item = i /\ q.id # r.id)
           /\ rows' = (rows \ Touched(r)) \union {[r EXCEPT !.item = i]}
    BY <1>8 DEF UpdateInDB
  <2> QED
    BY <2>3, <2>4, <2>5
<1>9. ASSUME NEW w \in Workers, Statistics(w) PROVE Elsewhere
  BY <1>9 DEF Statistics, Increment, Decrement, BatchFails, Elsewhere, Frame, table
<1>10. ASSUME NEW u \in Users, AdminDeleteUser(u) PROVE Drops(u)
  BY <1>10 DEF AdminDeleteUser, Drops
<1>11. ASSUME NEW u \in Users, NEW r \in Given, AdminUpdateUser(u, r) PROVE Elsewhere
  <2>1. r # Gone /\ role[u] # Gone
    BY <1>11, CommandsAssumption DEF AdminUpdateUser, Live
  <2> QED
    BY <1>0, <1>11, <2>1 DEF AdminUpdateUser, Elsewhere, Frame, table, RolesOK
<1>12. ASSUME NEW r \in Roles, NEW max \in Offers,
              AdminCreateRole(r, max) \/ AdminUpdateRole(r, max)
       PROVE  Elsewhere
  BY <1>12 DEF AdminCreateRole, AdminUpdateRole, Elsewhere, Frame, table
<1>13. ASSUME NEW r \in Roles, AdminDeleteRole(r) PROVE Elsewhere
  BY <1>13 DEF AdminDeleteRole, Elsewhere, Frame, table
<1>14. CASE UNCHANGED vars
  BY <1>14 DEF vars, table, Elsewhere, Frame
<1>15. ASSUME NEW h \in Handlers, Unreported(h) PROVE Adds(h) \/ Erases(h) \/ Changes(h)
  BY <1>15, UnreportedKind
<1>16. ASSUME NEW h \in Handlers, Handle(h)
       PROVE  \/ Moves(h) \/ Admits(h) \/ Limits(h) \/ Takes(h) \/ Adds(h) \/ Erases(h) \/ Changes(h)
  BY <1>2, <1>3, <1>4, <1>5, <1>6, <1>7, <1>8, <1>15, <1>16 DEF Handle
<1> QED
  BY <1>1, <1>9, <1>10, <1>11, <1>12, <1>13, <1>14, <1>16 DEF Next, Administer

(***************************************************************************)
(* Ids are used once, rows have accounts, and a handler that is about to   *)
(* change a row has its owner right, whatever happened to the row since.   *)
(***************************************************************************)
\* Every row has an id that has been used, and an account.
IdsOK == \A r \in rows : r.id < nextId /\ Live(r.user)

\* The row of a handler and the row that has its id now have one owner, the user.
OwnedOK == \A h \in Handlers : hnd[h].pc \in {"erase", "update"} =>
  /\ hnd[h].row.id < nextId /\ hnd[h].row.user = hnd[h].user
  /\ \A q \in rows : q.id = hnd[h].row.id => q.user = hnd[h].row.user

Inv == TypeOK /\ IdsOK /\ OwnedOK

\* A handler that changes a row has read a well typed one.
LEMMA RowOf ==
  ASSUME HndOK, NEW h \in Handlers, hnd[h].pc \in {"erase", "update"}
  PROVE  hnd[h].row \in RowType /\ hnd[h].user \in Users
BY Hnd DEF Good, HasWhatItNeeds

\* The handlers stay well typed.
LEMMA HndStep == ASSUME TypeOK, [Next]_vars PROVE HndOK'
<1>0. HndOK
  BY TypeParts
<1>1. CASE Elsewhere
  BY <1>0, <1>1 DEF Elsewhere, HndOK
<1>2. ASSUME NEW h \in Handlers, NEW q \in Good, hnd' = [hnd EXCEPT ![h] = q] PROVE HndOK'
  BY <1>0, <1>2, Keeps
<1>3. ASSUME NEW u \in Users, Drops(u) PROVE HndOK'
  BY <1>0, <1>3 DEF Drops, HndOK
<1>4. ASSUME NEW h \in Handlers,
             \/ Moves(h) \/ Admits(h) \/ Limits(h) \/ Takes(h)
             \/ Adds(h) \/ Erases(h) \/ Changes(h)
      PROVE  \E q \in Good : hnd' = [hnd EXCEPT ![h] = q]
  BY <1>4 DEF Moves, Admits, Limits, Takes, Adds, Erases, Changes, Plainly, Inserts, Owns
<1> QED
  BY <1>1, <1>2, <1>3, <1>4, Kinds

\* The table keeps its constraints.
LEMMA TableStep == ASSUME Inv, [Next]_vars PROVE TableOK' /\ IdsOK'
<1>0. TableOK /\ HndOK /\ RolesOK /\ IdsOK /\ OwnedOK
  BY TypeParts DEF Inv
<1>1. CASE Frame
  <2>1. TableOK'
    BY <1>0, <1>1 DEF Frame, TableOK, Unalike
  <2>2. \A r \in rows : r.user \in Users
    BY <1>0 DEF TableOK, RowType
  <2> QED
    BY <1>0, <1>1, <2>1, <2>2 DEF Frame, IdsOK, Live
<1>2. ASSUME NEW h \in Handlers, Adds(h) PROVE TableOK' /\ IdsOK'
  <2> DEFINE u == hnd[h].user
  <2>1. PICK i \in Items :
          /\ hnd[h].pc = "insert" /\ Live(u) /\ ~(\E r \in RowsOf(u) : r.item = i)
          /\ rows' = rows \union {[id |-> nextId, user |-> u, item |-> i]} /\ nextId' = nextId + 1
          /\ UNCHANGED role
    BY <1>2 DEF Adds
  <2> DEFINE new == [id |-> nextId, user |-> u, item |-> i]
  <2>2. u \in Users
    BY <1>0, <2>1, Hnd DEF Good, HasWhatItNeeds
  <2>3. new \in RowType /\ new.id = nextId /\ new.user = u /\ new.item = i
    BY <1>0, <2>2 DEF TableOK, RowType
  <2> HIDE DEF new, u
  <2>4. \A r \in rows : r.id < nextId /\ r.id \in Nat /\ ~(r.user = u /\ r.item = i)
    BY <1>0, <2>1 DEF IdsOK, TableOK, RowType, RowsOf, u
  <2>5. rows' = rows \union {new}
    BY <2>1 DEF new, u
  <2>6. nextId \in Nat \ {0} /\ nextId' = nextId + 1
    BY <1>0, <2>1 DEF TableOK
  <2>7. Unalike'
    BY <1>0, <2>3, <2>4, <2>5, <2>6 DEF TableOK, Unalike
  <2>8. TableOK'
    BY <1>0, <2>3, <2>5, <2>6, <2>7 DEF TableOK
  <2>9. IdsOK'
    BY <1>0, <2>1, <2>3, <2>4, <2>5, <2>6 DEF IdsOK, Live, u
  <2> QED
    BY <2>8, <2>9
<1>3. ASSUME rows' \subseteq rows, UNCHANGED nextId, \A r \in rows' : role'[r.user] = role[r.user]
      PROVE  TableOK' /\ IdsOK'
  <2>1. TableOK'
    BY <1>0, <1>3 DEF TableOK, Unalike
  <2>2. IdsOK'
    BY <1>0, <1>3 DEF IdsOK, Live
  <2> QED
    BY <2>1, <2>2
<1>4. ASSUME NEW h \in Handlers, Erases(h) PROVE TableOK' /\ IdsOK'
  BY <1>3, <1>4 DEF Erases
<1>5. ASSUME NEW u \in Users, Drops(u) PROVE TableOK' /\ IdsOK'
  <2>1. \A r \in rows' : r.user # u
    BY <1>5 DEF Drops, RowsOf
  <2>2. \A r \in rows' : role'[r.user] = role[r.user]
    BY <1>0, <1>5, <2>1 DEF Drops, TableOK, RowType, RolesOK
  <2> QED
    BY <1>3, <1>5, <2>2 DEF Drops
<1>6. ASSUME NEW h \in Handlers, Changes(h) PROVE TableOK' /\ IdsOK'
  <2> DEFINE r == hnd[h].row
  <2>1. PICK i \in Items :
          /\ hnd[h].pc = "update" /\ Touched(r) # {}
          /\ ~(\E q \in RowsOf(r.user) : q.item = i /\ q.id # r.id)
          /\ rows' = (rows \ Touched(r)) \union {[r EXCEPT !.item = i]}
          /\ UNCHANGED <<role, nextId>>
    BY <1>6 DEF Changes
  <2> DEFINE new == [r EXCEPT !.item = i]
  <2>2. r \in RowType
    BY <1>0, <2>1, RowOf
  <2> HIDE DEF r
  <2>3. new \in RowType /\ new.id = r.id /\ new.user = r.user /\ new.item = i
    BY <2>2 DEF RowType
  <2>4. rows' = (rows \ Touched(r)) \union {new}
    BY <2>1
  <2> HIDE DEF new
  <2>5. \A q \in rows \ Touched(r) : q.id # r.id /\ ~(q.user = r.user /\ q.item = i)
    BY <2>1 DEF Touched, RowsOf
  <2>6. Unalike'
    BY <1>0, <2>3, <2>4, <2>5 DEF TableOK, Unalike
  <2>7. TableOK'
    BY <1>0, <2>1, <2>3, <2>4, <2>6 DEF TableOK
  <2>8. PICK q \in rows : q.id = r.id
    BY <2>1 DEF Touched
  <2>9. q.user = r.user
    BY <1>0, <2>1, <2>8 DEF OwnedOK, r
  <2>10. new.id < nextId /\ Live(new.user)
    BY <1>0, <2>3, <2>8, <2>9 DEF IdsOK
  <2>11. IdsOK'
    BY <1>0, <2>1, <2>4, <2>10 DEF IdsOK, Live
  <2> QED
    BY <2>7, <2>11
<1>7. CASE Elsewhere
  BY <1>1, <1>7 DEF Elsewhere
<1>8. ASSUME NEW h \in Handlers, Moves(h) \/ Admits(h) \/ Limits(h) \/ Takes(h)
      PROVE  TableOK' /\ IdsOK'
  BY <1>1, <1>8 DEF Moves, Admits, Limits, Takes
<1>9. TypeOK
  BY DEF Inv
<1> QED
  BY <1>2, <1>4, <1>5, <1>6, <1>7, <1>8, <1>9, Kinds

\* The owner of a row that is read does not change.
LEMMA OwnedStep == ASSUME Inv, [Next]_vars PROVE OwnedOK'
<1>0. TypeOK /\ TableOK /\ HndOK /\ IdsOK /\ OwnedOK
  BY TypeParts DEF Inv
<1>1. SUFFICES ASSUME NEW k \in Handlers, hnd'[k].pc \in {"erase", "update"}
               PROVE  /\ hnd'[k].row.id < nextId' /\ hnd'[k].row.user = hnd'[k].user
                      /\ \A q \in rows' : q.id = hnd'[k].row.id => q.user = hnd'[k].row.user
  BY DEF OwnedOK
<1> DEFINE r == hnd[k].row
           Goal == /\ hnd'[k].row.id < nextId' /\ hnd'[k].row.user = hnd'[k].user
                   /\ \A q \in rows' : q.id = hnd'[k].row.id => q.user = hnd'[k].row.user
\* A handler that stays where it is: the rows of its id keep their owner.
<1>2. ASSUME hnd'[k] = hnd[k], nextId' >= nextId, nextId' \in Nat,
             \A q \in rows' : q.id = r.id => \E p \in rows : p.id = r.id /\ p.user = q.user
      PROVE  Goal
  <2>1. r \in RowType /\ hnd[k].pc \in {"erase", "update"}
    BY <1>0, <1>1, <1>2, RowOf
  <2>2. r.id < nextId /\ r.user = hnd[k].user /\ \A q \in rows : q.id = r.id => q.user = r.user
    BY <1>0, <2>1 DEF OwnedOK
  <2>3. r.id \in Nat /\ nextId \in Nat
    BY <1>0, <2>1 DEF RowType, TableOK
  <2>4. hnd'[k].row = r /\ hnd'[k].user = hnd[k].user
    BY <1>2
  <2> HIDE DEF r
  <2> QED
    BY <1>2, <2>2, <2>3, <2>4
\* A handler that has moved elsewhere is no such handler.
<1>3. ASSUME NEW h \in Handlers, Plainly(h) PROVE k # h /\ hnd'[k] = hnd[k]
  <2>1. PICK q \in Good : q.pc \in Plain /\ hnd' = [hnd EXCEPT ![h] = q]
    BY <1>3 DEF Plainly
  <2>2. hnd'[h] = q /\ \A l \in Handlers : l # h => hnd'[l] = hnd[l]
    BY <1>0, <2>1, Keeps
  <2> QED
    BY <1>1, <2>1, <2>2 DEF Plain
<1>4. nextId \in Nat
  BY <1>0 DEF TableOK
<1>5. CASE Elsewhere
  BY <1>2, <1>4, <1>5 DEF Elsewhere, Frame
<1>6. ASSUME NEW h \in Handlers, Moves(h) PROVE Goal
  BY <1>2, <1>3, <1>4, <1>6 DEF Moves, Frame
<1>7. ASSUME NEW h \in Handlers, Admits(h) \/ Limits(h) PROVE Goal
  <2>1. PICK q \in Good : q.pc \in {"insert", "count"} /\ hnd' = [hnd EXCEPT ![h] = q]
    BY <1>7 DEF Admits, Limits, Inserts
  <2>2. hnd'[h] = q /\ \A l \in Handlers : l # h => hnd'[l] = hnd[l]
    BY <1>0, <2>1, Keeps
  <2>3. k # h /\ hnd'[k] = hnd[k]
    BY <1>1, <2>1, <2>2
  <2>4. Frame
    BY <1>7 DEF Admits, Limits
  <2> QED
    BY <1>2, <1>4, <2>3, <2>4 DEF Frame
<1>8. ASSUME NEW h \in Handlers, Takes(h) PROVE Goal
  <2>1. PICK q \in Good, now \in rows :
          /\ q.pc \in {"erase", "update"} /\ q.row = now /\ q.user = now.user
          /\ hnd' = [hnd EXCEPT ![h] = q]
    BY <1>8 DEF Takes, Owns
  <2>2. hnd'[h] = q /\ \A l \in Handlers : l # h => hnd'[l] = hnd[l]
    BY <1>0, <2>1, Keeps
  <2>3. UNCHANGED <<rows, nextId>>
    BY <1>8 DEF Takes, Frame
  <2>4. CASE k = h
    <3>1. now.id < nextId
      BY <1>0 DEF IdsOK
    <3>2. \A p \in rows : p.id = now.id => p = now
      BY <1>0 DEF TableOK, Unalike
    <3> QED
      BY <2>1, <2>2, <2>3, <2>4, <3>1, <3>2
  <2>5. CASE k # h
    BY <1>2, <1>4, <2>2, <2>3, <2>5
  <2> QED
    BY <2>4, <2>5
<1>9. ASSUME NEW h \in Handlers, Adds(h) PROVE Goal
  <2>1. PICK i \in Items :
          rows' = rows \union {[id |-> nextId, user |-> hnd[h].user, item |-> i]} /\ nextId' = nextId + 1
    BY <1>9 DEF Adds
  <2>2. hnd'[k] = hnd[k]
    BY <1>3, <1>9 DEF Adds
  <2>3. r.id < nextId /\ r \in RowType
    BY <1>0, <1>1, <2>2, RowOf DEF OwnedOK
  <2>4. \A q \in rows' : q.id = r.id => q \in rows
    BY <2>1, <2>3, <1>4 DEF RowType
  <2> QED
    BY <1>2, <1>4, <2>1, <2>2, <2>4
<1>10. ASSUME NEW h \in Handlers, Erases(h) PROVE Goal
  BY <1>2, <1>3, <1>4, <1>10 DEF Erases
<1>11. ASSUME NEW h \in Handlers, Changes(h) PROVE Goal
  <2> DEFINE t == hnd[h].row
  <2>1. PICK i \in Items :
          /\ hnd[h].pc = "update" /\ Touched(t) # {}
          /\ rows' = (rows \ Touched(t)) \union {[t EXCEPT !.item = i]}
          /\ UNCHANGED nextId
    BY <1>11 DEF Changes
  <2>2. hnd'[k] = hnd[k]
    BY <1>3, <1>11 DEF Changes
  <2>3. t \in RowType
    BY <1>0, <2>1, RowOf
  <2>4. PICK p \in rows : p.id = t.id
    BY <2>1 DEF Touched
  <2>5. p.user = t.user
    BY <1>0, <2>1, <2>4 DEF OwnedOK
  <2> DEFINE new == [t EXCEPT !.item = i]
  <2> HIDE DEF t
  <2>6. new.id = t.id /\ new.user = t.user
    BY <2>3 DEF RowType
  <2>7. rows' = (rows \ Touched(t)) \union {new}
    BY <2>1
  <2> HIDE DEF new
  <2>8. \A q \in rows' : q.id = r.id => \E o \in rows : o.id = r.id /\ o.user = q.user
    BY <2>4, <2>5, <2>6, <2>7
  <2> QED
    BY <1>2, <1>4, <2>1, <2>2, <2>8
<1>12. ASSUME NEW u \in Users, Drops(u) PROVE Goal
  BY <1>2, <1>4, <1>12 DEF Drops
<1> QED
  BY <1>0, <1>5, <1>6, <1>7, <1>8, <1>9, <1>10, <1>11, <1>12, Kinds

\* It holds to begin with.
LEMMA InitInv == Init => Inv
<1> SUFFICES ASSUME Init PROVE Inv
  OBVIOUS
<1>1. RolesOK
  BY CommandsAssumption DEF Init, RolesOK
<1>2. TableOK
  BY DEF Init, TableOK, Unalike
<1>3. HndOK
  BY IdleGood DEF Init, HndOK
<1>4. StatsOK
  <2>1. <<>> \in Seq(Steps)
    BY EmptySeq
  <2> QED
    BY <2>1 DEF Init, StatsOK
<1>5. HistOK /\ PeakOK
  BY DEF Init, HistOK, PeakOK
<1>6. TypeOK
  BY <1>1, <1>2, <1>3, <1>4, <1>5, TypeParts
<1>7. IdsOK
  BY DEF Init, IdsOK
<1>8. OwnedOK
  BY IdleGood DEF Init, OwnedOK
<1> QED
  BY <1>6, <1>7, <1>8 DEF Inv

\* Every step keeps it.
LEMMA StepInv == Inv /\ [Next]_vars => Inv'
<1> SUFFICES ASSUME Inv, [Next]_vars PROVE Inv'
  OBVIOUS
<1>0. TypeOK /\ RolesOK
  BY TypeParts DEF Inv
<1>1. RolesOK' /\ TableOK' /\ HndOK' /\ StatsOK' /\ HistOK' /\ PeakOK'
  BY <1>0, RolesStep, TableStep, HndStep, StatsStep, HistStep, PeakStep DEF Grows
<1>2. TypeOK'
  BY <1>1, TypeParts, PTL
<1> QED
  BY <1>2, TableStep, OwnedStep DEF Inv

\* Every reachable state is well typed: the rows keep their constraints, and a request
\* has at each statement what it needs, whatever else runs.
THEOREM TypeCorrect == Spec => []TypeOK
<1>1. Inv => TypeOK
  BY DEF Inv
<1> QED
  BY <1>1, InitInv, StepInv, PTL DEF Spec

\* The rows that go or change.
OwnStepOK ==
  /\ \A r \in rows \ rows' :
       \/ role'[r.user] = Gone
       \/ \E h \in Handlers : /\ hnd[h].pc \in {"erase", "update"} /\ hnd[h].row.id = r.id
                              /\ hnd[h].user = r.user /\ hnd'[h] # hnd[h]
  /\ \A r \in rows' \ rows : Live(r.user)

\* A statement that names an id changes the row of the user it was compared with.
LEMMA OwnRowsStep == ASSUME Inv, [Next]_vars PROVE OwnStepOK
<1>0. TypeOK /\ TableOK /\ HndOK /\ RolesOK /\ IdsOK /\ OwnedOK
  BY TypeParts DEF Inv
<1>1. CASE UNCHANGED rows
  BY <1>1 DEF OwnStepOK
<1>2. ASSUME NEW h \in Handlers, Adds(h) PROVE OwnStepOK
  <2> DEFINE u == hnd[h].user
  <2>1. PICK i \in Items :
          Live(u) /\ rows' = rows \union {[id |-> nextId, user |-> u, item |-> i]}
    BY <1>2 DEF Adds
  <2>2. \A r \in rows' \ rows : r.user = u
    BY <2>1
  <2> QED
    BY <2>1, <2>2 DEF OwnStepOK
\* The handler leaves its statement, and what it touches is its user's.
<1>3. ASSUME NEW h \in Handlers, hnd[h].pc \in {"erase", "update"}, Plainly(h),
             NEW r \in rows, r \in Touched(hnd[h].row)
      PROVE  /\ hnd[h].row.id = r.id /\ hnd[h].user = r.user /\ hnd'[h] # hnd[h]
  <2>1. PICK q \in Good : q.pc \in Plain /\ hnd' = [hnd EXCEPT ![h] = q]
    BY <1>3 DEF Plainly
  <2>2. hnd'[h] = q
    BY <1>0, <2>1, Keeps
  <2>3. hnd'[h] # hnd[h]
    BY <1>3, <2>1, <2>2 DEF Plain
  <2> QED
    BY <1>0, <1>3, <2>3 DEF OwnedOK, Touched
<1>4. ASSUME NEW h \in Handlers, Erases(h) PROVE OwnStepOK
  BY <1>3, <1>4 DEF Erases, OwnStepOK
<1>5. ASSUME NEW h \in Handlers, Changes(h) PROVE OwnStepOK
  <2> DEFINE t == hnd[h].row
  <2>1. PICK i \in Items :
          /\ hnd[h].pc = "update" /\ Touched(t) # {} /\ Plainly(h)
          /\ rows' = (rows \ Touched(t)) \union {[t EXCEPT !.item = i]}
    BY <1>5 DEF Changes
  <2>2. t \in RowType
    BY <1>0, <2>1, RowOf
  <2>3. PICK p \in rows : p.id = t.id
    BY <2>1 DEF Touched
  <2>4. Live(t.user)
    BY <1>0, <2>1, <2>3 DEF OwnedOK, IdsOK
  <2>5. \A r \in rows' \ rows : r.user = t.user
    <3> HIDE DEF t
    <3> QED
      BY <2>1, <2>2 DEF RowType
  <2>6. \A r \in rows \ rows' : r \in Touched(t)
    BY <2>1
  <2> QED
    BY <1>3, <2>1, <2>4, <2>5, <2>6 DEF OwnStepOK
<1>6. ASSUME NEW u \in Users, Drops(u) PROVE OwnStepOK
  <2>1. role'[u] = Gone
    BY <1>0, <1>6 DEF Drops, RolesOK
  <2> QED
    BY <1>6, <2>1 DEF Drops, OwnStepOK, RowsOf
<1> QED
  BY <1>0, <1>1, <1>2, <1>4, <1>5, <1>6, Kinds DEF Elsewhere, Moves, Admits, Limits, Takes, Frame

\* DELETE and UPDATE by id never touch the row of another account, for any number of
\* requests between the look at the row and the statement (subscription.go:310-400).
THEOREM NobodyElsesRow == Spec => OwnRowsOnly
<1>1. Inv /\ [Next]_vars => [OwnStepOK]_vars
  BY OwnRowsStep
<1>2. Spec => [][OwnStepOK]_vars
  BY <1>1, InitInv, StepInv, PTL DEF Spec
<1>3. OwnRowsOnly <=> [][OwnStepOK]_vars
  BY DEF OwnRowsOnly, OwnStepOK
<1> QED
  BY <1>2, <1>3

(***************************************************************************)
(* The limit.  A request that is about to insert counts with the rows: it  *)
(* has seen fewer rows than its limit, and at most the other handlers have *)
(* been let pass since.                                                    *)
(***************************************************************************)
At(u) == {h \in Handlers : hnd[h].pc = "insert" /\ hnd[h].user = u}

\* The limit a handler compares with is one the user was checked against.
LimitKnown == \A h \in Handlers :
  hnd[h].pc = "count" => peak[hnd[h].user] < 0 \/ hnd[h].max <= peak[hnd[h].user]

Finite == IsFiniteSet(rows)

Held(u) == \/ peak[u] < 0
           \/ Cardinality(RowsOf(u)) + Cardinality(At(u)) <= peak[u] + Cardinality(Handlers) - 1

QuotaInv == Finite /\ LimitKnown /\ \A u \in Users : Held(u)

\* Sets that are counted are finite.
LEMMA Counting ==
  ASSUME Finite, NEW u
  PROVE  /\ IsFiniteSet(RowsOf(u)) /\ Cardinality(RowsOf(u)) \in Nat
         /\ IsFiniteSet(At(u)) /\ Cardinality(At(u)) \in Nat
         /\ Cardinality(At(u)) <= Cardinality(Handlers) /\ Cardinality(Handlers) \in Nat \ {0}
<1>1. RowsOf(u) \subseteq rows /\ At(u) \subseteq Handlers
  BY DEF RowsOf, At
<1>2. IsFiniteSet(Handlers) /\ Handlers # {}
  BY CommandsAssumption
<1>3. IsFiniteSet(RowsOf(u)) /\ IsFiniteSet(At(u)) /\ Cardinality(At(u)) <= Cardinality(Handlers)
  BY <1>1, <1>2, FS_Subset DEF Finite
<1>4. Cardinality(Handlers) \in Nat /\ Cardinality(Handlers) # 0
  BY <1>2, FS_CardinalityType, FS_EmptySet
<1> QED
  BY <1>3, <1>4, FS_CardinalityType

\* It holds to begin with.
LEMMA InitQuota == Init => QuotaInv
<1> SUFFICES ASSUME Init PROVE QuotaInv
  OBVIOUS
<1>1. Finite
  BY FS_EmptySet DEF Init, Finite
<1>2. LimitKnown
  BY IdleGood DEF Init, LimitKnown
<1>3. ASSUME NEW u \in Users PROVE Held(u)
  <2>1. RowsOf(u) = {} /\ At(u) = {} /\ peak[u] = 0
    BY IdleGood, <1>3 DEF Init, RowsOf, At
  <2>2. Cardinality(RowsOf(u)) = 0 /\ Cardinality(At(u)) = 0
    BY <2>1, FS_EmptySet
  <2>3. Cardinality(Handlers) \in Nat \ {0}
    BY <1>1, Counting
  <2> QED
    BY <2>1, <2>2, <2>3 DEF Held
<1> QED
  BY <1>1, <1>2, <1>3 DEF QuotaInv

\* No more rows, and no more handlers about to insert: the limit is kept.
LEMMA NoMore ==
  ASSUME Finite, PeakOK, Grows, NEW u \in Users, Held(u),
         RowsOf(u)' \subseteq RowsOf(u), At(u)' \subseteq At(u)
  PROVE  Held(u)'
<1>1. Cardinality(RowsOf(u)') <= Cardinality(RowsOf(u)) /\ Cardinality(At(u)') <= Cardinality(At(u))
  BY Counting, FS_Subset
<1>2. Cardinality(RowsOf(u)') \in Nat /\ Cardinality(At(u)') \in Nat
  <2>1. IsFiniteSet(RowsOf(u)') /\ IsFiniteSet(At(u)')
    BY Counting, FS_Subset
  <2> QED
    BY <2>1, FS_CardinalityType
<1>3. peak[u] \in Int /\ peak'[u] \in Int /\ (peak'[u] < 0 \/ (peak[u] >= 0 /\ peak'[u] >= peak[u]))
  BY DEF PeakOK, Grows
<1>4. CASE peak'[u] < 0
  BY <1>4 DEF Held
<1>5. CASE ~(peak'[u] < 0)
  <2>1. Cardinality(RowsOf(u)) + Cardinality(At(u)) <= peak[u] + Cardinality(Handlers) - 1
    BY <1>3, <1>5 DEF Held
  <2>2. Cardinality(RowsOf(u)') + Cardinality(At(u)') <= peak'[u] + Cardinality(Handlers) - 1
    BY <1>1, <1>2, <1>3, <1>5, <2>1, Counting
  <2> QED
    BY <2>2 DEF Held
<1> QED
  BY <1>4, <1>5

\* A handler that goes elsewhere is not about to insert.
LEMMA PlainAt ==
  ASSUME HndOK, NEW h \in Handlers, Plainly(h), NEW u
  PROVE  At(u)' \subseteq At(u) \ {h}
<1>1. PICK q \in Good : q.pc \in Plain /\ hnd' = [hnd EXCEPT ![h] = q]
  BY DEF Plainly
<1>2. hnd'[h] = q /\ \A k \in Handlers : k # h => hnd'[k] = hnd[k]
  BY <1>1, Keeps
<1> QED
  BY <1>1, <1>2 DEF At, Plain

\* ... and knows no limit.
LEMMA PlainKnown ==
  ASSUME HndOK, PeakOK, Grows, LimitKnown, NEW h \in Handlers, NEW q \in Good,
         hnd' = [hnd EXCEPT ![h] = q],
         q.pc = "count" => peak'[q.user] < 0 \/ q.max <= peak'[q.user]
  PROVE  LimitKnown'
<1>1. hnd'[h] = q /\ \A k \in Handlers : k # h => hnd'[k] = hnd[k]
  BY Keeps
<1>2. ASSUME NEW k \in Handlers, k # h, hnd[k].pc = "count"
      PROVE  peak'[hnd[k].user] < 0 \/ hnd[k].max <= peak'[hnd[k].user]
  <2>1. hnd[k].user \in Users /\ hnd[k].max \in Int
    BY <1>2, Hnd DEF Good, HasWhatItNeeds, Request
  <2>2. /\ peak[hnd[k].user] \in Int /\ peak'[hnd[k].user] \in Int
        /\ \/ peak'[hnd[k].user] < 0
           \/ peak[hnd[k].user] >= 0 /\ peak'[hnd[k].user] >= peak[hnd[k].user]
    BY <2>1 DEF PeakOK, Grows
  <2> QED
    BY <1>2, <2>1, <2>2 DEF LimitKnown
<1> QED
  BY <1>1, <1>2 DEF LimitKnown

\* A handler that is let pass.
LEMMA AdmitsHeld ==
  ASSUME Finite, HndOK, PeakOK, Grows, LimitKnown, NEW h \in Handlers, Admits(h),
         NEW u \in Users, Held(u)
  PROVE  Held(u)'
<1>1. PICK q \in Good : q.pc = "insert" /\ q.user = hnd[h].user /\ hnd' = [hnd EXCEPT ![h] = q]
  BY DEF Admits, Inserts
<1>2. hnd'[h] = q /\ \A k \in Handlers : k # h => hnd'[k] = hnd[k]
  BY <1>1, Keeps
<1>3. RowsOf(u)' = RowsOf(u)
  BY DEF Admits, Frame, RowsOf
<1>4. CASE u # hnd[h].user
  <2>1. At(u)' \subseteq At(u)
    BY <1>1, <1>2, <1>4 DEF At
  <2> QED
    BY <1>3, <2>1, NoMore
<1>5. CASE u = hnd[h].user /\ peak'[u] < 0
  BY <1>5 DEF Held
<1>6. CASE u = hnd[h].user /\ ~(peak'[u] < 0)
  <2>1. hnd[h].pc = "count" /\ UNCHANGED peak /\ ~(Cardinality(RowsOf(u)) >= hnd[h].max)
    BY <1>6 DEF Admits
  <2>2. hnd[h].max <= peak[u] /\ hnd[h].max \in Int /\ peak[u] \in Int
    <3>1. hnd[h].max \in Int
      BY Hnd DEF Request
    <3> QED
      BY <1>6, <2>1, <3>1 DEF LimitKnown, PeakOK
  <2>3. At(u)' \subseteq Handlers
    BY DEF At
  <2>4. IsFiniteSet(At(u)') /\ Cardinality(At(u)') <= Cardinality(Handlers)
    BY <2>3, CommandsAssumption, FS_Subset
  <2>5. Cardinality(At(u)') \in Nat
    BY <2>4, FS_CardinalityType
  <2>6. Cardinality(RowsOf(u)) \in Nat /\ Cardinality(Handlers) \in Nat
    BY Counting
  <2>7. Cardinality(RowsOf(u)') + Cardinality(At(u)') <= peak'[u] + Cardinality(Handlers) - 1
    BY <1>3, <2>1, <2>2, <2>4, <2>5, <2>6
  <2> QED
    BY <2>7 DEF Held
<1> QED
  BY <1>4, <1>5, <1>6

\* One element more.
LEMMA OneMore ==
  ASSUME NEW S, NEW x, IsFiniteSet(S)
  PROVE  IsFiniteSet(S \union {x}) /\ Cardinality(S \union {x}) <= Cardinality(S) + 1
<1>1. Cardinality(S) \in Nat
  BY FS_CardinalityType
<1>2. IsFiniteSet(S \union {x})
  BY FS_AddElement
<1>3. CASE x \in S
  <2>1. Cardinality(S \union {x}) = Cardinality(S)
    BY <1>3, FS_AddElement
  <2> QED
    BY <1>1, <1>2, <2>1
<1>4. CASE x \notin S
  <2>1. Cardinality(S \union {x}) = Cardinality(S) + 1
    BY <1>4, FS_AddElement
  <2> QED
    BY <1>1, <1>2, <2>1
<1> QED
  BY <1>3, <1>4

\* A row that is added was counted as a handler about to insert it.
LEMMA AddsHeld ==
  ASSUME Finite, HndOK, PeakOK, Grows, NEW h \in Handlers, Adds(h), NEW u \in Users, Held(u)
  PROVE  Held(u)'
<1> DEFINE v == hnd[h].user
<1>1. PICK i \in Items :
        hnd[h].pc = "insert" /\ rows' = rows \union {[id |-> nextId, user |-> v, item |-> i]}
  BY DEF Adds
<1> DEFINE new == [id |-> nextId, user |-> v, item |-> i]
<1>2. new.user = v
  OBVIOUS
<1>3. At(u)' \subseteq At(u) \ {h}
  BY PlainAt DEF Adds
<1>4. CASE u # v
  <2>1. RowsOf(u)' \subseteq RowsOf(u)
    <3> HIDE DEF new
    <3> QED
      BY <1>1, <1>2, <1>4 DEF RowsOf, new
  <2> QED
    BY <1>3, <2>1, NoMore
<1>5. CASE u = v
  <2>1. RowsOf(u)' \subseteq RowsOf(u) \union {new}
    BY <1>1 DEF RowsOf
  <2> HIDE DEF new
  <2>2. IsFiniteSet(RowsOf(u) \union {new})
        /\ Cardinality(RowsOf(u) \union {new}) <= Cardinality(RowsOf(u)) + 1
    BY Counting, OneMore
  <2>3. IsFiniteSet(RowsOf(u)') /\ Cardinality(RowsOf(u)') <= Cardinality(RowsOf(u) \union {new})
    BY <2>1, <2>2, FS_Subset
  <2>4. h \in At(u)
    BY <1>1, <1>5 DEF At
  <2>5. IsFiniteSet(At(u) \ {h}) /\ Cardinality(At(u) \ {h}) = Cardinality(At(u)) - 1
    BY <2>4, Counting, FS_RemoveElement
  <2>6. IsFiniteSet(At(u)') /\ Cardinality(At(u)') <= Cardinality(At(u) \ {h})
    BY <1>3, <2>5, FS_Subset
  <2>7. /\ Cardinality(RowsOf(u)') \in Nat /\ Cardinality(At(u)') \in Nat
        /\ Cardinality(RowsOf(u) \union {new}) \in Nat
    BY <2>2, <2>3, <2>6, FS_CardinalityType
  <2>8. Cardinality(RowsOf(u)') + Cardinality(At(u)') <= Cardinality(RowsOf(u)) + Cardinality(At(u))
    BY <2>2, <2>3, <2>5, <2>6, <2>7, Counting
  <2>9. peak[u] \in Int /\ peak'[u] \in Int /\ (peak'[u] < 0 \/ (peak[u] >= 0 /\ peak'[u] >= peak[u]))
    BY DEF PeakOK, Grows
  <2>10. CASE peak'[u] < 0
    BY <2>10 DEF Held
  <2>11. CASE ~(peak'[u] < 0)
    <3>1. Cardinality(RowsOf(u)) + Cardinality(At(u)) <= peak[u] + Cardinality(Handlers) - 1
      BY <2>9, <2>11 DEF Held
    <3>2. Cardinality(RowsOf(u)') + Cardinality(At(u)') <= peak'[u] + Cardinality(Handlers) - 1
      BY <2>7, <2>8, <2>9, <2>11, <3>1, Counting
    <3> QED
      BY <3>2 DEF Held
  <2> QED
    BY <2>10, <2>11
<1> QED
  BY <1>4, <1>5

\* A row that changes stays one row of its user.
LEMMA ChangesHeld ==
  ASSUME Inv, Finite, Grows, NEW h \in Handlers, Changes(h), NEW u \in Users, Held(u)
  PROVE  Held(u)'
<1>0. TableOK /\ HndOK /\ PeakOK /\ OwnedOK
  BY TypeParts DEF Inv
<1> DEFINE t == hnd[h].row
<1>1. PICK i \in Items :
        /\ hnd[h].pc = "update" /\ Touched(t) # {}
        /\ rows' = (rows \ Touched(t)) \union {[t EXCEPT !.item = i]}
  BY DEF Changes
<1> DEFINE new == [t EXCEPT !.item = i]
<1>2. t \in RowType
  BY <1>0, <1>1, RowOf
<1>3. PICK p \in rows : p.id = t.id
  BY <1>1 DEF Touched
<1>4. p.user = t.user
  BY <1>0, <1>1, <1>3 DEF OwnedOK
<1> HIDE DEF t
<1>5. new.user = t.user
  BY <1>2 DEF RowType
<1>6. rows' = (rows \ Touched(t)) \union {new}
  BY <1>1
<1> HIDE DEF new
<1>7. At(u)' \subseteq At(u)
  BY <1>0, PlainAt DEF Changes
<1>8. CASE u # t.user
  <2>1. RowsOf(u)' \subseteq RowsOf(u)
    BY <1>5, <1>6, <1>8 DEF RowsOf
  <2> QED
    BY <1>0, <1>7, <2>1, NoMore
<1>9. CASE u = t.user
  <2>1. p \in RowsOf(u)
    BY <1>4, <1>9 DEF RowsOf
  <2>2. RowsOf(u)' \subseteq (RowsOf(u) \ {p}) \union {new}
    BY <1>3, <1>6 DEF RowsOf, Touched
  <2>3. IsFiniteSet(RowsOf(u) \ {p}) /\ Cardinality(RowsOf(u) \ {p}) = Cardinality(RowsOf(u)) - 1
    BY <2>1, Counting, FS_RemoveElement
  <2>4. /\ IsFiniteSet((RowsOf(u) \ {p}) \union {new})
        /\ Cardinality((RowsOf(u) \ {p}) \union {new}) <= Cardinality(RowsOf(u) \ {p}) + 1
    BY <2>3, OneMore
  <2>5. /\ IsFiniteSet(RowsOf(u)')
        /\ Cardinality(RowsOf(u)') <= Cardinality((RowsOf(u) \ {p}) \union {new})
    BY <2>2, <2>4, FS_Subset
  <2>6. IsFiniteSet(At(u)') /\ Cardinality(At(u)') <= Cardinality(At(u))
    BY <1>7, Counting, FS_Subset
  <2>7. /\ Cardinality(RowsOf(u)') \in Nat /\ Cardinality(At(u)') \in Nat
        /\ Cardinality((RowsOf(u) \ {p}) \union {new}) \in Nat
        /\ Cardinality(RowsOf(u) \ {p}) \in Nat
    BY <2>3, <2>4, <2>5, <2>6, FS_CardinalityType
  <2>8. Cardinality(RowsOf(u)') <= Cardinality(RowsOf(u))
    BY <2>3, <2>4, <2>5, <2>7, Counting
  <2>9. peak[u] \in Int /\ peak'[u] \in Int /\ (peak'[u] < 0 \/ (peak[u] >= 0 /\ peak'[u] >= peak[u]))
    BY <1>0 DEF PeakOK, Grows
  <2>10. CASE peak'[u] < 0
    BY <2>10 DEF Held
  <2>11. CASE ~(peak'[u] < 0)
    <3>1. Cardinality(RowsOf(u)) + Cardinality(At(u)) <= peak[u] + Cardinality(Handlers) - 1
      BY <2>9, <2>11 DEF Held
    <3>2. Cardinality(RowsOf(u)') + Cardinality(At(u)') <= peak'[u] + Cardinality(Handlers) - 1
      BY <2>6, <2>7, <2>8, <2>9, <2>11, <3>1, Counting
    <3> QED
      BY <3>2 DEF Held
  <2> QED
    BY <2>10, <2>11
<1> QED
  BY <1>8, <1>9

\* Every step keeps the limit.
LEMMA StepQuota == ASSUME Inv, QuotaInv, [Next]_vars PROVE QuotaInv'
<1>0. TypeOK /\ TableOK /\ HndOK /\ PeakOK /\ Grows /\ Finite /\ LimitKnown
  BY TypeParts, PeakStep DEF Inv, QuotaInv
<1>1. Finite'
  <2>1. \E x : rows' \subseteq rows \union {x}
    <3>1. CASE UNCHANGED rows
      BY <3>1
    <3>2. ASSUME NEW h \in Handlers, Adds(h) PROVE \E x : rows' \subseteq rows \union {x}
      BY <3>2 DEF Adds
    <3>3. ASSUME NEW h \in Handlers, Erases(h) PROVE \E x : rows' \subseteq rows \union {x}
      BY <3>3 DEF Erases
    <3>4. ASSUME NEW h \in Handlers, Changes(h) PROVE \E x : rows' \subseteq rows \union {x}
      BY <3>4 DEF Changes
    <3>5. ASSUME NEW u \in Users, Drops(u) PROVE \E x : rows' \subseteq rows \union {x}
      BY <3>5 DEF Drops
    <3> QED
      BY <1>0, <3>1, <3>2, <3>3, <3>4, <3>5, Kinds DEF Elsewhere, Moves, Admits, Limits, Takes, Frame
  <2>2. PICK x : rows' \subseteq rows \union {x}
    BY <2>1
  <2>3. IsFiniteSet(rows \union {x})
    BY <1>0, FS_AddElement DEF Finite
  <2> QED
    BY <2>2, <2>3, FS_Subset DEF Finite
<1>2. LimitKnown'
  <2>1. CASE UNCHANGED hnd
    <3>1. ASSUME NEW h \in Handlers, hnd[h].pc = "count"
          PROVE  peak'[hnd[h].user] < 0 \/ hnd[h].max <= peak'[hnd[h].user]
      <4>1. hnd[h].user \in Users /\ hnd[h].max \in Int
        BY <1>0, <3>1, Hnd DEF Good, HasWhatItNeeds, Request
      <4>2. /\ peak[hnd[h].user] \in Int /\ peak'[hnd[h].user] \in Int
            /\ \/ peak'[hnd[h].user] < 0
               \/ peak[hnd[h].user] >= 0 /\ peak'[hnd[h].user] >= peak[hnd[h].user]
        BY <1>0, <4>1 DEF PeakOK, Grows
      <4> QED
        BY <1>0, <3>1, <4>1, <4>2 DEF LimitKnown
    <3> QED
      BY <2>1, <3>1 DEF LimitKnown
  <2>2. ASSUME NEW h \in Handlers, NEW q \in Good, hnd' = [hnd EXCEPT ![h] = q],
               q.pc = "count" => peak'[q.user] < 0 \/ q.max <= peak'[q.user]
        PROVE  LimitKnown'
    BY <1>0, <2>2, PlainKnown
  <2>3. ASSUME NEW h \in Handlers,
               \/ Moves(h) \/ Admits(h) \/ Limits(h) \/ Takes(h)
               \/ Adds(h) \/ Erases(h) \/ Changes(h)
        PROVE  \E q \in Good : /\ hnd' = [hnd EXCEPT ![h] = q]
                               /\ q.pc = "count" => peak'[q.user] < 0 \/ q.max <= peak'[q.user]
    BY <2>3 DEF Moves, Admits, Limits, Takes, Adds, Erases, Changes, Plainly, Plain, Inserts, Owns
  <2> QED
    BY <1>0, <2>1, <2>2, <2>3, Kinds DEF Elsewhere, Drops
<1>3. ASSUME NEW u \in Users PROVE Held(u)'
  <2>1. Held(u)
    BY DEF QuotaInv
  <2>2. CASE Elsewhere
    <3>1. RowsOf(u)' = RowsOf(u) /\ At(u)' = At(u)
      BY <2>2 DEF Elsewhere, Frame, RowsOf, At
    <3> QED
      BY <1>0, <2>1, <3>1, NoMore
  <2>3. ASSUME NEW h \in Handlers, Moves(h) PROVE Held(u)'
    <3>1. RowsOf(u)' = RowsOf(u)
      BY <2>3 DEF Moves, Frame, RowsOf
    <3>2. At(u)' \subseteq At(u)
      BY <1>0, <2>3, PlainAt DEF Moves
    <3> QED
      BY <1>0, <2>1, <3>1, <3>2, NoMore
  <2>4. ASSUME NEW h \in Handlers, Limits(h) \/ Takes(h) PROVE Held(u)'
    <3>1. RowsOf(u)' = RowsOf(u)
      BY <2>4 DEF Limits, Takes, Frame, RowsOf
    <3>2. PICK q \in Good : q.pc # "insert" /\ hnd' = [hnd EXCEPT ![h] = q]
      BY <2>4 DEF Limits, Takes, Owns
    <3>3. hnd'[h] = q /\ \A k \in Handlers : k # h => hnd'[k] = hnd[k]
      BY <1>0, <3>2, Keeps
    <3>4. At(u)' \subseteq At(u)
      BY <3>2, <3>3 DEF At
    <3> QED
      BY <1>0, <2>1, <3>1, <3>4, NoMore
  <2>5. ASSUME NEW h \in Handlers, Erases(h) PROVE Held(u)'
    <3>1. RowsOf(u)' \subseteq RowsOf(u)
      BY <2>5 DEF Erases, RowsOf
    <3>2. At(u)' \subseteq At(u)
      BY <1>0, <2>5, PlainAt DEF Erases
    <3> QED
      BY <1>0, <2>1, <3>1, <3>2, NoMore
  <2>6. ASSUME NEW v \in Users, Drops(v) PROVE Held(u)'
    <3>1. RowsOf(u)' \subseteq RowsOf(u)
      BY <2>6 DEF Drops, RowsOf
    <3>2. At(u)' = At(u)
      BY <2>6 DEF Drops, At
    <3> QED
      BY <1>0, <2>1, <3>1, <3>2, NoMore
  <2> QED
    BY <1>0, <2>1, <2>2, <2>3, <2>4, <2>5, <2>6, AdmitsHeld, AddsHeld, ChangesHeld, Kinds
<1> QED
  BY <1>1, <1>2, <1>3 DEF QuotaInv

\* The highest limit a user was checked against is exceeded by less than the number of
\* requests that run at once, for any number of commands, items and changes of roles,
\* limits and rows in between (subscription.go:134-151).
THEOREM LimitHolds == Spec => []QuotaLaw
<1>1. Inv /\ QuotaInv => QuotaLaw
  <2> SUFFICES ASSUME Inv, QuotaInv, NEW u \in Users, ~(peak[u] < 0)
               PROVE  Cardinality(RowsOf(u)) <= peak[u] + Cardinality(Handlers) - 1
    BY DEF QuotaLaw
  <2>1. Cardinality(RowsOf(u)) + Cardinality(At(u)) <= peak[u] + Cardinality(Handlers) - 1
    BY DEF QuotaInv, Held
  <2>2. peak[u] \in Int
    BY TypeParts DEF Inv, PeakOK
  <2> QED
    BY <2>1, <2>2, Counting DEF QuotaInv
<1>2. Inv /\ QuotaInv /\ [Next]_vars => (Inv /\ QuotaInv)'
  BY StepInv, StepQuota
<1> QED
  BY <1>1, <1>2, InitInv, InitQuota, PTL DEF Spec

(***************************************************************************)
(* The ranking.  What a row and the statistics of its values owe each      *)
(* other is in the batches: each holds a value once, and its decrements    *)
(* come first.                                                             *)
(***************************************************************************)
\* No subscription names a value twice.
Unrepeated == \A i \in Items : \A j, k \in DOMAIN ValuesOf[i] :
  ValuesOf[i][j] = ValuesOf[i][k] => j = k

\* The steps of a batch are different ones, those that count down before those that
\* count up.
InOrder(seq) ==
  /\ \A j, k \in 1..Len(seq) : seq[j] = seq[k] => j = k
  /\ \E m \in 0..Len(seq) : \A k \in 1..Len(seq) : seq[k].up <=> k > m

Busy == {w \in Workers : bg[w] # <<>>}

BatchesOK == IsFiniteSet(Busy) /\ \A w \in Workers : InOrder(bg[w])

\* Rows among these that count for a value.
Of(set, v) == {r \in set : v \in Range(ValuesOf[r.item])}

One(P) == IF P THEN 1 ELSE 0

\* What is left of a batch after its first step.
LEMMA TailInOrder ==
  ASSUME NEW seq \in Seq(Steps), seq # <<>>, InOrder(seq)
  PROVE  /\ InOrder(Tail(seq)) /\ Head(seq) \in Range(seq)
         /\ \A s : s \in Range(Tail(seq)) <=> s \in Range(seq) /\ s # Head(seq)
<1> DEFINE t == Tail(seq)
<1>1. /\ Len(seq) \in Nat \ {0} /\ DOMAIN seq = 1..Len(seq)
      /\ t \in Seq(Steps) /\ Len(t) = Len(seq) - 1 /\ DOMAIN t = 1..Len(t)
      /\ \A k \in 1..Len(t) : t[k] = seq[k + 1]
  <2>1. t \in Seq(Steps) /\ Len(t) = Len(seq) - 1 /\ \A k \in 1..Len(t) : t[k] = seq[k + 1]
    BY HeadTailProperties
  <2>2. Len(seq) \in Nat \ {0} /\ DOMAIN seq = 1..Len(seq)
    BY EmptySeq, LenProperties
  <2>3. DOMAIN t = 1..Len(t)
    BY <2>1, LenProperties
  <2> QED
    BY <2>1, <2>2, <2>3
<1>2. Head(seq) = seq[1]
  OBVIOUS
<1> HIDE DEF t
<1>3. \A k \in 1..Len(t) : k + 1 \in 1..Len(seq) /\ k + 1 # 1
  BY <1>1
<1>4. 1 \in 1..Len(seq)
  BY <1>1
<1>5. \A j, k \in 1..Len(t) : t[j] = t[k] => j = k
  <2> SUFFICES ASSUME NEW j \in 1..Len(t), NEW k \in 1..Len(t), t[j] = t[k] PROVE j = k
    OBVIOUS
  <2>1. j + 1 = k + 1
    BY <1>1, <1>3 DEF InOrder
  <2> QED
    BY <2>1
<1>6. \E m \in 0..Len(t) : \A k \in 1..Len(t) : t[k].up <=> k > m
  <2>1. PICK m \in 0..Len(seq) : \A k \in 1..Len(seq) : seq[k].up <=> k > m
    BY DEF InOrder
  <2>2. \A n \in 0..Len(t) : n = (IF m = 0 THEN 0 ELSE m - 1) =>
          \A k \in 1..Len(t) : t[k].up <=> k > n
    BY <1>1, <1>3, <2>1
  <2>3. (IF m = 0 THEN 0 ELSE m - 1) \in 0..Len(t)
    BY <1>1, <2>1
  <2> QED
    BY <2>2, <2>3
<1>7. ASSUME NEW s, s \in Range(t) PROVE s \in Range(seq) /\ s # Head(seq)
  <2>1. PICK k \in 1..Len(t) : s = t[k]
    BY <1>1, <1>7 DEF Range
  <2>2. s = seq[k + 1]
    BY <1>1, <2>1
  <2> QED
    BY <1>1, <1>2, <1>3, <1>4, <2>2 DEF Range, InOrder
<1>8. ASSUME NEW s, s \in Range(seq), s # Head(seq) PROVE s \in Range(t)
  <2>1. PICK k \in 1..Len(seq) : s = seq[k]
    BY <1>1, <1>8 DEF Range
  <2>2. k - 1 \in 1..Len(t) /\ (k - 1) + 1 = k
    BY <1>1, <1>2, <1>8, <2>1
  <2>3. t[k - 1] = s
    BY <1>1, <2>1, <2>2
  <2> QED
    BY <1>1, <2>2, <2>3 DEF Range
<1>9. Head(seq) \in Range(seq)
  BY <1>1, <1>2, <1>4 DEF Range
<1> QED
  BY <1>5, <1>6, <1>7, <1>8, <1>9 DEF InOrder, t

\* What is left of it after a failure: the steps of the other direction.
LEMMA RestInOrder ==
  ASSUME NEW seq \in Seq(Steps), seq # <<>>, InOrder(seq)
  PROVE  /\ InOrder(Rest(seq))
         /\ \A s : s \in Range(Rest(seq)) <=> s \in Range(seq) /\ s.up # Head(seq).up
         /\ \A s \in Range(seq) : s.up = Head(seq).up => s.v \in {seq[k].v : k \in Same(seq)}
<1> DEFINE n == Len(seq)
           rest == Rest(seq)
<1>1. n \in Nat \ {0} /\ DOMAIN seq = 1..n /\ \A k \in 1..n : seq[k] \in Steps
  <2>1. n \in Nat \ {0} /\ DOMAIN seq = 1..n
    BY EmptySeq, LenProperties
  <2>2. \A k \in 1..n : seq[k] \in Steps
    BY ElementOfSeq
  <2> QED
    BY <2>1, <2>2
<1>2. Head(seq) = seq[1] /\ 1 \in 1..n
  BY <1>1
<1>3. PICK m \in 0..n : \A k \in 1..n : seq[k].up <=> k > m
  BY DEF InOrder
<1> DEFINE c == IF m = 0 THEN n ELSE m
<1>4. c \in 1..n /\ \A k \in 1..n : seq[k].up = Head(seq).up <=> k <= c
  <2>1. \A k \in 1..n : seq[k].up \in BOOLEAN
    BY <1>1 DEF Steps
  <2>2. \A k \in 1..n : seq[k].up = seq[1].up <=> (k > m <=> 1 > m)
    BY <1>2, <1>3, <2>1
  <2>3. \A k \in 1..n : (k > m <=> 1 > m) <=> k <= c
    BY <1>1, <1>3
  <2> QED
    BY <1>1, <1>2, <1>3, <2>2, <2>3
<1> HIDE DEF c
<1>5. Same(seq) = 1..c
  BY <1>1, <1>4 DEF Same
<1>6. Cardinality(Same(seq)) = c
  BY <1>1, <1>4, <1>5, FS_Interval
<1>7. /\ rest \in Seq(Steps) /\ Len(rest) = n - c
      /\ \A k \in 1..n - c : rest[k] = seq[c + k]
  <2>1. rest = SubSeq(seq, c + 1, n)
    BY <1>6 DEF Rest
  <2>2. \A k \in c + 1 .. n : seq[k] \in Steps
    BY <1>1, <1>4
  <2>3. c \in Int /\ c + 1 \in Int /\ n \in Int /\ c <= n
    BY <1>1, <1>4
  <2>4. /\ rest \in Seq(Steps)
        /\ Len(rest) = IF c + 1 <= n THEN n - (c + 1) + 1 ELSE 0
        /\ \A k \in 1 .. n - (c + 1) + 1 : rest[k] = seq[(c + 1) + k - 1]
    BY <2>1, <2>2, <2>3, SubSeqProperties
  <2> HIDE DEF rest, n
  <2>5. Len(rest) = n - c
    BY <2>3, <2>4
  <2>6. n - (c + 1) + 1 = n - c /\ \A k \in 1..n - c : (c + 1) + k - 1 = c + k
    BY <2>3
  <2> QED
    BY <2>4, <2>5, <2>6
<1> HIDE DEF rest
<1>8. DOMAIN rest = 1..Len(rest)
  BY <1>7, LenProperties
<1>9. \A k \in 1..Len(rest) : c + k \in 1..n /\ rest[k] = seq[c + k] /\ ~(c + k <= c)
  BY <1>1, <1>4, <1>7
<1>10. InOrder(rest)
  <2>1. \A j, k \in 1..Len(rest) : rest[j] = rest[k] => c + j = c + k
    BY <1>9 DEF InOrder
  <2>2. ASSUME NEW j \in 1..Len(rest), NEW k \in 1..Len(rest), rest[j] = rest[k] PROVE j = k
    <3>1. c + j = c + k /\ c \in Int /\ j \in Int /\ k \in Int
      BY <1>4, <2>1, <2>2
    <3> QED
      BY <3>1
  <2>3. Len(rest) > 0 => m > 0 /\ m = c
    <3>1. Len(rest) = n - c
      BY <1>7
    <3> HIDE DEF n
    <3> QED
      BY <1>1, <3>1 DEF c
  <2>4. \A k \in 1..Len(rest) : rest[k].up
    BY <1>3, <1>4, <1>9, <2>3
  <2>5. 0 \in 0..Len(rest) /\ \A k \in 1..Len(rest) : k > 0
    BY <1>1, <1>4, <1>7
  <2> QED
    BY <2>2, <2>4, <2>5 DEF InOrder
<1>11. ASSUME NEW s, s \in Range(rest) PROVE s \in Range(seq) /\ s.up # Head(seq).up
  <2>1. PICK k \in 1..Len(rest) : s = rest[k]
    BY <1>8, <1>11 DEF Range
  <2>2. c + k \in 1..n /\ s = seq[c + k] /\ ~(c + k <= c)
    BY <1>9, <2>1
  <2> QED
    BY <1>1, <1>4, <2>2 DEF Range
<1>12. ASSUME NEW s, s \in Range(seq), s.up # Head(seq).up PROVE s \in Range(rest)
  <2>1. PICK k \in 1..n : s = seq[k]
    BY <1>1, <1>12 DEF Range
  <2>2. ~(k <= c)
    BY <1>4, <1>12, <2>1
  <2>3. k - c \in 1..Len(rest) /\ c + (k - c) = k
    BY <1>1, <1>4, <1>7, <2>2
  <2>4. rest[k - c] = s
    BY <1>9, <2>1, <2>3
  <2> QED
    BY <1>8, <2>3, <2>4 DEF Range
<1>13. ASSUME NEW s \in Range(seq), s.up = Head(seq).up
       PROVE  s.v \in {seq[k].v : k \in Same(seq)}
  <2>1. PICK k \in 1..n : s = seq[k]
    BY <1>1 DEF Range
  <2>2. k \in Same(seq)
    BY <1>1, <1>13, <2>1 DEF Same
  <2> QED
    BY <2>1, <2>2
<1> QED
  BY <1>10, <1>11, <1>12, <1>13 DEF rest

\* A batch for one row.
LEMMA BatchInOrder ==
  ASSUME Unrepeated, NEW up \in BOOLEAN, NEW i \in Items
  PROVE  /\ InOrder(Batch(up, i))
         /\ \A s : s \in Range(Batch(up, i)) <=> \E v \in Range(ValuesOf[i]) : s = Step(up, v)
         /\ \A s : s \in Range(Batch(up, i)) => s.up = up
<1>1. ValuesOf[i] \in Seq(Values) /\ Batch(up, i) \in Seq(Steps)
  BY CommandsAssumption, BatchType
<1> DEFINE n == Len(ValuesOf[i])
           b == Batch(up, i)
<1>2. n \in Nat /\ DOMAIN ValuesOf[i] = 1..n
  BY <1>1
<1>3. b = [k \in 1..n |-> Step(up, ValuesOf[i][k])]
  BY <1>2 DEF Batch
<1>4. DOMAIN b = 1..n /\ \A k \in 1..n : b[k] = Step(up, ValuesOf[i][k])
  BY <1>3
<1>5. Len(b) = n
  BY <1>1, <1>2, <1>4, LenProperties
<1> HIDE DEF b, n
<1>6. \A j, k \in 1..n : b[j] = b[k] => j = k
  <2>1. \A x, y : Step(up, x) = Step(up, y) => x = y
    BY DEF Step
  <2> QED
    BY <1>2, <1>4, <2>1 DEF Unrepeated
<1>7. \E m \in 0..n : \A k \in 1..n : b[k].up <=> k > m
  <2>1. \A k \in 1..n : b[k].up = up
    BY <1>4 DEF Step
  <2>2. CASE up = TRUE
    <3>1. 0 \in 0..n /\ \A k \in 1..n : k > 0
      BY <1>2
    <3>2. \A k \in 1..n : b[k].up
      BY <2>1, <2>2
    <3> QED
      BY <3>1, <3>2
  <2>3. CASE up = FALSE
    <3>1. n \in 0..n /\ \A k \in 1..n : ~(k > n)
      BY <1>2
    <3>2. \A k \in 1..n : ~b[k].up
      BY <2>1, <2>3
    <3> QED
      BY <3>1, <3>2
  <2> QED
    BY <2>2, <2>3
<1>8. InOrder(b)
  BY <1>5, <1>6, <1>7 DEF InOrder
<1>9. ASSUME NEW s PROVE s \in Range(b) <=> \E v \in Range(ValuesOf[i]) : s = Step(up, v)
  BY <1>2, <1>4 DEF Range
<1>10. ASSUME NEW s, s \in Range(b) PROVE s.up = up
  BY <1>9, <1>10 DEF Step
<1> QED
  BY <1>8, <1>9, <1>10 DEF b

\* A batch for a row that changes.
LEMMA ChangeInOrder ==
  ASSUME Unrepeated, NEW i \in Items, NEW j \in Items
  PROVE  /\ Batch(FALSE, i) \o Batch(TRUE, j) \in Seq(Steps)
         /\ InOrder(Batch(FALSE, i) \o Batch(TRUE, j))
         /\ \A s : s \in Range(Batch(FALSE, i) \o Batch(TRUE, j))
                     <=> s \in Range(Batch(FALSE, i)) \/ s \in Range(Batch(TRUE, j))
<1> DEFINE f == Batch(FALSE, i)
           g == Batch(TRUE, j)
           b == f \o g
<1>1. f \in Seq(Steps) /\ g \in Seq(Steps)
  BY BatchType
<1>2. InOrder(f) /\ InOrder(g)
  BY BatchInOrder
<1>3. /\ \A s : s \in Range(f) => s.up = FALSE
      /\ \A s : s \in Range(g) => s.up = TRUE
  BY BatchInOrder
<1> HIDE DEF f, g
<1>4. /\ Len(f) \in Nat /\ DOMAIN f = 1..Len(f)
      /\ Len(g) \in Nat /\ DOMAIN g = 1..Len(g)
  BY <1>1, LenProperties
<1>5. /\ b \in Seq(Steps) /\ Len(b) = Len(f) + Len(g)
      /\ \A k \in 1..Len(f) + Len(g) : b[k] = IF k <= Len(f) THEN f[k] ELSE g[k - Len(f)]
  BY <1>1, ConcatProperties
<1>6. DOMAIN b = 1..Len(b)
  BY <1>5, LenProperties
<1> HIDE DEF b
<1>7. ASSUME NEW k \in 1..Len(b)
      PROVE  \/ k \in 1..Len(f) /\ b[k] = f[k] /\ b[k].up = FALSE
             \/ k - Len(f) \in 1..Len(g) /\ b[k] = g[k - Len(f)] /\ b[k].up = TRUE
  <2>1. CASE k <= Len(f)
    <3>1. k \in 1..Len(f) /\ b[k] = f[k]
      BY <1>4, <1>5, <2>1
    <3> QED
      BY <1>3, <1>4, <3>1 DEF Range
  <2>2. CASE ~(k <= Len(f))
    <3>1. k - Len(f) \in 1..Len(g) /\ b[k] = g[k - Len(f)]
      BY <1>4, <1>5, <2>2
    <3> QED
      BY <1>3, <1>4, <3>1 DEF Range
  <2> QED
    BY <2>1, <2>2
<1>8. \A j1, k \in 1..Len(b) : b[j1] = b[k] => j1 = k
  <2> SUFFICES ASSUME NEW j1 \in 1..Len(b), NEW k \in 1..Len(b), b[j1] = b[k] PROVE j1 = k
    OBVIOUS
  <2>1. CASE j1 \in 1..Len(f) /\ b[j1] = f[j1] /\ b[j1].up = FALSE
    <3>1. k \in 1..Len(f) /\ b[k] = f[k]
      BY <1>7, <2>1
    <3> QED
      BY <1>2, <2>1, <3>1 DEF InOrder
  <2>2. CASE j1 - Len(f) \in 1..Len(g) /\ b[j1] = g[j1 - Len(f)] /\ b[j1].up = TRUE
    <3>1. k - Len(f) \in 1..Len(g) /\ b[k] = g[k - Len(f)]
      BY <1>7, <2>2
    <3>2. j1 - Len(f) = k - Len(f)
      BY <1>2, <2>2, <3>1 DEF InOrder
    <3> QED
      BY <1>4, <1>5, <3>2
  <2> QED
    BY <1>7, <2>1, <2>2
<1>9. \E m \in 0..Len(b) : \A k \in 1..Len(b) : b[k].up <=> k > m
  <2>1. Len(f) \in 0..Len(b)
    BY <1>4, <1>5
  <2>2. \A k \in 1..Len(b) : b[k].up <=> k > Len(f)
    <3> SUFFICES ASSUME NEW k \in 1..Len(b) PROVE b[k].up <=> k > Len(f)
      OBVIOUS
    <3>1. CASE k \in 1..Len(f) /\ b[k].up = FALSE
      BY <1>4, <3>1
    <3>2. CASE k - Len(f) \in 1..Len(g) /\ b[k].up = TRUE
      BY <1>4, <3>2
    <3> QED
      BY <1>7, <3>1, <3>2
  <2> QED
    BY <2>1, <2>2
<1>10. ASSUME NEW s PROVE s \in Range(b) <=> s \in Range(f) \/ s \in Range(g)
  BY <1>1, RangeConcatenation DEF b
<1> QED
  BY <1>5, <1>8, <1>9, <1>10 DEF InOrder, b, f, g

\* One element more, exactly.
LEMMA With ==
  ASSUME NEW S, IsFiniteSet(S), NEW x, x \notin S
  PROVE  /\ Cardinality(S \union {x}) = Cardinality(S) + 1
         /\ Cardinality(S) \in Nat /\ IsFiniteSet(S \union {x})
BY FS_AddElement, FS_CardinalityType

\* Batches that hold a step, after one has changed.
LEMMA SentStep ==
  ASSUME StatsOK, IsFiniteSet(Busy), NEW w \in Workers, NEW seq,
         bg' = [bg EXCEPT ![w] = seq], NEW up, NEW v
  PROVE  /\ Waiting(up, v) \in Nat /\ Waiting(up, v)' \in Nat
         /\ Waiting(up, v)' + One(Step(up, v) \in Range(bg[w]))
              = Waiting(up, v) + One(Step(up, v) \in Range(seq))
<1> DEFINE sent == {k \in Workers : Step(up, v) \in Range(bg[k])}
           base == sent \ {w}
<1>1. sent \subseteq Busy
  <2> SUFFICES ASSUME NEW k \in Workers, Step(up, v) \in Range(bg[k]) PROVE bg[k] # <<>>
    BY DEF Busy
  <2>1. Range(<<>>) = {}
    BY DEF Range
  <2> QED
    BY <2>1
<1>2. IsFiniteSet(sent) /\ IsFiniteSet(base)
  BY <1>1, FS_Subset
<1>3. \A k \in Workers : bg'[k] = IF k = w THEN seq ELSE bg[k]
  BY DEF StatsOK
<1>4. Waiting(up, v) = Cardinality(sent) /\ Waiting(up, v)' = Cardinality(sent')
  BY DEF Waiting, Step
<1>5. IF Step(up, v) \in Range(bg[w]) THEN sent = base \union {w} ELSE sent = base
  OBVIOUS
<1>6. IF Step(up, v) \in Range(seq) THEN sent' = base \union {w} ELSE sent' = base
  <2>1. sent' = {k \in Workers : Step(up, v) \in Range(bg'[k])}
    BY DEF Step, Range
  <2> QED
    BY <1>3, <2>1
<1>7. w \notin base
  OBVIOUS
<1> HIDE DEF sent, base
<1>8. Cardinality(base) \in Nat /\ Cardinality(base \union {w}) = Cardinality(base) + 1
  BY <1>2, <1>7, With
<1>9. Cardinality(sent) = Cardinality(base) + One(Step(up, v) \in Range(bg[w]))
  <2>1. CASE Step(up, v) \in Range(bg[w])
    BY <1>5, <1>8, <2>1 DEF One
  <2>2. CASE ~(Step(up, v) \in Range(bg[w]))
    BY <1>5, <1>8, <2>2 DEF One
  <2> QED
    BY <2>1, <2>2
<1>10. Cardinality(sent') = Cardinality(base) + One(Step(up, v) \in Range(seq))
  <2>1. CASE Step(up, v) \in Range(seq)
    BY <1>6, <1>8, <2>1 DEF One
  <2>2. CASE ~(Step(up, v) \in Range(seq))
    BY <1>6, <1>8, <2>2 DEF One
  <2> QED
    BY <2>1, <2>2
<1>11. One(Step(up, v) \in Range(bg[w])) \in 0..1 /\ One(Step(up, v) \in Range(seq)) \in 0..1
  BY DEF One
<1> QED
  BY <1>4, <1>8, <1>9, <1>10, <1>11

\* A goroutine that starts.
LEMMA SpawnSends ==
  ASSUME StatsOK, BatchesOK, NEW steps \in Seq(Steps), InOrder(steps), Spawn(steps)
  PROVE  /\ BatchesOK'
         /\ \A up, v : /\ Waiting(up, v) \in Nat /\ Waiting(up, v)' \in Nat
                       /\ Waiting(up, v)' = Waiting(up, v) + One(Step(up, v) \in Range(steps))
<1>1. Range(<<>>) = {}
  BY DEF Range
<1>2. CASE steps = <<>>
  <2>1. bg' = bg
    BY <1>2 DEF Spawn
  <2>2. BatchesOK'
    BY <2>1 DEF BatchesOK, Busy
  <2>3. ASSUME NEW up, NEW v PROVE Waiting(up, v) \in Nat /\ Waiting(up, v)' = Waiting(up, v)
    <3>1. Waiting(up, v)' = Waiting(up, v)
      BY <2>1 DEF Waiting
    <3>2. {k \in Workers : Step(up, v) \in Range(bg[k])} \subseteq Busy
      BY <1>1 DEF Busy
    <3>3. IsFiniteSet({k \in Workers : Step(up, v) \in Range(bg[k])})
      BY <3>2, FS_Subset DEF BatchesOK
    <3> QED
      BY <3>1, <3>3, FS_CardinalityType DEF Waiting
  <2> QED
    BY <1>1, <1>2, <2>2, <2>3 DEF One
<1>3. CASE steps # <<>>
  <2>1. PICK w \in Workers : bg[w] = <<>> /\ bg' = [bg EXCEPT ![w] = steps]
    BY <1>3 DEF Spawn
  <2>2. \A k \in Workers : bg'[k] = IF k = w THEN steps ELSE bg[k]
    BY <2>1 DEF StatsOK
  <2>3. BatchesOK'
    <3>1. Busy' \subseteq Busy \union {w}
      BY <2>2 DEF Busy
    <3>2. IsFiniteSet(Busy \union {w})
      BY OneMore DEF BatchesOK
    <3>3. IsFiniteSet(Busy')
      BY <3>1, <3>2, FS_Subset
    <3>4. \A k \in Workers : InOrder(bg'[k])
      BY <2>2 DEF BatchesOK
    <3> QED
      BY <3>3, <3>4 DEF BatchesOK, InOrder
  <2>4. ASSUME NEW up, NEW v
        PROVE  /\ Waiting(up, v) \in Nat /\ Waiting(up, v)' \in Nat
               /\ Waiting(up, v)' = Waiting(up, v) + One(Step(up, v) \in Range(steps))
    <3>1. One(Step(up, v) \in Range(bg[w])) = 0
      BY <1>1, <2>1 DEF One
    <3>2. /\ Waiting(up, v) \in Nat /\ Waiting(up, v)' \in Nat
          /\ Waiting(up, v)' + One(Step(up, v) \in Range(bg[w]))
               = Waiting(up, v) + One(Step(up, v) \in Range(steps))
      BY <2>1, SentStep DEF BatchesOK
    <3> QED
      BY <3>1, <3>2
  <2> QED
    BY <2>3, <2>4
<1> QED
  BY <1>2, <1>3

\* A batch of which a part is done or dropped.
LEMMA BatchesShrink ==
  ASSUME StatsOK, BatchesOK, NEW w \in Workers, NEW seq, InOrder(seq), bg[w] # <<>>,
         bg' = [bg EXCEPT ![w] = seq]
  PROVE  BatchesOK'
<1>1. \A k \in Workers : bg'[k] = IF k = w THEN seq ELSE bg[k]
  BY DEF StatsOK
<1>2. Busy' \subseteq Busy
  BY <1>1 DEF Busy
<1>3. IsFiniteSet(Busy')
  BY <1>2, FS_Subset DEF BatchesOK
<1>4. \A k \in Workers : InOrder(bg'[k])
  BY <1>1 DEF BatchesOK
<1> QED
  BY <1>3, <1>4 DEF BatchesOK, InOrder

\* Rows that count for a value, with one more.
LEMMA OfWith ==
  ASSUME NEW set, IsFiniteSet(set), NEW r, r \notin set, NEW v
  PROVE  /\ Cardinality(Of(set, v)) \in Nat
         /\ Cardinality(Of(set \union {r}, v))
              = Cardinality(Of(set, v)) + One(v \in Range(ValuesOf[r.item]))
<1>1. Of(set, v) \subseteq set
  BY DEF Of
<1>2. IsFiniteSet(Of(set, v))
  BY <1>1, FS_Subset
<1>3. Cardinality(Of(set, v)) \in Nat
  BY <1>2, FS_CardinalityType
<1>4. CASE v \in Range(ValuesOf[r.item])
  <2>1. Of(set \union {r}, v) = Of(set, v) \union {r} /\ r \notin Of(set, v)
    BY <1>4 DEF Of
  <2> QED
    BY <1>2, <1>3, <1>4, <2>1, With DEF One
<1>5. CASE v \notin Range(ValuesOf[r.item])
  <2>1. Of(set \union {r}, v) = Of(set, v)
    BY <1>5 DEF Of
  <2> QED
    BY <1>3, <1>5, <2>1 DEF One
<1> QED
  BY <1>4, <1>5

\* ... and with one less.
LEMMA OfWithout ==
  ASSUME NEW set, IsFiniteSet(set), NEW r \in set, NEW v
  PROVE  /\ Cardinality(Of(set \ {r}, v)) \in Nat /\ IsFiniteSet(set \ {r})
         /\ Cardinality(Of(set, v))
              = Cardinality(Of(set \ {r}, v)) + One(v \in Range(ValuesOf[r.item]))
<1>1. IsFiniteSet(set \ {r}) /\ r \notin set \ {r} /\ (set \ {r}) \union {r} = set
  BY FS_Subset
<1> QED
  BY <1>1, OfWith

\* RankLaw for one value, without what it says of the ranking.
Law(v) == /\ v \notin low => Shown(v) >= Uses(v)
          /\ v \notin high => Shown(v) <= Uses(v)

RankInv == Finite /\ BatchesOK /\ \A v \in Values : Law(v)

\* What a batch holds.
LEMMA BatchHas ==
  ASSUME Unrepeated, NEW up \in BOOLEAN, NEW i \in Items, NEW v
  PROVE  /\ One(Step(up, v) \in Range(Batch(up, i))) = One(v \in Range(ValuesOf[i]))
         /\ One(Step(~up, v) \in Range(Batch(up, i))) = 0
<1>1. Step(up, v) \in Range(Batch(up, i)) <=> v \in Range(ValuesOf[i])
  <2>1. Step(up, v) \in Range(Batch(up, i)) <=> \E x \in Range(ValuesOf[i]) : Step(up, v) = Step(up, x)
    BY BatchInOrder
  <2>2. \A x : Step(up, v) = Step(up, x) <=> x = v
    BY DEF Step
  <2> QED
    BY <2>1, <2>2
<1>2. Step(~up, v) \notin Range(Batch(up, i))
  <2>1. Step(~up, v) \in Range(Batch(up, i)) => Step(~up, v).up = up
    BY BatchInOrder
  <2>2. Step(~up, v).up = ~up
    BY DEF Step
  <2> QED
    BY <2>1, <2>2
<1> QED
  BY <1>1, <1>2 DEF One

\* The counts and numbers the law compares.
LEMMA Numbers ==
  ASSUME StatsOK, NEW v \in Values
  PROVE  /\ Counted(v) \in Nat /\ (count[v] # None => count[v] = Counted(v))
         /\ Shown(v) = Counted(v) + Waiting(TRUE, v) - Waiting(FALSE, v)
BY DEF StatsOK, Counted, Shown

\* A statement that is done leaves its batch.
LEMMA HeadStep ==
  ASSUME StatsOK, BatchesOK, NEW w \in Workers, bg[w] # <<>>, bg' = [bg EXCEPT ![w] = Tail(@)]
  PROVE  /\ BatchesOK' /\ Head(bg[w]) \in Steps
         /\ \A up \in BOOLEAN, v \in Values :
              /\ Waiting(up, v) \in Nat /\ Waiting(up, v)' \in Nat
              /\ Waiting(up, v) = Waiting(up, v)'
                   + One(up = Head(bg[w]).up /\ v = Head(bg[w]).v)
<1> DEFINE s == Head(bg[w])
<1>1. bg[w] \in Seq(Steps) /\ InOrder(bg[w]) /\ bg' = [bg EXCEPT ![w] = Tail(bg[w])]
  BY DEF StatsOK, BatchesOK
<1>2. /\ InOrder(Tail(bg[w])) /\ s \in Range(bg[w])
      /\ \A x : x \in Range(Tail(bg[w])) <=> x \in Range(bg[w]) /\ x # s
  BY <1>1, TailInOrder
<1>3. s \in Steps
  BY <1>1, HeadTailProperties
<1>4. BatchesOK'
  BY <1>1, <1>2, BatchesShrink
<1>5. ASSUME NEW up \in BOOLEAN, NEW v \in Values
      PROVE  /\ Waiting(up, v) \in Nat /\ Waiting(up, v)' \in Nat
             /\ Waiting(up, v) = Waiting(up, v)' + One(up = s.up /\ v = s.v)
  <2>1. /\ Waiting(up, v) \in Nat /\ Waiting(up, v)' \in Nat
        /\ Waiting(up, v)' + One(Step(up, v) \in Range(bg[w]))
             = Waiting(up, v) + One(Step(up, v) \in Range(Tail(bg[w])))
    BY <1>1, SentStep DEF BatchesOK
  <2>2. Step(up, v) = s <=> up = s.up /\ v = s.v
    <3>1. s = [up |-> s.up, v |-> s.v]
      BY <1>3 DEF Steps
    <3> HIDE DEF s
    <3> QED
      BY <3>1 DEF Step
  <2> HIDE DEF s
  <2>3. CASE Step(up, v) = s
    <3>1. One(Step(up, v) \in Range(bg[w])) = 1
      BY <1>2, <2>3 DEF One
    <3>2. One(Step(up, v) \in Range(Tail(bg[w]))) = 0
      BY <1>2, <2>3 DEF One
    <3>3. One(up = s.up /\ v = s.v) = 1
      BY <2>2, <2>3 DEF One
    <3> QED
      BY <2>1, <3>1, <3>2, <3>3
  <2>4. CASE Step(up, v) # s
    <3>1. One(Step(up, v) \in Range(bg[w])) = One(Step(up, v) \in Range(Tail(bg[w])))
      BY <1>2, <2>4 DEF One
    <3>2. One(Step(up, v) \in Range(bg[w])) \in 0..1
      BY DEF One
    <3>3. One(up = s.up /\ v = s.v) = 0
      BY <2>2, <2>4 DEF One
    <3> QED
      BY <2>1, <3>1, <3>2, <3>3
  <2> QED
    BY <2>3, <2>4
<1> QED
  BY <1>3, <1>4, <1>5

\* The statements of a goroutine.
LEMMA CountsRank ==
  ASSUME TypeOK, RankInv, NEW w \in Workers, Increment(w) \/ Decrement(w)
  PROVE  RankInv'
<1>0. StatsOK /\ None \notin Int
  BY TypeParts, CommandsAssumption
<1> DEFINE s == Head(bg[w])
<1>1. /\ bg[w] # <<>> /\ bg' = [bg EXCEPT ![w] = Tail(@)] /\ UNCHANGED <<rows, low>>
      /\ high \subseteq high'
  BY DEF Increment, Decrement, table, drift
<1>2. /\ BatchesOK' /\ s \in Steps
      /\ \A up \in BOOLEAN, v \in Values :
           /\ Waiting(up, v) \in Nat /\ Waiting(up, v)' \in Nat
           /\ Waiting(up, v) = Waiting(up, v)' + One(up = s.up /\ v = s.v)
  BY <1>0, <1>1, HeadStep DEF RankInv
<1>3. s.v \in Values /\ s.up \in BOOLEAN
  BY <1>2 DEF Steps
<1>4. ASSUME NEW v \in Values
      PROVE  /\ Uses(v)' = Uses(v) /\ Uses(v) \in Nat
             /\ Counted(v) \in Nat /\ Waiting(TRUE, v)' \in Nat /\ Waiting(FALSE, v)' \in Nat
             /\ Waiting(TRUE, v) = Waiting(TRUE, v)' + (IF s.up /\ v = s.v THEN 1 ELSE 0)
             /\ Waiting(FALSE, v) = Waiting(FALSE, v)' + (IF ~s.up /\ v = s.v THEN 1 ELSE 0)
  <2>1. Uses(v)' = Uses(v)
    BY <1>1 DEF Uses
  <2>2. Uses(v) \in Nat
    <3>1. IsFiniteSet(Of(rows, v))
      BY FS_Subset DEF Of, RankInv, Finite
    <3> QED
      BY <3>1, FS_CardinalityType DEF Uses, Of
  <2>3. /\ Waiting(TRUE, v) = Waiting(TRUE, v)' + One(TRUE = s.up /\ v = s.v)
        /\ Waiting(FALSE, v) = Waiting(FALSE, v)' + One(FALSE = s.up /\ v = s.v)
        /\ Waiting(TRUE, v)' \in Nat /\ Waiting(FALSE, v)' \in Nat
    BY <1>2
  <2>4. /\ One(TRUE = s.up /\ v = s.v) = (IF s.up /\ v = s.v THEN 1 ELSE 0)
        /\ One(FALSE = s.up /\ v = s.v) = (IF ~s.up /\ v = s.v THEN 1 ELSE 0)
    <3> HIDE DEF s
    <3> QED
      BY <1>3 DEF One
  <2> HIDE DEF s
  <2> QED
    BY <1>0, <2>1, <2>2, <2>3, <2>4, Numbers
<1>5. ASSUME NEW v \in Values PROVE Law(v)'
  <2> DEFINE ups   == Waiting(TRUE, v)
             downs == Waiting(FALSE, v)
  <2>1. Law(v)
    BY DEF RankInv
  <2>6. /\ Uses(v)' = Uses(v) /\ Uses(v) \in Nat
        /\ Counted(v) \in Nat /\ ups' \in Nat /\ downs' \in Nat
        /\ ups = ups' + (IF s.up /\ v = s.v THEN 1 ELSE 0)
        /\ downs = downs' + (IF ~s.up /\ v = s.v THEN 1 ELSE 0)
    BY <1>4
  <2>2. /\ Shown(v) = Counted(v) + ups - downs
        /\ Shown(v)' = Counted(v)' + ups' - downs'
    BY DEF Shown
  <2> HIDE DEF ups, downs
  <2>3. CASE v # s.v
    <3>1. Counted(v)' = Counted(v)
      BY <1>0, <2>3 DEF Increment, Decrement, Counted, StatsOK
    <3>3. Shown(v)' = Shown(v)
      BY <2>6, <2>2, <2>3, <3>1
    <3> QED
      BY <1>1, <2>6, <2>1, <3>3 DEF Law
  <2>4. CASE v = s.v /\ s.up
    <3>1. Counted(v)' = Counted(v) + 1
      <4>1. count' = [count EXCEPT ![v] = Counted(v) + 1]
        BY <2>4 DEF Increment, Decrement
      <4> QED
        BY <1>0, <2>6, <4>1 DEF Counted, StatsOK
    <3>3. Shown(v)' = Shown(v)
      BY <2>6, <2>2, <2>4, <3>1
    <3> QED
      BY <1>1, <2>6, <2>1, <3>3 DEF Law
  <2>5. CASE v = s.v /\ ~s.up
    <3>2. CASE Counted(v) = 0
      <4>1. v \in high' /\ count' = count
        BY <2>5, <3>2 DEF Increment, Decrement
      <4>2. Counted(v)' = Counted(v)
        BY <4>1 DEF Counted
      <4>3. Shown(v)' = Shown(v) + 1 /\ Shown(v) \in Int
        BY <2>6, <2>2, <2>5, <4>2
      <4> QED
        BY <1>1, <2>6, <2>1, <4>1, <4>3 DEF Law
    <3>3. CASE Counted(v) # 0
      <4>1. count' = [count EXCEPT ![v] = count[v] - 1]
        BY <2>5, <3>3 DEF Increment, Decrement
      <4>2. count[v] = Counted(v) /\ count[v] # None
        BY <3>3 DEF Counted
      <4>3. Counted(v)' = Counted(v) - 1
        BY <1>0, <2>6, <4>1, <4>2 DEF Counted, StatsOK
      <4>4. Shown(v)' = Shown(v)
        BY <2>6, <2>2, <2>5, <4>3
      <4> QED
        BY <1>1, <2>6, <2>1, <4>4 DEF Law
    <3> QED
      BY <3>2, <3>3
  <2> QED
    BY <1>3, <2>3, <2>4, <2>5
<1>6. Finite'
  BY <1>1 DEF RankInv, Finite
<1> QED
  BY <1>2, <1>5, <1>6 DEF RankInv

\* What the table says of a value.
LEMMA UsesAre ==
  ASSUME NEW v
  PROVE  /\ Uses(v) = Cardinality(Of(rows, v)) /\ Uses(v)' = Cardinality(Of(rows', v))
         /\ Finite => Uses(v) \in Nat
         /\ Finite' => Uses(v)' \in Nat
<1>1. \A set : IsFiniteSet(set) => Cardinality(Of(set, v)) \in Nat
  <2> SUFFICES ASSUME NEW set, IsFiniteSet(set) PROVE Cardinality(Of(set, v)) \in Nat
    OBVIOUS
  <2>1. Of(set, v) \subseteq set
    BY DEF Of
  <2> QED
    BY <2>1, FS_Subset, FS_CardinalityType
<1>2. Uses(v) = Cardinality(Of(rows, v)) /\ Uses(v)' = Cardinality(Of(rows', v))
  BY DEF Uses, Of
<1> QED
  BY <1>1, <1>2 DEF Finite

\* A step after which the ranking has moved as the table has, but for the values it
\* names.
LEMMA Settles ==
  ASSUME RankInv, Finite', BatchesOK', low \subseteq low', high \subseteq high',
         \A v \in Values :
           /\ Shown(v) \in Int /\ Shown(v)' \in Int
           /\ v \notin low'  => Shown(v)' - Shown(v) >= Uses(v)' - Uses(v)
           /\ v \notin high' => Shown(v)' - Shown(v) <= Uses(v)' - Uses(v)
  PROVE  RankInv'
<1>1. ASSUME NEW v \in Values PROVE Law(v)'
  <2>1. Law(v)
    BY DEF RankInv
  <2>2. Uses(v) \in Nat /\ Uses(v)' \in Nat
    BY UsesAre DEF RankInv
  <2>3. v \notin low' => Shown(v)' >= Uses(v)'
    BY <2>1, <2>2 DEF Law
  <2>4. v \notin high' => Shown(v)' <= Uses(v)'
    BY <2>1, <2>2 DEF Law
  <2> QED
    BY <2>3, <2>4 DEF Law
<1> QED
  BY <1>1 DEF RankInv

\* What a goroutine that starts will add to a count and take from it.
LEMMA SpawnShows ==
  ASSUME StatsOK, BatchesOK, NEW steps \in Seq(Steps), InOrder(steps), Spawn(steps),
         UNCHANGED count, NEW v \in Values
  PROVE  /\ Shown(v) \in Int /\ Shown(v)' \in Int
         /\ Shown(v)' = Shown(v) + One(Step(TRUE, v) \in Range(steps))
                                 - One(Step(FALSE, v) \in Range(steps))
<1> DEFINE ups   == Waiting(TRUE, v)
           downs == Waiting(FALSE, v)
           more  == One(Step(TRUE, v) \in Range(steps))
           less  == One(Step(FALSE, v) \in Range(steps))
<1>1. /\ ups \in Nat /\ ups' \in Nat /\ ups' = ups + more
      /\ downs \in Nat /\ downs' \in Nat /\ downs' = downs + less
  BY SpawnSends
<1>2. /\ Shown(v) = Counted(v) + ups - downs
      /\ Shown(v)' = Counted(v)' + ups' - downs'
  BY DEF Shown
<1>3. Counted(v)' = Counted(v) /\ Counted(v) \in Nat
  BY Numbers DEF Counted
<1>4. more \in Int /\ less \in Int
  BY DEF One
<1> HIDE DEF ups, downs, more, less
<1>5. Shown(v) \in Int /\ Shown(v)' \in Int /\ Shown(v)' = Shown(v) + more - less
  BY <1>1, <1>2, <1>3, <1>4
<1> QED
  BY <1>5 DEF more, less

\* Nothing of it changes.
LEMMA NothingShows ==
  ASSUME StatsOK, BatchesOK, UNCHANGED <<bg, count>>, NEW v \in Values
  PROVE  Shown(v) \in Int /\ Shown(v)' = Shown(v)
<1>1. Spawn(<<>>) /\ <<>> \in Seq(Steps)
  BY EmptySeq DEF Spawn
<1>2. InOrder(<<>>)
  <2>1. Len(<<>>) = 0 /\ 1..0 = {} /\ 0 \in 0..0
    OBVIOUS
  <2> QED
    BY <2>1 DEF InOrder
<1>3. Shown(v) \in Int
  BY <1>1, <1>2, SpawnShows
<1>4. Counted(v)' = Counted(v)
  BY DEF Counted
<1>5. Waiting(TRUE, v)' = Waiting(TRUE, v) /\ Waiting(FALSE, v)' = Waiting(FALSE, v)
  BY DEF Waiting
<1> QED
  BY <1>3, <1>4, <1>5 DEF Shown

\* Nothing the law speaks of changes.
LEMMA SameRank == ASSUME RankInv, UNCHANGED <<rows, bg, count, low, high>> PROVE RankInv'
<1>1. Finite' /\ BatchesOK'
  BY DEF RankInv, Finite, BatchesOK, Busy
<1>2. ASSUME NEW v \in Values PROVE Law(v)'
  <2>1. Law(v)
    BY DEF RankInv
  <2>2. Counted(v)' = Counted(v) /\ Uses(v)' = Uses(v)
    BY DEF Counted, Uses
  <2>3. Waiting(TRUE, v)' = Waiting(TRUE, v) /\ Waiting(FALSE, v)' = Waiting(FALSE, v)
    BY DEF Waiting
  <2>4. Shown(v)' = Shown(v)
    BY <2>2, <2>3 DEF Shown
  <2> QED
    BY <2>1, <2>2, <2>4 DEF Law
<1> QED
  BY <1>1, <1>2 DEF RankInv

\* What an item counts for a value.
Has(i, v) == One(v \in Range(ValuesOf[i]))

\* It is one or nothing.
LEMMA HasIs == ASSUME NEW i, NEW v PROVE Has(i, v) \in Nat /\ (Has(i, v) = 0 <=> v \notin Range(ValuesOf[i]))
BY DEF Has, One

\* The statistics of a new row are sent.
LEMMA UpShows ==
  ASSUME StatsOK, BatchesOK, Unrepeated, NEW i \in Items, Spawn(Batch(TRUE, i)), UNCHANGED count
  PROVE  /\ BatchesOK'
         /\ \A v \in Values : /\ Shown(v) \in Int /\ Shown(v)' \in Int
                              /\ Shown(v)' = Shown(v) + Has(i, v)
<1>1. Batch(TRUE, i) \in Seq(Steps) /\ InOrder(Batch(TRUE, i))
  BY BatchType, BatchInOrder
<1>2. BatchesOK'
  BY <1>1, SpawnSends
<1>3. ASSUME NEW v \in Values
      PROVE  Shown(v) \in Int /\ Shown(v)' \in Int /\ Shown(v)' = Shown(v) + Has(i, v)
  <2> DEFINE more == One(Step(TRUE, v) \in Range(Batch(TRUE, i)))
             less == One(Step(FALSE, v) \in Range(Batch(TRUE, i)))
  <2>1. Shown(v) \in Int /\ Shown(v)' \in Int /\ Shown(v)' = Shown(v) + more - less
    BY <1>1, SpawnShows
  <2>2. (~TRUE) = FALSE
    OBVIOUS
  <2>3. more = Has(i, v) /\ less = 0
    BY <2>2, BatchHas DEF Has
  <2>4. Has(i, v) \in Nat
    BY HasIs
  <2> HIDE DEF more, less
  <2> QED
    BY <2>1, <2>3, <2>4
<1> QED
  BY <1>2, <1>3

\* ... of a row that goes.
LEMMA DownShows ==
  ASSUME StatsOK, BatchesOK, Unrepeated, NEW i \in Items, Spawn(Batch(FALSE, i)), UNCHANGED count
  PROVE  /\ BatchesOK'
         /\ \A v \in Values : /\ Shown(v) \in Int /\ Shown(v)' \in Int
                              /\ Shown(v)' = Shown(v) - Has(i, v)
<1>1. Batch(FALSE, i) \in Seq(Steps) /\ InOrder(Batch(FALSE, i))
  BY BatchType, BatchInOrder
<1>2. BatchesOK'
  BY <1>1, SpawnSends
<1>3. ASSUME NEW v \in Values
      PROVE  Shown(v) \in Int /\ Shown(v)' \in Int /\ Shown(v)' = Shown(v) - Has(i, v)
  <2> DEFINE more == One(Step(TRUE, v) \in Range(Batch(FALSE, i)))
             less == One(Step(FALSE, v) \in Range(Batch(FALSE, i)))
  <2>1. Shown(v) \in Int /\ Shown(v)' \in Int /\ Shown(v)' = Shown(v) + more - less
    BY <1>1, SpawnShows
  <2>2. (~FALSE) = TRUE
    OBVIOUS
  <2>3. less = Has(i, v) /\ more = 0
    BY <2>2, BatchHas DEF Has
  <2>4. Has(i, v) \in Nat
    BY HasIs
  <2> HIDE DEF more, less
  <2> QED
    BY <2>1, <2>3, <2>4
<1> QED
  BY <1>2, <1>3

\* ... and of a row that changes.
LEMMA ChangeShows ==
  ASSUME StatsOK, BatchesOK, Unrepeated, NEW i \in Items, NEW j \in Items,
         Spawn(Batch(FALSE, i) \o Batch(TRUE, j)), UNCHANGED count
  PROVE  /\ BatchesOK'
         /\ \A v \in Values : /\ Shown(v) \in Int /\ Shown(v)' \in Int
                              /\ Shown(v)' = Shown(v) + Has(j, v) - Has(i, v)
<1> DEFINE b == Batch(FALSE, i) \o Batch(TRUE, j)
<1>1. /\ b \in Seq(Steps) /\ InOrder(b)
      /\ \A s : s \in Range(b) <=> s \in Range(Batch(FALSE, i)) \/ s \in Range(Batch(TRUE, j))
  BY ChangeInOrder
<1>2. BatchesOK'
  BY <1>1, SpawnSends
<1>3. ASSUME NEW v \in Values
      PROVE  /\ Shown(v) \in Int /\ Shown(v)' \in Int
             /\ Shown(v)' = Shown(v) + Has(j, v) - Has(i, v)
  <2> DEFINE more == One(Step(TRUE, v) \in Range(b))
             less == One(Step(FALSE, v) \in Range(b))
  <2>1. Shown(v) \in Int /\ Shown(v)' \in Int /\ Shown(v)' = Shown(v) + more - less
    BY <1>1, SpawnShows
  <2>2. (~FALSE) = TRUE /\ (~TRUE) = FALSE
    OBVIOUS
  <2>3. /\ One(Step(TRUE, v) \in Range(Batch(TRUE, j))) = Has(j, v)
        /\ One(Step(FALSE, v) \in Range(Batch(TRUE, j))) = 0
    BY <2>2, BatchHas DEF Has
  <2>4. /\ One(Step(FALSE, v) \in Range(Batch(FALSE, i))) = Has(i, v)
        /\ One(Step(TRUE, v) \in Range(Batch(FALSE, i))) = 0
    BY <2>2, BatchHas DEF Has
  <2>5. more = Has(j, v)
    BY <1>1, <2>3, <2>4 DEF One
  <2>6. less = Has(i, v)
    BY <1>1, <2>3, <2>4 DEF One
  <2>7. Has(i, v) \in Nat /\ Has(j, v) \in Nat
    BY HasIs
  <2> HIDE DEF more, less
  <2> QED
    BY <2>1, <2>5, <2>6, <2>7
<1> QED
  BY <1>2, <1>3

\* A row more in the table.
LEMMA UsesMore ==
  ASSUME Finite, NEW r, r \notin rows, rows' = rows \union {r}
  PROVE  Finite' /\ \A v : Uses(v)' = Uses(v) + Has(r.item, v) /\ Uses(v) \in Nat
<1>1. Finite'
  BY With DEF Finite
<1>2. ASSUME NEW v PROVE Uses(v)' = Uses(v) + Has(r.item, v) /\ Uses(v) \in Nat
  <2>1. Uses(v) = Cardinality(Of(rows, v)) /\ Uses(v)' = Cardinality(Of(rows', v)) /\ Uses(v) \in Nat
    BY UsesAre
  <2>2. Cardinality(Of(rows', v)) = Cardinality(Of(rows, v)) + Has(r.item, v)
    BY OfWith DEF Finite, Has
  <2> QED
    BY <2>1, <2>2
<1> QED
  BY <1>1, <1>2

\* A row less.
LEMMA UsesLess ==
  ASSUME Finite, NEW r \in rows, rows' = rows \ {r}
  PROVE  Finite' /\ \A v : Uses(v)' = Uses(v) - Has(r.item, v) /\ Uses(v) \in Nat
<1>1. Finite'
  BY OfWithout DEF Finite
<1>2. ASSUME NEW v PROVE Uses(v)' = Uses(v) - Has(r.item, v) /\ Uses(v) \in Nat
  <2>1. /\ Uses(v) = Cardinality(Of(rows, v)) /\ Uses(v)' = Cardinality(Of(rows', v))
        /\ Uses(v) \in Nat /\ Uses(v)' \in Nat
    BY <1>1, UsesAre
  <2>2. Cardinality(Of(rows, v)) = Cardinality(Of(rows', v)) + Has(r.item, v)
    BY OfWithout DEF Finite, Has
  <2>3. Has(r.item, v) \in Nat
    BY HasIs
  <2> QED
    BY <2>1, <2>2, <2>3
<1> QED
  BY <1>1, <1>2

\* A row that takes the place of another.
LEMMA UsesInstead ==
  ASSUME Finite, NEW q \in rows, NEW r, r \notin rows \ {q}, rows' = (rows \ {q}) \union {r}
  PROVE  /\ Finite'
         /\ \A v : Uses(v)' = Uses(v) - Has(q.item, v) + Has(r.item, v) /\ Uses(v) \in Nat
<1> DEFINE kept == rows \ {q}
<1>1. IsFiniteSet(kept) /\ Finite'
  <2>1. IsFiniteSet(kept)
    BY OfWithout DEF Finite
  <2> HIDE DEF kept
  <2>2. IsFiniteSet(rows')
    BY <2>1, With DEF kept
  <2> QED
    BY <2>1, <2>2 DEF Finite
<1>2. ASSUME NEW v PROVE Uses(v)' = Uses(v) - Has(q.item, v) + Has(r.item, v) /\ Uses(v) \in Nat
  <2>1. /\ Uses(v) = Cardinality(Of(rows, v)) /\ Uses(v)' = Cardinality(Of(rows', v))
        /\ Uses(v) \in Nat /\ Uses(v)' \in Nat
    BY <1>1, UsesAre
  <2>2. /\ Cardinality(Of(rows, v)) = Cardinality(Of(kept, v)) + Has(q.item, v)
        /\ Cardinality(Of(kept, v)) \in Nat
    BY OfWithout DEF Finite, Has
  <2>3. Cardinality(Of(rows', v)) = Cardinality(Of(kept, v)) + Has(r.item, v)
    BY <1>1, OfWith DEF Has
  <2>4. Has(q.item, v) \in Nat /\ Has(r.item, v) \in Nat
    BY HasIs
  <2> QED
    BY <2>1, <2>2, <2>3, <2>4
<1> QED
  BY <1>1, <1>2

\* Values that none of these rows has.
LEMMA NotAmong ==
  ASSUME NEW set, NEW v, v \notin Vals(set), NEW r \in set
  PROVE  Has(r.item, v) = 0
<1>1. v \notin Range(ValuesOf[r.item])
  BY DEF Vals
<1> QED
  BY <1>1, HasIs

\* A row that is inserted is counted, value by value.
LEMMA AddRank ==
  ASSUME Unrepeated, Inv, RankInv, NEW h \in Handlers, CreateInDB(h) PROVE RankInv'
<1>0. StatsOK /\ TableOK /\ HndOK /\ IdsOK /\ Finite /\ BatchesOK
  BY TypeParts DEF Inv, RankInv
<1> DEFINE i   == Head(hnd[h].todo)
           new == [id |-> nextId, user |-> hnd[h].user, item |-> i]
<1>1. i \in Items
  <2>1. hnd[h].todo \in Seq(Items) /\ hnd[h].todo # <<>>
    BY <1>0, Hnd DEF Good, HasWhatItNeeds, Request, CreateInDB
  <2> QED
    BY <2>1, HeadTailProperties
<1>2. UNCHANGED <<count, low, high>>
  BY DEF CreateInDB, drift
<1>3. \/ UNCHANGED <<rows, bg>>
      \/ rows' = rows \union {new} /\ Spawn(Batch(TRUE, i))
  BY DEF CreateInDB, table
<1>4. new \notin rows /\ new.item = i
  <2>1. new.id = nextId /\ new.item = i
    OBVIOUS
  <2> HIDE DEF new
  <2>2. \A r \in rows : r.id < nextId /\ r.id \in Nat
    BY <1>0 DEF IdsOK, TableOK, RowType
  <2> QED
    BY <1>0, <2>1, <2>2 DEF TableOK
<1> HIDE DEF new, i
<1>5. CASE UNCHANGED <<rows, bg>>
  BY <1>2, <1>5, SameRank
<1>6. CASE rows' = rows \union {new} /\ Spawn(Batch(TRUE, i))
  <2>1. /\ BatchesOK'
        /\ \A v \in Values : /\ Shown(v) \in Int /\ Shown(v)' \in Int
                             /\ Shown(v)' = Shown(v) + Has(i, v)
    BY <1>0, <1>1, <1>2, <1>6, UpShows
  <2>2. Finite' /\ \A v : Uses(v)' = Uses(v) + Has(i, v) /\ Uses(v) \in Nat
    BY <1>0, <1>4, <1>6, UsesMore
  <2>3. ASSUME NEW v \in Values PROVE Shown(v)' - Shown(v) = Uses(v)' - Uses(v)
    <3>1. Has(i, v) \in Nat
      BY HasIs
    <3> QED
      BY <2>1, <2>2, <3>1
  <2>4. ASSUME NEW v \in Values PROVE Uses(v)' - Uses(v) \in Int
    <3>1. Has(i, v) \in Nat
      BY HasIs
    <3> QED
      BY <2>2, <3>1
  <2>5. ASSUME NEW v \in Values
        PROVE  /\ Shown(v)' - Shown(v) >= Uses(v)' - Uses(v)
               /\ Shown(v)' - Shown(v) <= Uses(v)' - Uses(v)
    BY <2>3, <2>4
  <2> QED
    BY <1>2, <2>1, <2>2, <2>5, Settles
<1> QED
  BY <1>3, <1>5, <1>6

\* The rows with an id are one row or none.
LEMMA OneTouched ==
  ASSUME TableOK, NEW r \in RowType
  PROVE  /\ r \in rows => Touched(r) = {r}
         /\ Touched(r) = {} \/ \E q \in rows : q.id = r.id /\ Touched(r) = {q}
<1>1. \A q \in Touched(r) : q \in rows /\ q.id = r.id
  BY DEF Touched
<1>2. \A q, p \in Touched(r) : q = p
  BY <1>1 DEF TableOK, Unalike
<1>3. r \in rows => r \in Touched(r)
  BY DEF Touched
<1> QED
  BY <1>1, <1>2, <1>3

\* A row that goes is counted down, for the values of the row that was read.
LEMMA EraseRank ==
  ASSUME Unrepeated, Inv, RankInv, NEW h \in Handlers, DeleteInDB(h) PROVE RankInv'
<1>0. StatsOK /\ TableOK /\ HndOK /\ Finite /\ BatchesOK
  BY TypeParts DEF Inv, RankInv
<1> DEFINE r == hnd[h].row
<1>1. r \in RowType
  BY <1>0, RowOf DEF DeleteInDB
<1>2. rows' = rows \ Touched(r) /\ Spawn(Batch(FALSE, r.item)) /\ MissedBy(r) /\ UNCHANGED count
  BY DEF DeleteInDB
<1> HIDE DEF r
<1>3. r.item \in Items
  BY <1>1 DEF RowType
<1>4. /\ BatchesOK'
      /\ \A v \in Values : /\ Shown(v) \in Int /\ Shown(v)' \in Int
                           /\ Shown(v)' = Shown(v) - Has(r.item, v)
  BY <1>0, <1>2, <1>3, DownShows
<1>5. \/ r \in rows /\ Touched(r) = {r} /\ UNCHANGED <<low, high>>
      \/ /\ Touched(r) = {} /\ low' = low \union Vals({r}) /\ high \subseteq high'
      \/ \E q \in rows : /\ Touched(r) = {q}
                         /\ low' = low \union Vals({r}) /\ high' = high \union Vals({q})
  <2>1. CASE r \in rows
    BY <1>0, <1>1, <1>2, <2>1, OneTouched DEF MissedBy, Stale, drift
  <2>2. CASE r \notin rows
    <3>1. low' = low \union Vals({r}) /\ high' = high \union Vals(Touched(r))
      BY <1>2, <2>2 DEF MissedBy, Stale
    <3>2. Touched(r) = {} \/ \E q \in rows : Touched(r) = {q}
      BY <1>0, <1>1, OneTouched
    <3> QED
      BY <3>1, <3>2
  <2> QED
    BY <2>1, <2>2
<1>6. CASE r \in rows /\ Touched(r) = {r} /\ UNCHANGED <<low, high>>
  <2>1. Finite' /\ \A v : Uses(v)' = Uses(v) - Has(r.item, v) /\ Uses(v) \in Nat
    BY <1>0, <1>2, <1>6, UsesLess
  <2>2. ASSUME NEW v \in Values
        PROVE  /\ Shown(v)' - Shown(v) >= Uses(v)' - Uses(v)
               /\ Shown(v)' - Shown(v) <= Uses(v)' - Uses(v)
    <3>1. Has(r.item, v) \in Nat
      BY HasIs
    <3> QED
      BY <1>4, <2>1, <3>1
  <2> QED
    BY <1>4, <1>6, <2>1, <2>2, Settles
<1>7. CASE Touched(r) = {} /\ low' = low \union Vals({r}) /\ high \subseteq high'
  <2>1. rows' = rows
    BY <1>2, <1>7
  <2>2. Finite' /\ \A v : Uses(v)' = Uses(v) /\ Uses(v) \in Nat
    BY <1>0, <2>1, UsesAre DEF Finite, Uses
  <2>3. ASSUME NEW v \in Values
        PROVE  /\ v \notin low' => Shown(v)' - Shown(v) >= Uses(v)' - Uses(v)
               /\ v \notin high' => Shown(v)' - Shown(v) <= Uses(v)' - Uses(v)
    <3>1. Has(r.item, v) \in Nat /\ (v \notin low' => Has(r.item, v) = 0)
      BY <1>7, HasIs, NotAmong
    <3> QED
      BY <1>4, <2>2, <3>1
  <2> QED
    BY <1>4, <1>7, <2>2, <2>3, Settles
<1>8. ASSUME NEW q \in rows, Touched(r) = {q},
             low' = low \union Vals({r}), high' = high \union Vals({q})
      PROVE  RankInv'
  <2>1. Finite' /\ \A v : Uses(v)' = Uses(v) - Has(q.item, v) /\ Uses(v) \in Nat
    BY <1>0, <1>2, <1>8, UsesLess
  <2>2. ASSUME NEW v \in Values
        PROVE  /\ v \notin low' => Shown(v)' - Shown(v) >= Uses(v)' - Uses(v)
               /\ v \notin high' => Shown(v)' - Shown(v) <= Uses(v)' - Uses(v)
    <3>1. Has(r.item, v) \in Nat /\ (v \notin low' => Has(r.item, v) = 0)
      BY <1>8, HasIs, NotAmong
    <3>2. Has(q.item, v) \in Nat /\ (v \notin high' => Has(q.item, v) = 0)
      BY <1>8, HasIs, NotAmong
    <3> QED
      BY <1>4, <2>1, <3>1, <3>2
  <2> QED
    BY <1>4, <1>8, <2>1, <2>2, Settles
<1> QED
  BY <1>5, <1>6, <1>7, <1>8

\* A row that changes is counted down for the item that was read and up for the new one.
LEMMA ChangeRank ==
  ASSUME Unrepeated, Inv, RankInv, NEW h \in Handlers, UpdateInDB(h) PROVE RankInv'
<1>0. StatsOK /\ TableOK /\ HndOK /\ Finite /\ BatchesOK
  BY TypeParts DEF Inv, RankInv
<1> DEFINE r   == hnd[h].row
           i   == Head(hnd[h].todo)
           new == [r EXCEPT !.item = i]
<1>1. r \in RowType /\ i \in Items
  <2>1. hnd[h].todo \in Seq(Items) /\ hnd[h].todo # <<>>
    BY <1>0, Hnd DEF Good, HasWhatItNeeds, Request, UpdateInDB
  <2> QED
    BY <1>0, <2>1, RowOf, HeadTailProperties DEF UpdateInDB
<1>2. UNCHANGED count
  BY DEF UpdateInDB
<1>3. \/ UNCHANGED <<rows, bg, low, high>>
      \/ /\ rows' = IF Touched(r) = {} THEN rows ELSE (rows \ Touched(r)) \union {new}
         /\ Spawn(Batch(FALSE, r.item) \o Batch(TRUE, i))
         /\ IF Stale(r)
              THEN /\ low' = low \union Vals({r})
                   /\ high' = high \union Vals(Touched(r))
                              \union (IF Touched(r) = {} THEN Vals({new}) ELSE {})
              ELSE UNCHANGED <<low, high>>
  BY DEF UpdateInDB, drift
<1> HIDE DEF r, i
<1>4. new.id = r.id /\ new.item = i /\ r.item \in Items
  BY <1>1 DEF RowType
<1> HIDE DEF new
<1>5. CASE UNCHANGED <<rows, bg, low, high>>
  BY <1>2, <1>5, SameRank
<1>6. ASSUME rows' = IF Touched(r) = {} THEN rows ELSE (rows \ Touched(r)) \union {new},
             Spawn(Batch(FALSE, r.item) \o Batch(TRUE, i)),
             IF Stale(r)
               THEN /\ low' = low \union Vals({r})
                    /\ high' = high \union Vals(Touched(r))
                               \union (IF Touched(r) = {} THEN Vals({new}) ELSE {})
               ELSE UNCHANGED <<low, high>>
      PROVE  RankInv'
  <2>1. /\ BatchesOK'
        /\ \A v \in Values : /\ Shown(v) \in Int /\ Shown(v)' \in Int
                             /\ Shown(v)' = Shown(v) + Has(i, v) - Has(r.item, v)
    BY <1>0, <1>1, <1>2, <1>4, <1>6, ChangeShows
  <2>2. CASE Touched(r) = {}
    <3>1. rows' = rows
      BY <1>6, <2>2
    <3>2. r \notin rows
      BY <1>0, <1>1, <2>2, OneTouched
    <3>3. low' = low \union Vals({r}) /\ high \subseteq high' /\ Vals({new}) \subseteq high'
      BY <1>6, <2>2, <3>2 DEF Stale
    <3>4. Finite' /\ \A v : Uses(v)' = Uses(v) /\ Uses(v) \in Nat
      BY <1>0, <3>1, UsesAre DEF Finite, Uses
    <3>5. ASSUME NEW v \in Values
          PROVE  /\ v \notin low' => Shown(v)' - Shown(v) >= Uses(v)' - Uses(v)
                 /\ v \notin high' => Shown(v)' - Shown(v) <= Uses(v)' - Uses(v)
      <4>1. Has(r.item, v) \in Nat /\ (v \notin low' => Has(r.item, v) = 0)
        BY <3>3, HasIs, NotAmong
      <4>2. Has(i, v) \in Nat /\ (v \notin high' => Has(i, v) = 0)
        BY <1>4, <3>3, HasIs, NotAmong
      <4> QED
        BY <2>1, <3>4, <4>1, <4>2
    <3> QED
      BY <2>1, <3>3, <3>4, <3>5, Settles
  <2>3. ASSUME NEW q \in rows, q.id = r.id, Touched(r) = {q} PROVE RankInv'
    <3>1. rows' = (rows \ {q}) \union {new}
      BY <1>6, <2>3
    <3>2. new \notin rows \ {q}
      BY <1>0, <1>4, <2>3 DEF TableOK, Unalike
    <3>3. Finite' /\ \A v : Uses(v)' = Uses(v) - Has(q.item, v) + Has(i, v) /\ Uses(v) \in Nat
      BY <1>0, <1>4, <3>1, <3>2, UsesInstead
    <3>4. \/ q = r /\ UNCHANGED <<low, high>>
          \/ low' = low \union Vals({r}) /\ high' = high \union Vals({q})
      <4>1. CASE r \in rows
        <5>1. Touched(r) = {r}
          BY <1>0, <1>1, <4>1, OneTouched
        <5> QED
          BY <1>6, <2>3, <4>1, <5>1 DEF Stale
      <4>2. CASE r \notin rows
        BY <1>6, <2>3, <4>2 DEF Stale
      <4> QED
        BY <4>1, <4>2
    <3>5. ASSUME NEW v \in Values
          PROVE  /\ v \notin low' => Shown(v)' - Shown(v) >= Uses(v)' - Uses(v)
                 /\ v \notin high' => Shown(v)' - Shown(v) <= Uses(v)' - Uses(v)
      <4>1. Has(r.item, v) \in Nat /\ Has(q.item, v) \in Nat /\ Has(i, v) \in Nat
        BY HasIs
      <4>2. \/ Has(r.item, v) = Has(q.item, v)
            \/ /\ v \notin low' => Has(r.item, v) = 0
               /\ v \notin high' => Has(q.item, v) = 0
        <5>1. CASE q = r
          BY <5>1
        <5>2. CASE low' = low \union Vals({r}) /\ high' = high \union Vals({q})
          BY <5>2, NotAmong
        <5> QED
          BY <3>4, <5>1, <5>2
      <4>3. /\ Shown(v) \in Int
            /\ Shown(v)' = Shown(v) + Has(i, v) - Has(r.item, v)
            /\ Uses(v)' = Uses(v) - Has(q.item, v) + Has(i, v) /\ Uses(v) \in Nat
        BY <2>1, <3>3
      <4> QED
        BY <4>1, <4>2, <4>3
    <3>6. low \subseteq low' /\ high \subseteq high'
      BY <3>4
    <3> QED
      BY <2>1, <3>3, <3>5, <3>6, Settles
  <2> QED
    BY <1>0, <1>1, <2>2, <2>3, OneTouched
<1> QED
  BY <1>3, <1>5, <1>6

\* The rows of an account that goes are not counted down.
LEMMA DropRank ==
  ASSUME Inv, RankInv, NEW u \in Users, AdminDeleteUser(u) PROVE RankInv'
<1>0. StatsOK /\ Finite /\ BatchesOK
  BY TypeParts DEF Inv, RankInv
<1>1. /\ rows' = rows \ RowsOf(u) /\ high' = high \union Vals(RowsOf(u))
      /\ UNCHANGED <<bg, count, low>>
  BY DEF AdminDeleteUser, stats
<1>2. Finite' /\ BatchesOK'
  <2>1. rows' \subseteq rows
    BY <1>1
  <2> QED
    BY <1>0, <1>1, <2>1, FS_Subset DEF Finite, BatchesOK, Busy
<1>3. ASSUME NEW v \in Values
      PROVE  /\ Uses(v)' <= Uses(v) /\ Uses(v) \in Nat /\ Uses(v)' \in Nat
             /\ v \notin high' => Uses(v)' = Uses(v)
  <2>1. /\ Uses(v) = Cardinality(Of(rows, v)) /\ Uses(v)' = Cardinality(Of(rows', v))
        /\ Uses(v) \in Nat /\ Uses(v)' \in Nat
    BY <1>0, <1>2, UsesAre
  <2>2. Of(rows, v) \subseteq rows /\ Of(rows', v) \subseteq Of(rows, v)
    BY <1>1 DEF Of
  <2>3. IsFiniteSet(Of(rows, v))
    BY <1>0, <2>2, FS_Subset DEF Finite
  <2>4. Cardinality(Of(rows', v)) <= Cardinality(Of(rows, v))
    BY <2>2, <2>3, FS_Subset
  <2>5. v \notin high' => Of(rows', v) = Of(rows, v)
    BY <1>1 DEF Of, Vals
  <2> QED
    BY <2>1, <2>4, <2>5
<1>4. ASSUME NEW v \in Values
      PROVE  /\ Shown(v) \in Int /\ Shown(v)' \in Int
             /\ v \notin low' => Shown(v)' - Shown(v) >= Uses(v)' - Uses(v)
             /\ v \notin high' => Shown(v)' - Shown(v) <= Uses(v)' - Uses(v)
  <2>1. Shown(v) \in Int /\ Shown(v)' = Shown(v)
    BY <1>0, <1>1, NothingShows
  <2> QED
    BY <1>3, <2>1
<1> QED
  BY <1>1, <1>2, <1>4, Settles

\* A row that comes, goes or changes without statistics: the histories name its values.
LEMMA UnreportedRank ==
  ASSUME Inv, RankInv, NEW h \in Handlers, Unreported(h) PROVE RankInv'
<1>0. TypeOK /\ StatsOK /\ Finite /\ BatchesOK
  BY TypeParts DEF Inv, RankInv
<1>1. /\ low' = low \union Vals(rows' \ rows) /\ high' = high \union Vals(rows \ rows')
      /\ UNCHANGED <<bg, count>>
  BY DEF Unreported, stats
<1>2. Finite'
  <2>1. Adds(h) \/ Erases(h) \/ Changes(h)
    BY <1>0, UnreportedKind
  <2>2. \E x : rows' \subseteq rows \union {x}
    BY <2>1 DEF Adds, Erases, Changes
  <2>3. PICK x : rows' \subseteq rows \union {x}
    BY <2>2
  <2>4. IsFiniteSet(rows \union {x})
    BY <1>0, FS_AddElement DEF Finite
  <2> QED
    BY <2>3, <2>4, FS_Subset DEF Finite
<1>3. BatchesOK'
  BY <1>0, <1>1 DEF BatchesOK, Busy
<1>4. ASSUME NEW v \in Values
      PROVE  /\ Uses(v) \in Nat /\ Uses(v)' \in Nat
             /\ v \notin low' => Uses(v)' <= Uses(v)
             /\ v \notin high' => Uses(v) <= Uses(v)'
  <2>1. /\ Uses(v) = Cardinality(Of(rows, v)) /\ Uses(v)' = Cardinality(Of(rows', v))
        /\ Uses(v) \in Nat /\ Uses(v)' \in Nat
    BY <1>0, <1>2, UsesAre
  <2>2. IsFiniteSet(Of(rows, v)) /\ IsFiniteSet(Of(rows', v))
    <3>1. Of(rows, v) \subseteq rows /\ Of(rows', v) \subseteq rows'
      BY DEF Of
    <3> QED
      BY <1>0, <1>2, <3>1, FS_Subset DEF Finite
  <2>3. v \notin low' => Of(rows', v) \subseteq Of(rows, v)
    BY <1>1 DEF Of, Vals
  <2>4. v \notin high' => Of(rows, v) \subseteq Of(rows', v)
    BY <1>1 DEF Of, Vals
  <2> QED
    BY <2>1, <2>2, <2>3, <2>4, FS_Subset
<1>5. ASSUME NEW v \in Values
      PROVE  /\ Shown(v) \in Int /\ Shown(v)' \in Int
             /\ v \notin low' => Shown(v)' - Shown(v) >= Uses(v)' - Uses(v)
             /\ v \notin high' => Shown(v)' - Shown(v) <= Uses(v)' - Uses(v)
  <2>1. Shown(v) \in Int /\ Shown(v)' = Shown(v)
    BY <1>0, <1>1, NothingShows
  <2> QED
    BY <1>4, <2>1
<1> QED
  BY <1>1, <1>2, <1>3, <1>5, Settles

\* The steps of one direction are dropped, and the histories name their values.
LEMMA FailsRank ==
  ASSUME TypeOK, RankInv, NEW w \in Workers, BatchFails(w) PROVE RankInv'
<1>0. StatsOK /\ Finite /\ BatchesOK
  BY TypeParts DEF RankInv
<1> DEFINE seq     == bg[w]
           d       == Head(seq).up
           dropped == {seq[k].v : k \in Same(seq)}
<1>1. /\ seq \in Seq(Steps) /\ seq # <<>> /\ InOrder(seq) /\ bg' = [bg EXCEPT ![w] = Rest(seq)]
      /\ UNCHANGED <<rows, count>>
  BY <1>0 DEF BatchFails, StatsOK, BatchesOK, table
<1>2. d \in BOOLEAN
  <2>1. Head(seq) \in Steps
    BY <1>1, HeadTailProperties
  <2> QED
    BY <2>1 DEF Steps
<1>3. /\ InOrder(Rest(seq))
      /\ \A s : s \in Range(Rest(seq)) <=> s \in Range(seq) /\ s.up # d
      /\ \A s \in Range(seq) : s.up = d => s.v \in dropped
  BY <1>1, RestInOrder
<1>4. \/ d = TRUE /\ low' = low \union dropped /\ UNCHANGED high
      \/ d = FALSE /\ high' = high \union dropped /\ UNCHANGED low
  BY <1>2 DEF BatchFails
<1> HIDE DEF d, dropped
<1>5. BatchesOK'
  BY <1>0, <1>1, <1>3, BatchesShrink
<1>6. Finite' /\ \A v : Uses(v)' = Uses(v) /\ Uses(v) \in Nat
  BY <1>0, <1>1, UsesAre DEF Finite, Uses
<1>7. ASSUME NEW v, NEW up \in BOOLEAN
      PROVE  /\ Waiting(up, v) \in Nat /\ Waiting(up, v)' \in Nat
             /\ Waiting(up, v)' <= Waiting(up, v)
             /\ up # d \/ v \notin dropped => Waiting(up, v)' = Waiting(up, v)
  <2> DEFINE was == One(Step(up, v) \in Range(seq))
             is  == One(Step(up, v) \in Range(Rest(seq)))
  <2>1. /\ Waiting(up, v) \in Nat /\ Waiting(up, v)' \in Nat
        /\ Waiting(up, v)' + was = Waiting(up, v) + is
    BY <1>0, <1>1, SentStep DEF BatchesOK
  <2>2. Step(up, v).up = up /\ Step(up, v).v = v
    BY DEF Step
  <2>3. was \in Nat /\ is \in Nat /\ is <= was
    BY <1>3 DEF One
  <2>4. up # d \/ v \notin dropped => is = was
    <3>1. CASE Step(up, v) \in Range(seq) /\ up = d
      BY <1>3, <2>2, <3>1
    <3>2. CASE Step(up, v) \in Range(seq) /\ up # d
      BY <1>3, <2>2, <3>2 DEF One
    <3>3. CASE Step(up, v) \notin Range(seq)
      BY <1>3, <3>3 DEF One
    <3> QED
      BY <3>1, <3>2, <3>3
  <2> HIDE DEF was, is
  <2> QED
    BY <2>1, <2>3, <2>4
<1>8. ASSUME NEW v \in Values
      PROVE  /\ Shown(v) \in Int /\ Shown(v)' \in Int
             /\ v \notin low' => Shown(v)' - Shown(v) >= Uses(v)' - Uses(v)
             /\ v \notin high' => Shown(v)' - Shown(v) <= Uses(v)' - Uses(v)
  <2> DEFINE ups   == Waiting(TRUE, v)
             downs == Waiting(FALSE, v)
  <2>1. /\ ups \in Nat /\ ups' \in Nat /\ ups' <= ups
        /\ TRUE # d \/ v \notin dropped => ups' = ups
    BY <1>7
  <2>2. /\ downs \in Nat /\ downs' \in Nat /\ downs' <= downs
        /\ FALSE # d \/ v \notin dropped => downs' = downs
    BY <1>7
  <2>3. /\ Shown(v) = Counted(v) + ups - downs
        /\ Shown(v)' = Counted(v)' + ups' - downs'
    BY DEF Shown
  <2>4. Counted(v)' = Counted(v) /\ Counted(v) \in Nat
    BY <1>0, <1>1, Numbers DEF Counted
  <2>5. Uses(v)' = Uses(v) /\ Uses(v) \in Nat
    BY <1>6
  <2> HIDE DEF ups, downs
  <2>6. CASE d = TRUE /\ low' = low \union dropped
    <3>1. downs' = downs /\ (v \notin low' => ups' = ups)
      BY <2>1, <2>2, <2>6
    <3> QED
      BY <2>1, <2>2, <2>3, <2>4, <2>5, <3>1
  <2>7. CASE d = FALSE /\ high' = high \union dropped
    <3>1. ups' = ups /\ (v \notin high' => downs' = downs)
      BY <2>1, <2>2, <2>7
    <3> QED
      BY <2>1, <2>2, <2>3, <2>4, <2>5, <3>1
  <2> QED
    BY <1>4, <2>6, <2>7
<1>9. low \subseteq low' /\ high \subseteq high'
  BY <1>4
<1> QED
  BY <1>5, <1>6, <1>8, <1>9, Settles

\* To begin with there are no rows, no counts and nothing on its way.
LEMMA InitRank == Init => RankInv
<1> SUFFICES ASSUME Init PROVE RankInv
  OBVIOUS
<1>1. Finite
  BY FS_EmptySet DEF Init, Finite
<1>2. BatchesOK
  <2>1. Busy = {}
    BY DEF Init, Busy
  <2>2. Len(<<>>) = 0 /\ 1..0 = {} /\ 0 \in 0..0
    OBVIOUS
  <2>3. InOrder(<<>>)
    BY <2>2 DEF InOrder
  <2> QED
    BY <2>1, <2>3, FS_EmptySet DEF Init, BatchesOK
<1>3. ASSUME NEW v \in Values PROVE Law(v)
  <2>1. {r \in rows : v \in Range(ValuesOf[r.item])} = {}
    BY DEF Init
  <2>2. Uses(v) = 0
    BY <2>1, FS_EmptySet DEF Uses
  <2>3. ASSUME NEW up PROVE Waiting(up, v) = 0
    <3>1. {w \in Workers : Step(up, v) \in Range(bg[w])} = {}
      BY DEF Init, Range
    <3> QED
      BY <3>1, FS_EmptySet DEF Waiting
  <2>4. Counted(v) = 0
    BY DEF Init, Counted
  <2>5. Waiting(TRUE, v) = 0 /\ Waiting(FALSE, v) = 0
    BY <2>3
  <2>6. Shown(v) = 0
    <3>1. Shown(v) = Counted(v) + Waiting(TRUE, v) - Waiting(FALSE, v)
      BY DEF Shown
    <3>2. 0 + 0 - 0 = 0
      OBVIOUS
    <3> QED
      BY <2>4, <2>5, <3>1, <3>2, Zenon
  <2>7. 0 >= 0 /\ 0 <= 0
    OBVIOUS
  <2>8. Shown(v) >= Uses(v) /\ Shown(v) <= Uses(v)
    BY <2>2, <2>6, <2>7, Zenon
  <2> QED
    BY <2>8 DEF Law
<1> QED
  BY <1>1, <1>2, <1>3 DEF RankInv

\* Every step keeps the law.
LEMMA StepRank == ASSUME Unrepeated, Inv, RankInv, [Next]_vars PROVE RankInv'
<1>0. TypeOK
  BY DEF Inv
<1>1. ASSUME NEW w \in Workers, Statistics(w) PROVE RankInv'
  BY <1>0, <1>1, CountsRank, FailsRank DEF Statistics
<1>2. ASSUME NEW h \in Handlers, CreateInDB(h) \/ DeleteInDB(h) \/ UpdateInDB(h) PROVE RankInv'
  BY <1>2, AddRank, EraseRank, ChangeRank
<1>3. ASSUME NEW h \in Handlers, Chats(h) \/ Api(h) PROVE UNCHANGED <<rows, bg, count, low, high>>
  BY <1>3 DEF Chats, Api, ChatAdd, ChatDelete, ChatArticle, CleanCommentList,
              CreateSubscription, DeleteSubscription, UpdateSubscription, Data, table, stats, drift
<1>4. ASSUME NEW h \in Handlers, Handle(h), ~CreateInDB(h), ~DeleteInDB(h), ~UpdateInDB(h),
             ~Unreported(h)
      PROVE  UNCHANGED <<rows, bg, count, low, high>>
  BY <1>4 DEF Handle, CleanNext, CountArticles, FindAccount, GetMaxSubscriptions, CountByUserID,
              BoardNotFound, FindByBoardAndValue, Own, StatementFails, Quiet, Data, table, stats,
              drift
<1>5. ASSUME NEW u \in Users, AdminDeleteUser(u) PROVE RankInv'
  BY <1>5, DropRank
<1>6. ASSUME Administer, ~\E u \in Users : AdminDeleteUser(u)
      PROVE  UNCHANGED <<rows, bg, count, low, high>>
  BY <1>6 DEF Administer, AdminUpdateUser, AdminCreateRole, AdminUpdateRole, AdminDeleteRole,
              table, stats, drift
<1>7. CASE UNCHANGED vars
  BY <1>7, SameRank DEF vars, table, stats, drift
<1>8. ASSUME NEW h \in Handlers, Unreported(h) PROVE RankInv'
  BY <1>8, UnreportedRank
<1> QED
  BY <1>1, <1>2, <1>3, <1>4, <1>5, <1>6, <1>7, <1>8, SameRank DEF Next

\* The ranking agrees with the table in whichever order the statistics run, for any
\* number of requests, goroutines and failures, except for the values the histories
\* name; it never shows less than there is, so that a row whose increments are done is
\* listed, and never more.  No subscription may name a value twice: one that does is
\* counted more than once (subscription.go:81, 351, 397; top/postgres.go:24-56).
THEOREM RankingAgrees == Unrepeated => (Spec => []RankLaw)
<1> SUFFICES ASSUME Unrepeated PROVE Spec => []RankLaw
  OBVIOUS
<1>1. Inv /\ RankInv => RankLaw
  <2> SUFFICES ASSUME Inv, RankInv, NEW v \in Values
               PROVE  /\ v \notin low  => /\ Shown(v) >= Uses(v)
                                          /\ Uses(v) > Waiting(TRUE, v) => v \in Ranked
                      /\ v \notin high => Shown(v) <= Uses(v)
    BY DEF RankLaw
  <2> DEFINE ups   == Waiting(TRUE, v)
             downs == Waiting(FALSE, v)
  <2>0. StatsOK /\ Finite /\ BatchesOK
    BY TypeParts DEF Inv, RankInv
  <2>1. Law(v)
    BY DEF RankInv
  <2>2. Uses(v) \in Nat
    BY <2>0, UsesAre
  <2>3. ups \in Nat /\ downs \in Nat
    <3>1. ASSUME NEW up PROVE Waiting(up, v) \in Nat
      <4>1. {w \in Workers : Step(up, v) \in Range(bg[w])} \subseteq Busy
        BY DEF Busy, Range
      <4> QED
        BY <2>0, <4>1, FS_Subset, FS_CardinalityType DEF Waiting, BatchesOK
    <3> QED
      BY <3>1
  <2>4. Counted(v) \in Nat /\ Shown(v) = Counted(v) + ups - downs
    BY <2>0, Numbers
  <2> HIDE DEF ups, downs
  <2>5. v \notin low /\ Uses(v) > ups => Counted(v) > 0
    BY <2>1, <2>2, <2>3, <2>4 DEF Law
  <2>6. Uses(v) > ups /\ v \notin low => v \in Ranked
    BY <2>5 DEF Ranked
  <2> QED
    BY <2>1, <2>6 DEF Law, ups
<1>2. Inv /\ RankInv /\ [Next]_vars => (Inv /\ RankInv)'
  BY StepInv, StepRank
<1> QED
  BY <1>1, <1>2, InitInv, InitRank, PTL DEF Spec
=============================================================================
