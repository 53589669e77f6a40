------------------------------ MODULE Commands ------------------------------
(***************************************************************************)
(* Subscriptions as the handlers change them: chat commands that name      *)
(* several boards and words and work them off one row at a time, and API   *)
(* requests for one row.  Each statement is a step; other handlers run     *)
(* between two of them.  A change of a row starts a goroutine that updates *)
(* the statistics behind the ranking, one value at a time.  Administrators *)
(* change roles, limits and accounts meanwhile.                            *)
(*                                                                         *)
(* An item is what a command can subscribe to: a board, a type and a value.*)
(* The Redis copy is the subject of SubSync.                               *)
(***************************************************************************)
EXTENDS Integers, Sequences, FiniteSets, Functions

CONSTANTS
  Users,       \* accounts
  Items,       \* <<board, sub_type, value>>, in either spelling of the board
  Articles,    \* the items of type "article"
  Folded,      \* Items -> Items: the item with its board in lower case
  ValuesOf,    \* Items -> Seq(Values): the statistics an item counts for
  Values,      \* <<board, sub_type, word>> of subscription_stats
  Inputs,      \* lists of items that commands name
  Roles,       \* role names
  Seed,        \* the rows of role_limits to begin with: a limit for each role, or None
  Offers,      \* limits that administrators set
  RoleOf,      \* Users -> Roles: the accounts' roles to begin with
  Given,       \* the roles an administrator may give: "admin" and "user"
  Built,       \* the roles that cannot be deleted: "admin" and "user"
  Default,     \* the limit of a role that has no row
  ArticleMax,  \* subArticlesLimit
  Handlers,    \* slots for requests
  Workers,     \* slots for statistics goroutines
  None,        \* no row
  Gone,        \* the role of a deleted account
  MaxRequests, \* bound: requests and commands
  MaxFaults    \* bound: statements that fail

ASSUME CommandsAssumption ==
  /\ Articles \subseteq Items
  /\ Folded \in [Items -> Items]
  /\ ValuesOf \in [Items -> Seq(Values)]
  /\ Inputs \subseteq Seq(Items) \ {<<>>}
  /\ Seed \in [Roles -> Int \union {None}] /\ Offers \subseteq Int
  /\ RoleOf \in [Users -> Roles]
  /\ Given \subseteq Built /\ Built \subseteq Roles
  /\ Default \in Nat /\ ArticleMax \in Nat
  /\ None \notin Int /\ Gone \notin Roles
  /\ MaxRequests \in Nat /\ MaxFaults \in Nat
  /\ IsFiniteSet(Handlers) /\ Handlers # {}

VARIABLES
  role,     \* role of each account, Gone when it is deleted
  limits,   \* max_subscriptions of each role, None without a row
  rows,     \* the subscriptions
  nextId,   \* the SERIAL of subscriptions.id
  hnd,      \* the handlers
  bg,       \* what is left to do for each statistics goroutine
  count,    \* subscription_stats.count, None without a row
  asked,    \* requests so far
  faults,   \* failures so far
  peak,     \* history: the highest limit a user was checked against, -1 for none
  low,      \* history: values that were counted down for a row that was
            \* not there any more, or not counted up because of a failure
  high      \* history: values that stay counted without a row

table == <<rows, nextId>>
stats == <<bg, count>>
drift == <<low, high>>
vars  == <<role, limits, table, hnd, stats, asked, faults, peak, drift>>

-----------------------------------------------------------------------------
RowsOf(u) == {r \in rows : r.user = u}

NoRow == [id |-> 0, user |-> None, item |-> None]
Idle  == [pc |-> "idle", op |-> None, user |-> None, first |-> FALSE, todo |-> <<>>,
          role |-> None, max |-> 0, row |-> NoRow, list |-> {}]

Init ==
  /\ role = RoleOf /\ limits = Seed
  /\ rows = {} /\ nextId = 1
  /\ hnd = [h \in Handlers |-> Idle]
  /\ bg = [w \in Workers |-> <<>>] /\ count = [v \in Values |-> None]
  /\ asked = 0 /\ faults = 0
  /\ peak = [u \in Users |-> 0]
  /\ low = {} /\ high = {}

(***************************************************************************)
(* Statistics.  A goroutine runs its statements one after the other, and   *)
(* gives up at the first that fails; nothing orders two goroutines.        *)
(***************************************************************************)
Step(up, v)      == [up |-> up, v |-> v]
Batch(up, item)  == [i \in DOMAIN ValuesOf[item] |-> Step(up, ValuesOf[item][i])]

Spawn(steps) ==
  IF steps = <<>> THEN UNCHANGED bg
  ELSE \E w \in Workers : bg[w] = <<>> /\ bg' = [bg EXCEPT ![w] = steps]

Counted(v) == IF count[v] = None THEN 0 ELSE count[v]

Increment(w) == LET s == Head(bg[w]) IN
  /\ bg[w] # <<>> /\ s.up
  /\ count' = [count EXCEPT ![s.v] = Counted(s.v) + 1]
  /\ bg' = [bg EXCEPT ![w] = Tail(@)]
  /\ UNCHANGED <<role, limits, table, hnd, asked, faults, peak, drift>>

\* UPDATE ... GREATEST(count - 1, 0): no row is no error, and neither is zero.
\* The increment it has overtaken then counts for nothing.
Decrement(w) == LET s == Head(bg[w]) IN
  /\ bg[w] # <<>> /\ ~s.up
  /\ IF Counted(s.v) = 0
       THEN high' = high \union {s.v} /\ UNCHANGED count
       ELSE count' = [count EXCEPT ![s.v] = @ - 1] /\ UNCHANGED high
  /\ bg' = [bg EXCEPT ![w] = Tail(@)]
  /\ UNCHANGED <<role, limits, table, hnd, asked, faults, peak, low>>

\* A statement fails: the rest of its batch is dropped.  The two batches of an
\* update are told apart by their direction.
Same(seq) == {i \in DOMAIN seq : seq[i].up = Head(seq).up}
Rest(seq) == SubSeq(seq, Cardinality(Same(seq)) + 1, Len(seq))
BatchFails(w) == LET dropped == {bg[w][i].v : i \in Same(bg[w])} IN
  /\ bg[w] # <<>> /\ faults < MaxFaults
  /\ faults' = faults + 1
  /\ bg' = [bg EXCEPT ![w] = Rest(@)]
  /\ IF Head(bg[w]).up
       THEN low' = low \union dropped /\ UNCHANGED high
       ELSE high' = high \union dropped /\ UNCHANGED low
  /\ UNCHANGED <<role, limits, table, hnd, count, asked, peak>>

\* What the ranking lists.
Ranked == {v \in Values : Counted(v) > 0}

(***************************************************************************)
(* Requests arrive.  A chat command checks the limit once before its list  *)
(* and again for each row; an API request is about one row.                *)
(***************************************************************************)
Live(u) == role[u] # Gone
Go(h, step) == hnd' = [hnd EXCEPT ![h].pc = step]
End(h)      == hnd' = [hnd EXCEPT ![h] = Idle]
Ask         == asked < MaxRequests /\ asked' = asked + 1
New(pc, op, u) == [Idle EXCEPT !.pc = pc, !.op = op, !.user = u]
Begin(h, r) == Ask /\ hnd[h] = Idle /\ hnd' = [hnd EXCEPT ![h] = r]
Data        == <<role, limits, table, stats, faults, peak, drift>>
Quiet       == <<asked, Data>>

\* handleKeyword, handleAuthor and handlePushSum, with "add" or with "delete".
ChatAdd(h, u, list) ==
  /\ Live(u) /\ Range(list) \cap Articles = {}
  /\ Begin(h, [New("account", "add", u) EXCEPT !.first = TRUE, !.todo = list])
  /\ UNCHANGED Data

ChatDelete(h, u, list) ==
  /\ Live(u)
  /\ Begin(h, [New("find", "delete", u) EXCEPT !.todo = list])
  /\ UNCHANGED Data

\* handleComment: an article has a limit of its own, and no first check.
ChatArticle(h, u, a) ==
  /\ Live(u) /\ a \in Articles
  /\ Begin(h, [New("articles", "add", u) EXCEPT !.todo = <<a>>])
  /\ UNCHANGED Data

CreateSubscription(h, u, i) ==
  /\ i \notin Articles
  /\ Begin(h, [New("account", "add", u) EXCEPT !.todo = <<i>>])
  /\ UNCHANGED Data

\* cleanCommentList: the rows of the articles that have no key any more.
CleanCommentList(h, u) ==
  /\ Live(u)
  /\ LET list == {r \in RowsOf(u) : r.item \in Articles} IN
       /\ list # {}
       /\ Begin(h, [New("clean", "clean", u) EXCEPT !.list = list])
  /\ UNCHANGED Data

CleanNext(h) ==
  /\ hnd[h].pc = "clean"
  /\ \E r \in hnd[h].list :
       LET left == hnd[h].list \ {r} IN
         \/ hnd' = [hnd EXCEPT ![h].pc = "own", ![h].row = r, ![h].list = left]
         \/ hnd' = [hnd EXCEPT ![h] = IF left = {} THEN Idle ELSE [hnd[h] EXCEPT !.list = left]]
  /\ UNCHANGED Quiet

\* DeleteSubscription and UpdateSubscription name any id.  The request of an
\* administrator runs as the owner's.
DeleteSubscription(h, u, r) ==
  /\ r \in rows
  /\ Begin(h, [New("own", "delete", u) EXCEPT !.row = r])
  /\ UNCHANGED Data

UpdateSubscription(h, u, r, i) ==
  /\ r \in rows /\ i \notin Articles
  /\ Begin(h, [New("own", "update", u) EXCEPT !.row = r, !.todo = <<i>>])
  /\ UNCHANGED Data

(***************************************************************************)
(* Create: account, limit, number of rows, board, INSERT.                  *)
(***************************************************************************)
\* The next item of the list; the command is done after the last one.
Advance(h) ==
  LET old  == hnd[h]
      left == IF old.todo = <<>> THEN <<>> ELSE Tail(old.todo)
      step == IF old.op = "add" THEN "account" ELSE "find"
  IN  hnd' = [hnd EXCEPT ![h] =
        IF old.list # {} THEN [old EXCEPT !.pc = "clean", !.row = NoRow]
        ELSE IF left = <<>> THEN Idle
        ELSE [old EXCEPT !.pc = step, !.todo = left, !.role = None, !.max = 0, !.row = NoRow]]

CountArticles(h) == LET u == hnd[h].user IN
  /\ hnd[h].pc = "articles"
  /\ IF Cardinality({r \in RowsOf(u) : r.item \in Articles}) >= ArticleMax
       THEN End(h) ELSE Go(h, "account")
  /\ UNCHANGED Quiet

FindAccount(h) == LET u == hnd[h].user IN
  /\ hnd[h].pc = "account"
  /\ IF Live(u) THEN hnd' = [hnd EXCEPT ![h].pc = "limit", ![h].role = role[u]] ELSE End(h)
  /\ UNCHANGED Quiet

\* GetMaxSubscriptions; below zero there is no limit and the rows are not counted.
\* The role was read before, so it may be one that has been deleted.
MaxOf(r)       == IF limits[r] = None THEN Default ELSE limits[r]
Higher(p, max) == IF p < 0 \/ max < 0 THEN -1 ELSE IF p < max THEN max ELSE p
Passed(h)      == IF hnd[h].first
                    THEN hnd' = [hnd EXCEPT ![h].pc = "account", ![h].first = FALSE]
                    ELSE Go(h, "insert")
GetMaxSubscriptions(h) == LET u == hnd[h].user  max == MaxOf(hnd[h].role) IN
  /\ hnd[h].pc = "limit"
  /\ peak' = [peak EXCEPT ![u] = Higher(@, max)]
  /\ IF max < 0 THEN Passed(h) ELSE hnd' = [hnd EXCEPT ![h].pc = "count", ![h].max = max]
  /\ UNCHANGED <<role, limits, table, stats, asked, faults, drift>>

CountOff(h) == LET u == hnd[h].user IN   \* mutant: lets one row too many pass
  /\ hnd[h].pc = "count"
  /\ IF Cardinality(RowsOf(u)) > hnd[h].max THEN End(h) ELSE Passed(h)
  /\ UNCHANGED Quiet

CountByUserID(h) == LET u == hnd[h].user IN
  /\ hnd[h].pc = "count"
  /\ IF Cardinality(RowsOf(u)) >= hnd[h].max THEN End(h) ELSE Passed(h)
  /\ UNCHANGED Quiet

\* A board that does not exist, and a statement that fails, end the command: what it
\* has added before stays.
BoardNotFound(h) ==
  /\ hnd[h].pc \in {"insert", "update"} /\ End(h)
  /\ UNCHANGED Quiet

StatementFails(h) ==
  /\ hnd[h].pc \notin {"idle", "clean"} /\ faults < MaxFaults
  /\ faults' = faults + 1
  /\ IF hnd[h].op = "clean" THEN Advance(h) ELSE End(h)
  /\ UNCHANGED <<role, limits, table, stats, asked, peak, drift>>

CreateAgain(h) == LET u == hnd[h].user  i == Head(hnd[h].todo) IN   \* mutant: no UNIQUE
  /\ hnd[h].pc = "insert"
  /\ IF ~Live(u) THEN End(h) /\ UNCHANGED <<table, bg>>
     ELSE /\ nextId' = nextId + 1
          /\ rows' = rows \union {[id |-> nextId, user |-> u, item |-> i]}
          /\ Spawn(Batch(TRUE, i))
          /\ Advance(h)
  /\ UNCHANGED <<role, limits, count, asked, faults, peak, drift>>

\* INSERT: the foreign key fails for a deleted account, and a row that is there is
\* skipped by a command.
CreateInDB(h) == LET u == hnd[h].user  i == Head(hnd[h].todo) IN
  /\ hnd[h].pc = "insert"
  /\ CASE ~Live(u) -> End(h) /\ UNCHANGED <<table, bg>>
       [] Live(u) /\ (\E r \in RowsOf(u) : r.item = i) -> Advance(h) /\ UNCHANGED <<table, bg>>
       [] OTHER ->
            /\ nextId' = nextId + 1
            /\ rows' = rows \union {[id |-> nextId, user |-> u, item |-> i]}
            /\ Spawn(Batch(TRUE, i))
            /\ Advance(h)
  /\ UNCHANGED <<role, limits, count, asked, faults, peak, drift>>

(***************************************************************************)
(* DeleteByValue, Delete and Update.                                       *)
(***************************************************************************)
\* One of the rows that match; the spelling of the board does not matter.
FindByBoardAndValue(h) == LET u == hnd[h].user  i == Head(hnd[h].todo)
                              found == {r \in RowsOf(u) : Folded[r.item] = Folded[i]} IN
  /\ hnd[h].pc = "find"
  /\ IF found = {} THEN Advance(h)
     ELSE \E r \in found : hnd' = [hnd EXCEPT ![h].pc = "own", ![h].row = r]
  /\ UNCHANGED Quiet

OwnAnyones(h) == LET r == hnd[h].row IN   \* mutant: the owner is not compared
  /\ hnd[h].pc = "own"
  /\ \/ \E now \in rows : /\ now.id = r.id
                          /\ hnd' = [hnd EXCEPT ![h].row = now,
                               ![h].pc = IF hnd[h].op = "update" THEN "update" ELSE "erase"]
     \/ (\A now \in rows : now.id # r.id) /\ Advance(h)
  /\ UNCHANGED Quiet

\* FindByID and the check of the owner; the row is kept for what follows.
Own(h) == LET r == hnd[h].row IN
  /\ hnd[h].pc = "own"
  /\ \/ \E now \in rows :
          /\ now.id = r.id /\ now.user = hnd[h].user
          /\ hnd' = [hnd EXCEPT ![h].row = now,
                                ![h].pc = IF hnd[h].op = "update" THEN "update" ELSE "erase"]
     \/ ~(\E now \in rows : now.id = r.id /\ now.user = hnd[h].user) /\ Advance(h)
  /\ UNCHANGED Quiet

\* The statistics take the row that was read, whatever the statement has found.
Touched(r)  == {now \in rows : now.id = r.id}
Vals(set)   == UNION {Range(ValuesOf[r.item]) : r \in set}
Stale(r)    == r \notin rows
MissedBy(r) == IF Stale(r) THEN /\ low' = low \union Vals({r})
                                /\ high' = high \union Vals(Touched(r))
                           ELSE UNCHANGED drift

DeleteTwice(h) == LET r == hnd[h].row IN   \* mutant: the decrement is sent twice
  /\ hnd[h].pc = "erase"
  /\ rows' = rows \ Touched(r)
  /\ Spawn(Batch(FALSE, r.item) \o Batch(FALSE, r.item)) /\ MissedBy(r) /\ Advance(h)
  /\ UNCHANGED <<role, limits, nextId, count, asked, faults, peak>>

DeleteInDB(h) == LET r == hnd[h].row IN
  /\ hnd[h].pc = "erase"
  /\ rows' = rows \ Touched(r)
  /\ Spawn(Batch(FALSE, r.item)) /\ MissedBy(r)
  /\ Advance(h)
  /\ UNCHANGED <<role, limits, nextId, count, asked, faults, peak>>

\* UPDATE ... WHERE id, after the board has been found.
UpdateInDB(h) == LET r == hnd[h].row  i == Head(hnd[h].todo)  new == [r EXCEPT !.item = i] IN
  /\ hnd[h].pc = "update"
  /\ IF Touched(r) # {} /\ \E q \in RowsOf(r.user) : q.item = i /\ q.id # r.id
       THEN UNCHANGED <<rows, bg, drift>>
       ELSE /\ rows' = IF Touched(r) = {} THEN rows ELSE (rows \ Touched(r)) \union {new}
            /\ Spawn(Batch(FALSE, r.item) \o Batch(TRUE, i))
            /\ IF Stale(r)
                 THEN /\ low' = low \union Vals({r})
                      /\ high' = high \union Vals(Touched(r))
                                 \union (IF Touched(r) = {} THEN Vals({new}) ELSE {})
                 ELSE UNCHANGED drift
  /\ End(h)
  /\ UNCHANGED <<role, limits, nextId, count, asked, faults, peak>>

\* The statement is done but its answer is lost: the request fails as if it were not,
\* and no statistics follow.
Unreported(h) == LET q == hnd[h]  u == q.user  r == q.row  i == Head(q.todo) IN
  /\ faults < MaxFaults /\ faults' = faults + 1
  /\ \/ /\ q.pc = "insert" /\ Live(u) /\ ~(\E o \in RowsOf(u) : o.item = i)
        /\ rows' = rows \union {[id |-> nextId, user |-> u, item |-> i]} /\ nextId' = nextId + 1
     \/ q.pc = "erase" /\ rows' = rows \ Touched(r) /\ UNCHANGED nextId
     \/ /\ q.pc = "update" /\ Touched(r) # {} /\ ~(\E o \in RowsOf(r.user) : o.item = i /\ o.id # r.id)
        /\ rows' = (rows \ Touched(r)) \union {[r EXCEPT !.item = i]} /\ UNCHANGED nextId
  /\ low' = low \union Vals(rows' \ rows) /\ high' = high \union Vals(rows \ rows')
  /\ IF q.op = "clean" THEN Advance(h) ELSE End(h)
  /\ UNCHANGED <<role, limits, stats, asked, peak>>

(***************************************************************************)
(* Administrators.  A role is only given to accounts by AdminUpdateUser,   *)
(* which gives no other than the built-in ones, so that no account gets a  *)
(* role between the two statements of AdminDeleteRole.                     *)
(***************************************************************************)
AdminUpdateUser(u, r) ==
  /\ Ask /\ Live(u) /\ r \in Given /\ limits[r] # None
  /\ role' = [role EXCEPT ![u] = r]
  /\ UNCHANGED <<limits, table, hnd, stats, faults, peak, drift>>

AdminDeleteUser(u) ==
  /\ Ask /\ Live(u)
  /\ role' = [role EXCEPT ![u] = Gone]
  /\ rows' = rows \ RowsOf(u)
  /\ high' = high \union Vals(RowsOf(u))
  /\ UNCHANGED <<limits, nextId, hnd, stats, faults, peak, low>>

AdminCreateRole(r, max) ==
  /\ Ask /\ limits[r] = None
  /\ limits' = [limits EXCEPT ![r] = max]
  /\ UNCHANGED <<role, table, hnd, stats, faults, peak, drift>>

AdminUpdateRole(r, max) ==
  /\ Ask /\ limits[r] # None
  /\ limits' = [limits EXCEPT ![r] = max]
  /\ UNCHANGED <<role, table, hnd, stats, faults, peak, drift>>

AdminDeleteRole(r) ==
  /\ Ask /\ r \notin Built /\ limits[r] # None
  /\ \A u \in Users : role[u] # r
  /\ limits' = [limits EXCEPT ![r] = None]
  /\ UNCHANGED <<role, table, hnd, stats, faults, peak, drift>>

Chats(h) == \E u \in Users :
  \/ \E list \in Inputs : ChatAdd(h, u, list) \/ ChatDelete(h, u, list)
  \/ \E a \in Articles : ChatArticle(h, u, a)
  \/ CleanCommentList(h, u)

Api(h) == \E u \in Users :
  \/ \E i \in Items : CreateSubscription(h, u, i)
  \/ \E r \in rows : DeleteSubscription(h, u, r)
  \/ \E r \in rows, i \in Items : UpdateSubscription(h, u, r, i)

Handle(h) ==
  \/ CleanNext(h) \/ CountArticles(h) \/ FindAccount(h) \/ GetMaxSubscriptions(h)
  \/ CountByUserID(h) \/ BoardNotFound(h) \/ CreateInDB(h)
  \/ FindByBoardAndValue(h) \/ Own(h) \/ DeleteInDB(h) \/ UpdateInDB(h)
  \/ StatementFails(h) \/ Unreported(h)

Statistics(w) == Increment(w) \/ Decrement(w) \/ BatchFails(w)

Administer ==
  \/ \E u \in Users : AdminDeleteUser(u)
  \/ \E u \in Users, r \in Given : AdminUpdateUser(u, r)
  \/ \E r \in Roles, max \in Offers : AdminCreateRole(r, max) \/ AdminUpdateRole(r, max)
  \/ \E r \in Roles : AdminDeleteRole(r)

Next ==
  \/ \E h \in Handlers : Chats(h) \/ Api(h) \/ Handle(h)
  \/ \E w \in Workers : Statistics(w)
  \/ Administer

Spec == Init /\ [][Next]_vars
-----------------------------------------------------------------------------
Pcs == {"idle", "articles", "account", "limit", "count", "insert", "find", "own",
        "erase", "update", "clean"}
Ops == {"add", "delete", "update", "clean"}
RowType == [id : Nat \ {0}, user : Users, item : Items]
Request == [pc : Pcs, op : Ops \union {None}, user : Users \union {None}, first : BOOLEAN,
            todo : Seq(Items), role : Roles \union {None}, max : Int,
            row : RowType \union {NoRow}, list : SUBSET RowType]

\* Two rows are never alike: an id is used once, and (user, item) is unique
\* (init.sql:92).
Unalike == \A r, q \in rows :
  r.id = q.id \/ (r.user = q.user /\ r.item = q.item) => r = q

\* What a request has at each of its steps.
HasWhatItNeeds(q) ==
  /\ q.pc # "idle" => q.user \in Users /\ (q.op = "update" => q.todo # <<>>)
  /\ q.pc \in {"own", "erase", "update"} => q.row \in RowType
  /\ q.pc \in {"articles", "account", "limit", "count", "insert", "find"} => q.todo # <<>>
  /\ q.pc = "limit" => q.role \in Roles
  /\ q.pc = "update" => q.op = "update"

\* Every variable has its type, and the rows are what the table's constraints allow.
TypeOK ==
  /\ role \in [Users -> Roles \union {Gone}]
  /\ limits \in [Roles -> Int \union {None}]
  /\ rows \subseteq RowType /\ nextId \in Nat \ {0} /\ Unalike
  /\ hnd \in [Handlers -> Request] /\ \A h \in Handlers : HasWhatItNeeds(hnd[h])
  /\ bg \in [Workers -> Seq([up : BOOLEAN, v : Values])]
  /\ count \in [Values -> Nat \union {None}]
  /\ asked \in Nat /\ faults \in Nat /\ peak \in [Users -> Int]
  /\ low \subseteq Values /\ high \subseteq Values

-----------------------------------------------------------------------------
\* The rows that count for a value, and the statements that are on their way.
Uses(v)        == Cardinality({r \in rows : v \in Range(ValuesOf[r.item])})
Waiting(up, v) == Cardinality({w \in Workers : Step(up, v) \in Range(bg[w])})
Shown(v)       == Counted(v) + Waiting(TRUE, v) - Waiting(FALSE, v)

\* The ranking agrees with the rows, in whichever order the goroutines run, but for
\* the values the histories name.  It never shows less than there is, and lists a row
\* once its increments are done, unless two requests changed the row at once or an
\* increment failed; it never shows more, unless a decrement overtook the increment
\* or failed, the row went with its account, or two requests changed it at once.  A
\* statement whose answer is lost counts for nothing either.  All this is so as long as
\* no row names a value twice: 'A&A' is counted up twice (subscription.go:81, 176-207,
\* 351, 397; top/postgres.go:24-56).
RankLaw == \A v \in Values :
  /\ v \notin low  => Shown(v) >= Uses(v) /\ (Uses(v) > Waiting(TRUE, v) => v \in Ranked)
  /\ v \notin high => Shown(v) <= Uses(v)

\* Check and insert are two statements: requests that run at once may exceed the
\* highest limit they were checked against, each of them but one by one row, however
\* the role, its limit and the rows change meanwhile (subscription.go:134-151).
QuotaLaw == \A u \in Users :
  peak[u] < 0 \/ Cardinality(RowsOf(u)) <= peak[u] + Cardinality(Handlers) - 1

\* DELETE and UPDATE name the id only: the row that goes or changes still belongs to
\* the user the request has compared it with (subscription.go:310-400), or it goes
\* with its account.  Rows are only made for accounts there are.
OwnRowsOnly == [][
  /\ \A r \in rows \ rows' :
       \/ role'[r.user] = Gone
       \/ \E h \in Handlers : /\ hnd[h].pc \in {"erase", "update"} /\ hnd[h].row.id = r.id
                              /\ hnd[h].user = r.user /\ hnd'[h] # hnd[h]
  /\ \A r \in rows' \ rows : Live(r.user)]_vars
=============================================================================
