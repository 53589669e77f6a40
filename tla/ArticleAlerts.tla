---------------------------- MODULE ArticleAlerts ----------------------------
(***************************************************************************)
(* Keyword and author alerts of one board: checkNewArticle, which compares *)
(* the feed with PostgreSQL and saves it, the channel boardCh, the main    *)
(* loop of Checker.Run, the goroutines that match the new articles, and    *)
(* the message workers.  Subscriptions do not change here: SubSync is      *)
(* about them.                                                             *)
(*                                                                         *)
(* What a check found is in a Board struct that later stages read through  *)
(* a pointer.  models.Board().All() makes a new struct for every check;    *)
(* the boards of BOARD_HIGH have one struct each, made by init and used by *)
(* every check of the board.                                               *)
(*                                                                         *)
(* The rows of table articles have others who write them: the chat command *)
(* and the aggregator save a single article, destroyComments deletes one,  *)
(* and all boards share the row of the articles without a code.            *)
(*                                                                         *)
(* An article can be found more than once.  Every save that finds some has *)
(* a number, and <<number, article>>, an item, is one finding of it.       *)
(***************************************************************************)
EXTENDS Integers, FiniteSets, Sequences

CONSTANTS
  Articles,   \* articles that will be posted
  Id,         \* the ID of each: the second it was posted in
  Watches,    \* keyword and author subscriptions of enabled accounts
  Matches,    \* the articles each of them matches
  Checks,     \* slots for checkNewArticle goroutines
  Structs,    \* Board structs
  High,       \* those of BOARD_HIGH
  Loops,      \* slots for main loops (Checker.Run)
  NoArticle,  \* stands in a nil slice
  FeedSize,   \* how many articles the feed of a board holds
  QueueCap,   \* capacity of boardCh
  Faults,     \* the kinds of failure, Stop and interference that happen
  MaxFaults,  \* bound: how many happen
  MaxOthers,  \* bound: saves of another board's articles without a code
  MaxSaves    \* bound: saves that find articles

ASSUME ArticleAlertsAssumption ==
  /\ Id \in [Articles -> Nat \ {0}]
  /\ Matches \in [Watches -> SUBSET Articles]
  /\ High \subseteq Structs
  /\ NoArticle \notin Articles
  /\ FeedSize \in Nat \ {0} /\ QueueCap \in Nat \ {0}
  /\ Faults \subseteq {"read", "fetch", "html", "save", "commit", "stop", "restart",
                   "elsewhere", "destroy"}
  /\ MaxFaults \in Nat /\ MaxOthers \in Nat /\ MaxSaves \in Nat

VARIABLES
  posted,   \* articles on PTT
  db,       \* articles of the board in PostgreSQL, one row each
  owner,    \* whose the row of the articles without a code is, as far as it matters yet
  blank,    \* the ID in that row, in a set, if it is this board's
  fresh,    \* NewArticles of each struct
  online,   \* OnlineArticles of each struct
  pc,       \* the next step of each check
  ref,      \* of each check: its struct, in a set
  read,     \* of each check: the IDs of savedArticles
  list,     \* of each check: <<newArticles, onlineArticles>> it has fetched, and
            \* from then on what it has found and is going to save
  queue,    \* boardCh
  match,    \* matching goroutines, by struct and subscription
  sending,  \* goroutines blocked on c.ch, by subscription, articles and number
  loop,     \* the main loops that run
  held,     \* of each loop: the alert it hands to a worker, in a set
  alerts,   \* how often each subscription was alerted to each item, up to 2
  faults,   \* those so far
  others,   \* saves so far of another board's articles without a code
  saves,    \* saves so far that found articles
  tag,      \* history: the number of the save of each struct
  since,    \* history: of each check, the saves there were when it read
  found,    \* history: items that a successful save made known as new
  dropped,  \* history: items on their way that a Stop or a restart discarded
  excused,  \* history: articles that a save hid from later checks
  loose     \* history: articles whose row does not tell that they were found

rowVars    == <<db, owner, blank>>
structVars == <<fresh, online>>
checkVars  == <<pc, ref, read, list>>
loopVars   == <<queue, match, sending, loop, held>>
items      == <<saves, tag, found, dropped>>
hiding     == <<excused, loose>>
vars == <<posted, rowVars, structVars, checkVars, loopVars, alerts, faults, items,
          since, others, hiding>>

-----------------------------------------------------------------------------
Nil     == {NoArticle}
Lists   == {Nil} \union SUBSET Articles
Pages   == [articles : SUBSET Articles, coded : BOOLEAN]
NoPage  == [articles |-> {}, coded |-> TRUE]
IDs     == {0} \union {Id[a] : a \in Articles}
Numbers == 1..MaxSaves
Items   == Numbers \X Articles
Alert   == Watches \X (SUBSET Articles) \X (0..MaxSaves)
InQueue(s) == \E i \in 1..Len(queue) : queue[i] = s

TypeOK ==
  /\ posted \subseteq Articles /\ db \subseteq Articles
  /\ owner \in {"unknown", "this", "other"} /\ blank \subseteq IDs
  /\ fresh \in [Structs -> Lists] /\ online \in [Structs -> Pages]
  /\ pc \in [Checks -> {"idle", "fetch", "assign", "test", "create", "retest",
                        "save", "enqueue"}]
  /\ ref \in [Checks -> SUBSET Structs]
  /\ read \in [Checks -> SUBSET IDs]
  /\ list \in [Checks -> Lists \X Pages]
  /\ queue \in Seq(Structs)
  /\ match \in [Structs \X Watches -> Nat]
  /\ sending \in [Alert -> Nat]
  /\ loop \in [Loops -> BOOLEAN]
  /\ held \in [Loops -> SUBSET Alert]
  /\ alerts \in [Watches \X Items -> 0..2]
  /\ faults \in Nat /\ others \in Nat
  /\ saves \in 0..MaxSaves
  /\ tag \in [Structs -> 0..MaxSaves] /\ since \in [Checks -> 0..MaxSaves]
  /\ found \subseteq Items /\ dropped \subseteq Items
  /\ excused \subseteq Articles /\ loose \subseteq Articles

Init ==
  /\ posted = {} /\ db = {} /\ owner = "unknown" /\ blank = {}
  /\ fresh = [s \in Structs |-> Nil] /\ online = [s \in Structs |-> NoPage]
  /\ pc = [c \in Checks |-> "idle"]
  /\ ref = [c \in Checks |-> {}]
  /\ read = [c \in Checks |-> {}]
  /\ list = [c \in Checks |-> <<Nil, NoPage>>]
  /\ queue = <<>>
  /\ match = [m \in Structs \X Watches |-> 0]
  /\ sending = [x \in Alert |-> 0]
  /\ \E l \in Loops : loop = [k \in Loops |-> k = l]
  /\ held = [l \in Loops |-> {}]
  /\ alerts = [x \in Watches \X Items |-> 0]
  /\ faults = 0 /\ others = 0
  /\ saves = 0
  /\ tag = [s \in Structs |-> 0] /\ since = [c \in Checks |-> 0]
  /\ found = {} /\ dropped = {} /\ excused = {} /\ loose = {}

-----------------------------------------------------------------------------
Fails(kind) == kind \in Faults /\ faults < MaxFaults /\ faults' = faults + 1

\* An article is posted: IDs are seconds and grow, two may be equal.
Post(a) ==
  /\ a \notin posted
  /\ \A b \in posted : Id[b] <= Id[a]
  /\ posted' = posted \union {a}
  /\ UNCHANGED <<rowVars, structVars, checkVars, loopVars, alerts, faults, items,
                 since, others, hiding>>

(***************************************************************************)
(* The other writers of table articles.                                    *)
(***************************************************************************)
OnlyRows == UNCHANGED <<posted, owner, structVars, checkVars, loopVars, alerts, items, since>>

\* article.Save by initialArticle of the chat command, or by the aggregator.
SaveElsewhere(a) ==
  /\ Fails("elsewhere")
  /\ a \in posted \ db
  /\ db' = db \union {a}
  /\ excused' = excused \union {b \in posted : Id[b] <= Id[a]}
  /\ OnlyRows /\ UNCHANGED <<blank, others, loose>>

\* article.Destroy by destroyComments of the comment checker.
Destroy(a) ==
  /\ Fails("destroy")
  /\ a \in db
  /\ db' = db \ {a}
  /\ loose' = loose \union {a}
  /\ OnlyRows /\ UNCHANGED <<blank, others, excused>>

\* A check of another board saves articles without a code: the upsert changes the
\* ID of the one row for them, not its board.
OtherBoard(i) ==
  /\ blank # {}
  /\ others < MaxOthers /\ others' = others + 1
  /\ \A a \in Articles \ posted : i <= Id[a]
  /\ blank' = {i}
  /\ excused' = excused \union {a \in Articles : Id[a] <= i}
  /\ OnlyRows /\ UNCHANGED <<db, faults, loose>>

(***************************************************************************)
(* checkNewArticle.  checkBoards starts it, and goes on to the end of its  *)
(* round after a Stop.                                                     *)
(***************************************************************************)
Used(s) ==
  \/ \E c \in Checks : s \in ref[c]
  \/ InQueue(s)
  \/ \E w \in Watches : match[<<s, w>>] > 0

\* The IDs of the board's rows.
Saved == {Id[a] : a \in db} \union blank

\* GetArticles returns what it has read when PostgreSQL fails: nothing, or the
\* newest articles, which newArticles takes for all of them.
ReadSaved(c, s) ==
  /\ pc[c] = "idle"
  /\ \/ s \in High /\ UNCHANGED <<structVars, tag>>
     \/ /\ s \notin High /\ ~Used(s)
        /\ fresh' = [fresh EXCEPT ![s] = Nil] /\ online' = [online EXCEPT ![s] = NoPage]
        /\ tag' = [tag EXCEPT ![s] = 0]
  /\ \/ read' = [read EXCEPT ![c] = Saved] /\ UNCHANGED faults
     \/ Fails("read") /\ UNCHANGED read
  /\ pc' = [pc EXCEPT ![c] = "fetch"]
  /\ ref' = [ref EXCEPT ![c] = {s}]
  /\ since' = [since EXCEPT ![c] = saves]
  /\ UNCHANGED <<posted, rowVars, list, loopVars, alerts, saves, found, dropped,
                 others, hiding>>

\* Mutant: the newest saved article counts as new.
NewFrom(ids, articles) ==
  IF ids = {} THEN Nil ELSE {a \in articles : \A i \in ids : Id[a] >= i}

\* newArticles: online articles with an ID above that of every saved one, nil
\* when nothing is saved.
New(ids, articles) ==
  IF ids = {} THEN Nil ELSE {a \in articles : \A i \in ids : Id[a] > i}

\* The newest articles are the last of a page.
AreNewest(articles) == \A a \in articles, b \in posted \ articles : Id[b] <= Id[a]

IsFeed(articles) ==
  /\ AreNewest(articles)
  /\ Cardinality(articles) = IF Cardinality(posted) < FeedSize
                             THEN Cardinality(posted) ELSE FeedSize

\* FetchArticles: the feed; nothing, after a 429 or when HTML fails too; or what is
\* on the last page of the board, where no article has a code and deleted ones
\* are listed as well, perhaps nothing else.
Fetch(c) ==
  /\ pc[c] = "fetch"
  /\ \E articles \in SUBSET posted, coded \in BOOLEAN :
       /\ \/ coded /\ IsFeed(articles) /\ UNCHANGED faults
          \/ coded /\ articles = {} /\ Fails("fetch")
          \/ ~coded /\ AreNewest(articles) /\ Cardinality(articles) <= FeedSize /\ Fails("html")
       /\ list' = [list EXCEPT ![c] = <<New(read[c], articles),
                                        [articles |-> articles, coded |-> coded]>>]
  /\ pc' = [pc EXCEPT ![c] = "assign"]
  /\ UNCHANGED <<posted, rowVars, structVars, ref, read, loopVars, alerts, items,
                 since, others, hiding>>

\* Mutant: the new articles are appended to what the struct holds.
AssignAppend(c) ==
  /\ pc[c] = "assign"
  /\ \E s \in ref[c] :
       /\ fresh' = [fresh EXCEPT ![s] = @ \union list[c][1]]
       /\ online' = [online EXCEPT ![s] = list[c][2]]
  /\ pc' = [pc EXCEPT ![c] = "test"]
  /\ UNCHANGED <<posted, rowVars, ref, read, list, loopVars, alerts, faults, items,
                 since, others, hiding>>

\* bd.NewArticles, bd.OnlineArticles = newArticles(*bd)
Assign(c) ==
  /\ pc[c] = "assign"
  /\ \E s \in ref[c] :
       /\ fresh' = [fresh EXCEPT ![s] = list[c][1]]
       /\ online' = [online EXCEPT ![s] = list[c][2]]
  /\ pc' = [pc EXCEPT ![c] = "test"]
  /\ UNCHANGED <<posted, rowVars, ref, read, list, loopVars, alerts, faults, items,
                 since, others, hiding>>

End(c) ==
  /\ pc' = [pc EXCEPT ![c] = "idle"]
  /\ ref' = [ref EXCEPT ![c] = {}]
  /\ read' = [read EXCEPT ![c] = {}]
  /\ list' = [list EXCEPT ![c] = <<Nil, NoPage>>]
  /\ since' = [since EXCEPT ![c] = 0]

\* Mutant: the feed fetched again for the save.
ToSaveLatest(c, s, label) ==
  /\ list' = [list EXCEPT ![c] = <<@[1], [@[2] EXCEPT !.articles = posted]>>]
  /\ pc' = [pc EXCEPT ![c] = label]
  /\ UNCHANGED <<ref, read, since>>

\* bd.Articles = bd.OnlineArticles, which Save reads.
ToSave(c, s, label) ==
  /\ list' = [list EXCEPT ![c] = <<@[1], online[s]>>]
  /\ pc' = [pc EXCEPT ![c] = label]
  /\ UNCHANGED <<ref, read, since>>

Some(articles) == articles \ Nil # {}
Empty(page)    == page.coded /\ page.articles = {}

Test(c) ==
  /\ pc[c] = "test"
  /\ \E s \in ref[c] :
       \/ /\ fresh[s] = Nil /\ ~Empty(online[s])
          /\ ToSave(c, s, "create")
       \/ Some(fresh[s]) /\ ToSave(c, s, "save")
       \/ /\ ~Some(fresh[s]) /\ (fresh[s] = Nil => Empty(online[s]))
          /\ End(c)
  /\ UNCHANGED <<posted, rowVars, structVars, loopVars, alerts, faults, items, others,
                 hiding>>

\* Articles that the page does not reach back to.
OffPage(page) ==
  {a \in posted \ page.articles : \A b \in page.articles : Id[a] <= Id[b]}

Newest(articles) == {a \in articles : \A b \in articles : Id[b] <= Id[a]}

Hide(articles) == excused' = excused \union articles

\* The upserts of Save, by code.  Those of a page without codes all hit one row,
\* which stays the board's that made it and has the ID of the last of them in
\* the end, 0 if that one is deleted.
Store(page, gone) ==
  \/ /\ page.coded
     /\ db' = db \union page.articles
     /\ Hide(gone \union OffPage(page))
     /\ UNCHANGED <<owner, blank>>
  \/ /\ ~page.coded /\ owner # "other"
     /\ owner' = "this"
     /\ \/ blank' = {0} /\ UNCHANGED excused
        \/ /\ \E a \in Newest(page.articles) : blank' = {Id[a]}
           /\ Hide(gone \union OffPage(page))
     /\ UNCHANGED db
  \/ /\ ~page.coded /\ owner # "this"
     /\ owner' = "other"
     /\ UNCHANGED <<db, blank, excused>>

\* The first save of a board, whose result is not looked at.
Create(c) ==
  /\ pc[c] = "create"
  /\ \/ Store(list[c][2], list[c][2].articles) /\ UNCHANGED faults
     \/ Fails("save") /\ UNCHANGED <<rowVars, excused>>
  /\ pc' = [pc EXCEPT ![c] = "retest"]
  /\ UNCHANGED <<posted, structVars, ref, read, list, loopVars, alerts, items, since,
                 others, loose>>

Retest(c) ==
  /\ pc[c] = "retest"
  /\ \E s \in ref[c] : IF Some(fresh[s]) THEN ToSave(c, s, "save") ELSE End(c)
  /\ UNCHANGED <<posted, rowVars, structVars, loopVars, alerts, faults, items, others,
                 hiding>>

\* The save has the next number, which its struct carries.
Number(c) ==
  /\ saves < MaxSaves
  /\ saves' = saves + 1
  /\ \E s \in ref[c] : tag' = [tag EXCEPT ![s] = saves + 1]

Finds(c) == {saves + 1} \X (list[c][1] \ Nil)

\* Mutant: the error of Save is not looked at.
SaveAnyway(c) ==
  /\ pc[c] = "save"
  /\ Number(c)
  /\ \/ /\ Store(list[c][2], {}) /\ UNCHANGED faults
        /\ found' = found \union Finds(c)
        /\ loose' = IF list[c][2].coded THEN loose ELSE loose \union (list[c][1] \ Nil)
     \/ Fails("save") /\ UNCHANGED <<rowVars, excused, found, loose>>
  /\ pc' = [pc EXCEPT ![c] = "enqueue"]
  /\ UNCHANGED <<posted, structVars, ref, read, list, loopVars, alerts, since, others,
                 dropped>>

\* A transaction that fails, or whose commit happens and is reported as failed,
\* is the end of the check.
Save(c) ==
  /\ pc[c] = "save"
  /\ \/ /\ Store(list[c][2], {})
        /\ Number(c)
        /\ found' = found \union Finds(c)
        /\ loose' = IF list[c][2].coded THEN loose ELSE loose \union (list[c][1] \ Nil)
        /\ pc' = [pc EXCEPT ![c] = "enqueue"]
        /\ UNCHANGED <<ref, read, list, since, faults>>
     \/ /\ \/ Fails("save") /\ UNCHANGED <<rowVars, excused>>
           \/ Fails("commit") /\ Store(list[c][2], list[c][1] \ Nil)
        /\ End(c)
        /\ UNCHANGED <<saves, tag, found, loose>>
  /\ UNCHANGED <<posted, structVars, loopVars, alerts, others, dropped>>

\* Mutant: a full boardCh is not waited for.
EnqueueOrDrop(c) ==
  /\ pc[c] = "enqueue"
  /\ \E s \in ref[c] : queue' = IF Len(queue) < QueueCap THEN Append(queue, s) ELSE queue
  /\ End(c)
  /\ UNCHANGED <<posted, rowVars, structVars, match, sending, loop, held, alerts,
                 faults, items, others, hiding>>

\* boardCh <- bd blocks while the channel is full.
Enqueue(c) ==
  /\ pc[c] = "enqueue"
  /\ Len(queue) < QueueCap
  /\ \E s \in ref[c] : queue' = Append(queue, s)
  /\ End(c)
  /\ UNCHANGED <<posted, rowVars, structVars, match, sending, loop, held, alerts,
                 faults, items, others, hiding>>

-----------------------------------------------------------------------------
(***************************************************************************)
(* The main loop: one case of its select at a time.  The goroutines        *)
(* between it and checkKeyword or checkAuthor only look up who subscribes. *)
(***************************************************************************)
Ready(l) == loop[l] /\ held[l] = {}

Dispatch(l) ==
  /\ Ready(l)
  /\ queue # <<>>
  /\ queue' = Tail(queue)
  /\ match' = [m \in Structs \X Watches |->
                 IF m[1] = Head(queue) THEN match[m] + 1 ELSE match[m]]
  /\ UNCHANGED <<posted, rowVars, structVars, checkVars, sending, loop, held, alerts,
                 faults, items, since, others, hiding>>

\* Mutant: bd.OnlineArticles is read instead.
MatchOnline(s, w) ==
  /\ match[<<s, w>>] > 0
  /\ match' = [match EXCEPT ![<<s, w>>] = @ - 1]
  /\ LET hits == online[s].articles \intersect Matches[w]
     IN  sending' = IF hits = {} THEN sending
                    ELSE [sending EXCEPT ![<<w, hits, tag[s]>>] = @ + 1]
  /\ UNCHANGED <<posted, rowVars, structVars, checkVars, queue, loop, held, alerts,
                 faults, items, since, others, hiding>>

\* checkKeyword and checkAuthor read bd.NewArticles now.
Match(s, w) ==
  /\ match[<<s, w>>] > 0
  /\ match' = [match EXCEPT ![<<s, w>>] = @ - 1]
  /\ LET hits == fresh[s] \intersect Matches[w]
     IN  sending' = IF hits = {} THEN sending
                    ELSE [sending EXCEPT ![<<w, hits, tag[s]>>] = @ + 1]
  /\ UNCHANGED <<posted, rowVars, structVars, checkVars, queue, loop, held, alerts,
                 faults, items, since, others, hiding>>

Receive(l, x) ==
  /\ Ready(l)
  /\ sending[x] > 0
  /\ sending' = [sending EXCEPT ![x] = @ - 1]
  /\ held' = [held EXCEPT ![l] = {x}]
  /\ UNCHANGED <<posted, rowVars, structVars, checkVars, queue, match, loop, alerts,
                 faults, items, since, others, hiding>>

\* The items of a message.
Carried(x) == {x[3]} \X x[2]

\* ckCh <- cker, and the worker sends the message.
Deliver(l) ==
  /\ \E x \in held[l] :
       alerts' = [k \in Watches \X Items |->
                    IF k[1] = x[1] /\ k[2] \in Carried(x) /\ alerts[k] < 2
                    THEN alerts[k] + 1 ELSE alerts[k]]
  /\ held' = [held EXCEPT ![l] = {}]
  /\ UNCHANGED <<posted, rowVars, structVars, checkVars, queue, match, sending, loop,
                 faults, items, since, others, hiding>>

-----------------------------------------------------------------------------
(***************************************************************************)
(* Stop, Run, and a restart of the process.                                *)
(***************************************************************************)
FreshOf(s) == {tag[s]} \X (fresh[s] \ Nil)

\* A loop takes the Stop, throws away what is in boardCh and ends.  The
\* goroutines blocked on c.ch stay.
Stop(l) ==
  /\ Ready(l)
  /\ Fails("stop")
  /\ queue' = <<>>
  /\ dropped' = dropped \union {i \in found : \E k \in 1..Len(queue) : i \in FreshOf(queue[k])}
  /\ loop' = [loop EXCEPT ![l] = FALSE]
  /\ UNCHANGED <<posted, rowVars, structVars, checkVars, match, sending, held, alerts,
                 saves, tag, found, since, others, hiding>>

Run(l) ==
  /\ ~loop[l]
  /\ loop' = [loop EXCEPT ![l] = TRUE]
  /\ UNCHANGED <<posted, rowVars, structVars, checkVars, queue, match, sending, held,
                 alerts, faults, items, since, others, hiding>>

\* The item is on its way to the subscription.
OnItsWay(i, w) ==
  \/ \E c \in Checks : pc[c] = "enqueue" /\ \E s \in ref[c] : i \in FreshOf(s)
  \/ \E k \in 1..Len(queue) : i \in FreshOf(queue[k])
  \/ \E s \in Structs : match[<<s, w>>] > 0 /\ i \in FreshOf(s)
  \/ \E x \in Alert : /\ x[1] = w /\ i \in Carried(x)
                      /\ sending[x] > 0 \/ \E l \in Loops : x \in held[l]

Restart ==
  /\ Fails("restart")
  /\ dropped' = dropped \union {i \in found : \E w \in Watches : OnItsWay(i, w)}
  /\ fresh' = [s \in Structs |-> Nil] /\ online' = [s \in Structs |-> NoPage]
  /\ pc' = [c \in Checks |-> "idle"]
  /\ ref' = [c \in Checks |-> {}]
  /\ read' = [c \in Checks |-> {}]
  /\ list' = [c \in Checks |-> <<Nil, NoPage>>]
  /\ since' = [c \in Checks |-> 0]
  /\ tag' = [s \in Structs |-> 0]
  /\ queue' = <<>>
  /\ match' = [m \in Structs \X Watches |-> 0]
  /\ sending' = [x \in Alert |-> 0]
  /\ \E l \in Loops : loop' = [k \in Loops |-> k = l]
  /\ held' = [l \in Loops |-> {}]
  /\ UNCHANGED <<posted, rowVars, alerts, saves, found, others, hiding>>

-----------------------------------------------------------------------------
Check(c) ==
  \/ \E s \in Structs : ReadSaved(c, s)
  \/ Fetch(c) \/ Assign(c) \/ Test(c) \/ Create(c) \/ Retest(c) \/ Save(c) \/ Enqueue(c)

Work(l) == Dispatch(l) \/ (\E x \in Alert : Receive(l, x)) \/ Deliver(l)

Next ==
  \/ \E a \in Articles : Post(a) \/ SaveElsewhere(a) \/ Destroy(a)
  \/ \E i \in IDs : OtherBoard(i)
  \/ \E c \in Checks : Check(c)
  \/ \E s \in Structs, w \in Watches : Match(s, w)
  \/ \E l \in Loops : Work(l) \/ Stop(l) \/ Run(l)
  \/ Restart

Spec == Init /\ [][Next]_vars

\* Goroutines that can run do; checkBoards starts checks again and again.
Fairness ==
  /\ \A c \in Checks : WF_vars(Check(c))
  /\ \A s \in Structs, w \in Watches : WF_vars(Match(s, w))
  /\ \A l \in Loops : WF_vars(Work(l))
FairSpec == Spec /\ Fairness

-----------------------------------------------------------------------------
(***************************************************************************)
(* Properties                                                              *)
(***************************************************************************)
\* A new article that was saved reaches each subscription it matches, or is on
\* its way there, or a Stop or a restart has thrown it away on the way.
NotLost ==
  \A i \in found, w \in Watches :
    i[2] \in Matches[w] => alerts[<<w, i>>] > 0 \/ OnItsWay(i, w) \/ i \in dropped

\* Only articles are alerted that match and that a successful save made known as
\* new: never those of the first save of a board, nor any whose save failed.
OnlyFound ==
  \A w \in Watches, i \in Items : alerts[<<w, i>>] > 0 => i[2] \in Matches[w] /\ i \in found

WasFound(a) == \E n \in Numbers : <<n, a>> \in found

\* Another article was posted in the same second.
Twin(a) == \E b \in posted \ {a} : Id[b] = Id[a]

\* An article that no check can find any more, because a saved ID is as high, was
\* found as new, or a named step hid it: a save after it had left the page, the
\* first save of the board or one whose check had read nothing, a commit reported
\* as failed, a save by another writer, another board's articles without a code,
\* or an article of the same second.
NoneSilent ==
  \A a \in posted, i \in Saved :
    Id[a] <= i => WasFound(a) \/ a \in excused \/ Twin(a)

\* What a check is about to declare found, no check had found that saved before this
\* one read, but for articles found on a page without codes, which are saved in
\* a row that others overwrite, and for articles whose row was deleted.
FoundAgain ==
  \A c \in Checks : pc[c] = "save" =>
    \A i \in found : i[1] <= since[c] /\ i[2] \in list[c][1] => i[2] \in loose

\* The alerts that are still to be sent.
Due == {p \in Watches \X found : p[2][2] \in Matches[p[1]] /\ OnItsWay(p[2], p[1])}

\* The items each subscription matches.
Concerned == [w \in Watches |-> {i \in Items : i[2] \in Matches[w]}]

Promise == INSTANCE AlertOnce WITH Articles <- Items, Matches <- Concerned,
                                   due <- Due, sent <- alerts

\* Checks, also when they overlap, implement AlertOnce: goroutines, channels and
\* structs hand every finding on to exactly the subscriptions it concerns, one alert
\* each, and lose only what a Stop or a restart finds on its way.
AlertsAsPromised == Promise!Spec

\* The alerts that the save of a number makes due and that are neither sent nor dropped.
Open(n) ==
  {p \in Watches \X found : /\ p[2][1] = n /\ p[2][2] \in Matches[p[1]]
                            /\ alerts[p] = 0 /\ p[2] \notin dropped}

\* What a save has found, and was not thrown away, is alerted in the end.
EventuallyAlerted == \A n \in Numbers : Open(n) # {} ~> Open(n) = {}

=============================================================================
