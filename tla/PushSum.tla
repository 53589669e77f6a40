------------------------------- MODULE PushSum -------------------------------
(***************************************************************************)
(* Push-count alerts of one account, one board and one kind ("up" or       *)
(* "down"): crawls of the board, DiffList, which remembers in two Redis    *)
(* sets what the account has been told, and ReplaceBenchKeys, which makes  *)
(* it forget.                                                              *)
(*                                                                         *)
(* A slot of Crawls is a goroutine from crawlArticles to the send of the   *)
(* alert.  A tick of the clock is the greatest common measure of the times *)
(* in the code: 8 hours, a day being 3 ticks, overdueHour 6, the schedule  *)
(* of the replacer 6, and UTC midnight the first tick of a Taiwanese day.  *)
(***************************************************************************)
EXTENDS Integers, FiniteSets

CONSTANTS
  Articles,   \* article ids
  NoPost,     \* not posted yet
  Scores,     \* push counts an article can have
  Sub,        \* value of the subscription: positive for up, negative for down
  Crawls,     \* slots for crawls in flight
  Day,        \* ticks of a day
  Offset,     \* ticks from midnight in Taiwan to midnight UTC
  Overdue,    \* overdueHour
  Period,     \* schedule of the replacer
  Start,      \* tick at which the process starts
  MaxTick,    \* bound: the clock
  MaxCrashes  \* bound: restarts of the process

ASSUME PushSumAssumption ==
  /\ NoPost \notin Nat
  /\ Sub \in Int
  /\ Scores \subseteq Int
  /\ Day \in Nat \ {0} /\ Offset \in Nat /\ Overdue \in Nat /\ Period \in Nat \ {0}
  /\ Start \in Nat /\ MaxTick \in Nat /\ MaxCrashes \in Nat

VARIABLES
  now,      \* the clock
  due,      \* tick of the next run of the replacer
  post,     \* tick at which each article was posted
  score,    \* push count of each article
  base,     \* Redis set "pushsum:<account>:<board>:<kind>:base"
  bench,    \* Redis set "...:bench"
  pc,       \* the next command of each slot
  found,    \* of each slot: the articles that reach the count, with it
  known,    \* of each slot: base existed (bl)
  diff,     \* of each slot: what SDIFF returned
  crashes,  \* restarts so far
  renames,  \* history: times the base set was renamed
  mark,     \* history: renames when an article was last added to base
  alerts,   \* history: alerts for each article, up to 2
  excused   \* history: articles that may be alerted twice

slotVars == <<pc, found, known, diff>>
setVars  == <<base, bench>>
timeVars == <<now, due, post, score>>
history  == <<renames, mark, alerts, excused>>
vars     == <<timeVars, setVars, slotVars, crashes, history>>

Never == -1

TypeOK ==
  /\ now \in Nat /\ due \in Nat
  /\ post \in [Articles -> Nat \union {NoPost}]
  /\ score \in [Articles -> Scores]
  /\ base \subseteq Articles /\ bench \subseteq Articles
  /\ pc \in [Crawls -> {"idle", "exists", "exec", "add", "send"}]
  /\ found \in [Crawls -> SUBSET (Articles \X Scores)]
  /\ known \in [Crawls -> BOOLEAN]
  /\ diff \in [Crawls -> SUBSET Articles]
  /\ crashes \in Nat
  /\ renames \in Nat
  /\ mark \in [Articles -> Nat \union {Never}]
  /\ alerts \in [Articles -> 0..2]
  /\ excused \subseteq Articles

Init ==
  /\ now = Start /\ due = Start + Period
  /\ post = [a \in Articles |-> NoPost]
  /\ score \in [Articles -> Scores]
  /\ base = {} /\ bench = {}
  /\ pc = [c \in Crawls |-> "idle"]
  /\ found = [c \in Crawls |-> {}]
  /\ known = [c \in Crawls |-> FALSE]
  /\ diff = [c \in Crawls |-> {}]
  /\ crashes = 0 /\ renames = 0
  /\ mark = [a \in Articles |-> Never]
  /\ alerts = [a \in Articles |-> 0]
  /\ excused = {}

-----------------------------------------------------------------------------
(***************************************************************************)
(* PTT and the clock.                                                      *)
(***************************************************************************)
\* The list of articles dates a post by its day; now is cut to UTC midnight.
PostDay(a) == (post[a] \div Day) * Day
NowDate    == ((now - Offset) \div Day) * Day + Offset
Recent(a)  == post[a] # NoPost /\ ~(NowDate > PostDay(a) + Overdue)

Post(a) ==
  /\ post[a] = NoPost
  /\ post' = [post EXCEPT ![a] = now]
  /\ UNCHANGED <<now, due, score, setVars, slotVars, crashes, history>>

Vote(a, s) ==
  /\ Recent(a) /\ s # score[a]
  /\ score' = [score EXCEPT ![a] = s]
  /\ UNCHANGED <<now, due, post, setVars, slotVars, crashes, history>>

\* A crawl and its alert take less than a tick; the replacer runs on time.
Tick ==
  /\ now < MaxTick /\ now < due
  /\ \A c \in Crawls : pc[c] = "idle"
  /\ now' = now + 1
  /\ UNCHANGED <<due, post, score, setVars, slotVars, crashes, history>>

-----------------------------------------------------------------------------
(***************************************************************************)
(* crawlArticles, checkUp and checkDown.                                   *)
(***************************************************************************)
\* parsePushSum makes Up of a positive value and Down of a negative one;
\* checkDown compares with Down * -1.
Reaches(n) == (Sub > 0 /\ n >= Sub) \/ (Sub < 0 /\ n <= -Sub)

\* A page that cannot be fetched is passed over, and so is the first article of
\* each page: a crawl has seen some of the recent articles.
Crawl(c) ==
  /\ pc[c] = "idle"
  /\ \E seen \in SUBSET {a \in Articles : Recent(a) /\ Reaches(score[a])} :
       /\ seen # {}
       /\ found' = [found EXCEPT ![c] = {<<a, score[a]>> : a \in seen}]
  /\ pc' = [pc EXCEPT ![c] = "exists"]
  /\ UNCHANGED <<timeVars, setVars, known, diff, crashes, history>>

(***************************************************************************)
(* DiffList: EXISTS base; MULTI SADD now, SDIFF now base bench, DEL now,   *)
(* EXEC; SADD base.  Only the middle is one transaction.                   *)
(***************************************************************************)
Exists(c) ==
  /\ pc[c] = "exists"
  /\ known' = [known EXCEPT ![c] = (base # {})]
  /\ pc' = [pc EXCEPT ![c] = "exec"]
  /\ UNCHANGED <<timeVars, setVars, found, diff, crashes, history>>

Ids(c) == {x[1] : x \in found[c]}

Done(c) ==
  /\ pc' = [pc EXCEPT ![c] = "idle"]
  /\ found' = [found EXCEPT ![c] = {}]
  /\ known' = [known EXCEPT ![c] = FALSE]
  /\ diff' = [diff EXCEPT ![c] = {}]

\* Articles that another DiffList has taken and not recorded yet.
InHands(c) == UNION {diff[d] : d \in {e \in Crawls \ {c} : pc[e] = "add"}}

\* Mutants: the articles where their ids belong, and SDIFF without the bench set.
ExecArticles(c) ==
  /\ pc[c] = "exec"
  /\ diff' = [diff EXCEPT ![c] = found[c]]
  /\ pc' = [pc EXCEPT ![c] = "add"]
  /\ UNCHANGED <<found, known, timeVars, setVars, crashes, history>>

ExecBaseOnly(c) ==
  /\ pc[c] = "exec"
  /\ LET ids == Ids(c) \ base
     IN  \/ /\ ids # {}
            /\ diff' = [diff EXCEPT ![c] = ids]
            /\ pc' = [pc EXCEPT ![c] = "add"]
            /\ excused' = excused \union (ids \intersect InHands(c))
            /\ UNCHANGED <<found, known>>
         \/ ids = {} /\ Done(c) /\ UNCHANGED excused
  /\ UNCHANGED <<timeVars, setVars, crashes, renames, mark, alerts>>

Exec(c) ==
  /\ pc[c] = "exec"
  /\ LET ids == Ids(c) \ (base \union bench)
     IN  \/ /\ ids # {}
            /\ diff' = [diff EXCEPT ![c] = ids]
            /\ pc' = [pc EXCEPT ![c] = "add"]
            /\ excused' = excused \union (ids \intersect InHands(c))
            /\ UNCHANGED <<found, known>>
         \/ ids = {} /\ Done(c) /\ UNCHANGED excused
  /\ UNCHANGED <<timeVars, setVars, crashes, renames, mark, alerts>>

\* Without a base set the list is recorded and nothing is sent.
Add(c) ==
  /\ pc[c] = "add"
  /\ base' = base \union diff[c]
  /\ mark' = [a \in Articles |-> IF a \in diff[c] THEN renames ELSE mark[a]]
  /\ \/ /\ known[c]
        /\ pc' = [pc EXCEPT ![c] = "send"]
        /\ UNCHANGED <<found, known, diff>>
     \/ ~known[c] /\ Done(c)
  /\ UNCHANGED <<timeVars, bench, crashes, renames, alerts, excused>>

\* toSendArticles and the send to the message workers.
Send(c) ==
  /\ pc[c] = "send"
  /\ alerts' = [a \in Articles |->
                  IF a \in diff[c] /\ alerts[a] < 2 THEN alerts[a] + 1 ELSE alerts[a]]
  /\ Done(c)
  /\ UNCHANGED <<timeVars, setVars, crashes, renames, mark, excused>>

\* Mutant: DEL in place of RENAME.
DeleteBaseKeys ==
  /\ now = due
  /\ due' = due + Period
  /\ IF base = {}
     THEN UNCHANGED <<setVars, renames>>
     ELSE bench' = {} /\ base' = {} /\ renames' = renames + 1
  /\ UNCHANGED <<now, post, score, slotVars, crashes, mark, alerts, excused>>

\* Posted in this tick, and the clock of NowDate still shows the day before.
Early(a) == post[a] = now /\ now % Day < Offset

(***************************************************************************)
(* ReplaceBenchKeys, from cron: RENAME of every base key there is.         *)
(***************************************************************************)
ReplaceBenchKeys ==
  /\ now = due
  /\ due' = due + Period
  /\ IF base = {}
     THEN UNCHANGED <<setVars, renames>>
     ELSE bench' = base /\ base' = {} /\ renames' = renames + 1
  /\ excused' = excused \union {a \in Articles : Early(a)}
  /\ UNCHANGED <<now, post, score, slotVars, crashes, mark, alerts>>

\* A restart: the goroutines are gone and cron counts from now.
Crash ==
  /\ crashes < MaxCrashes
  /\ crashes' = crashes + 1
  /\ due' = now + Period
  /\ pc' = [c \in Crawls |-> "idle"]
  /\ found' = [c \in Crawls |-> {}]
  /\ known' = [c \in Crawls |-> FALSE]
  /\ diff' = [c \in Crawls |-> {}]
  /\ UNCHANGED <<now, post, score, setVars, history>>

Step(c) == Exists(c) \/ Exec(c) \/ Add(c) \/ Send(c)

\* The clock has reached its bound.
End ==
  /\ now = MaxTick /\ now < due
  /\ UNCHANGED vars

Next ==
  \/ \E a \in Articles : Post(a)
  \/ \E a \in Articles, s \in Scores : Vote(a, s)
  \/ \E c \in Crawls : Crawl(c) \/ Step(c)
  \/ ReplaceBenchKeys
  \/ Crash
  \/ Tick
  \/ End

Spec == Init /\ [][Next]_vars

-----------------------------------------------------------------------------
(***************************************************************************)
(* Properties                                                              *)
(***************************************************************************)
\* An article recorded by one DiffList, alerted or not, comes out of the SDIFF
\* of a later one only after the replacer has renamed the base set twice.
NoEarlyRepeat ==
  [][\A c \in Crawls, a \in Articles :
       (pc[c] = "exec" /\ pc'[c] = "add" /\ a \in diff'[c])
         => (mark[a] = Never \/ renames >= mark[a] + 2)]_vars

\* Of what has been recorded since the last rename but one nothing is lost:
\* concurrent DiffLists, the replacer and restarts together keep it.
Remembered ==
  \A a \in Articles :
    /\ (mark[a] = renames) => a \in base
    /\ (mark[a] # Never /\ mark[a] + 1 = renames) => a \in base \union bench

\* No article is alerted twice, but for those that two DiffLists had in their hands at
\* once, after the SDIFF of both and before the SADD of either, and those the replacer
\* ran after in the eight hours after midnight in which they were posted: however often
\* crawls overlap, the count moves, pages are passed over and the process restarts.
RepeatExplained == \A a \in Articles : alerts[a] > 1 => a \in excused

=============================================================================
