------------------------------- MODULE Comments ------------------------------
(***************************************************************************)
(* Comment alerts of one tracked article: the goroutines of checkComments, *)
(* which compare PTT with last_push_datetime of the article's row, and the *)
(* writers of the same row: the hourly CommentAggregator, the chat command *)
(* that looks an article up, and the board checker, which saves the feed.  *)
(*                                                                         *)
(* Comments are numbered in the order they are posted in.  PTT shows the   *)
(* minute of a comment, so neighbours may have the same time.  A time is   *)
(* saved as the wall clock of UTC+8, in a column without a zone, and read  *)
(* back as one of UTC: what Find reads is Shift, eight hours, later than   *)
(* what was saved.  The subscriber set is one that AddSubscriber of the    *)
(* generator has filled.                                                   *)
(***************************************************************************)
EXTENDS Integers, FiniteSets

CONSTANTS
  MaxComments,  \* bound: comments that will be posted
  At,           \* the minute each of them shows
  Shift,        \* how much later a time is when it is read than when it was saved
  Checks,       \* slots for checkComments goroutines
  Writers,      \* slots for runs of the aggregator and of the command
  Faults,       \* the kinds of failure that happen
  MaxFaults,    \* bound: how many happen
  MaxOverlaps,  \* bound: checks begun while another one runs
  MaxWrites     \* bound: writes by other jobs than the checker

Comments == 1..MaxComments

ASSUME CommentsAssumption ==
  /\ MaxComments \in Nat /\ At \in [Comments -> Nat \ {0}]
  /\ \A c, d \in Comments : c < d => At[c] <= At[d]
  /\ Shift \in Nat
  /\ IsFiniteSet(Checks)
  /\ Faults \subseteq {"busy", "subscribers", "delete", "del", "save", "stop", "restart"}
  /\ MaxFaults \in Nat /\ MaxOverlaps \in Nat /\ MaxWrites \in Nat

VARIABLES
  posted,   \* how many comments the article has
  gone,     \* has PTT deleted the article?
  row,      \* its row, in a set: the minute in last_push_datetime, 0 for NULL
  tracked,  \* does article:<code>:subs exist?
  check,    \* of each checkComments: its next step, the step after destroyComments,
            \* a.LastPushDateTime, how many comments it has fetched, and whether
            \* the Run that would take its article has ended
  writer,   \* of each writer: its next step and how many comments it has fetched
  alerts,   \* how often the subscribers were alerted to each comment
  hidden,   \* history: comments made old by other writers, the times, or a failure
  rewinds,  \* history: how often last_push_datetime went back
  overlaps, faults, writes   \* for the bounds: counts, and the failures that happened

told   == <<alerts, hidden>>
counts == <<overlaps, faults, writes>>
vars   == <<posted, gone, row, tracked, check, writer, told, rewinds, counts>>

Idle  == [pc |-> "idle", then |-> "idle", last |-> 0, got |-> 0, lost |-> FALSE]
WIdle == [pc |-> "idle", got |-> 0]

Minute(n) == IF n = 0 THEN 0 ELSE At[n]   \* LastPushDateTime of a page with n comments

ReadBack(t) == IF t = 0 THEN 0 ELSE t + Shift   \* what Find makes of a saved time

\* What is new for a check: comment.DateTime.After(a.LastPushDateTime)
New(n, t) == {c \in 1..n : At[c] > t}

\* Comments after the last one of a page that are not newer than its time, as it is
\* read back: those of its minute and of the next eight hours.
Shadowed(n) == {c \in Comments : n > 0 /\ c > n /\ At[c] <= ReadBack(At[n])}

Going(k) == check[k].pc \notin {"idle", "listed"}
Unsent == UNION {New(check[k].got, check[k].last) : k \in {j \in Checks : check[j].pc = "send"}}

Fault(f) ==
  /\ f \in Faults \ faults /\ Cardinality(faults) < MaxFaults
  /\ faults' = faults \union {f}
NoFault == UNCHANGED faults

\* A command has looked the article up before its first comment.
Init ==
  /\ posted = 0 /\ row = {0}
  /\ gone = FALSE /\ tracked = TRUE
  /\ check = [k \in Checks |-> Idle] /\ writer = [w \in Writers |-> WIdle]
  /\ alerts = [c \in Comments |-> 0] /\ hidden = {}
  /\ rewinds = 0 /\ overlaps = 0 /\ faults = {} /\ writes = 0

(***************************************************************************)
(* PTT.                                                                    *)
(***************************************************************************)
Post ==
  /\ ~gone /\ posted < MaxComments
  /\ posted' = posted + 1
  /\ UNCHANGED <<gone, row, tracked, check, writer, told, rewinds, counts>>

Remove ==
  /\ ~gone /\ gone' = TRUE
  /\ UNCHANGED <<posted, row, tracked, check, writer, told, rewinds, counts>>

\* What a fetch of the page returns: comments if it is there; none, and no error, if
\* the answer is neither the page nor a 404 (busy), or is the second one, after the
\* question for the reader's age, where a 404 goes unnoticed.
Page(n) ==
  \/ ~gone /\ NoFault /\ n = posted
  \/ Fault("busy") /\ n = 0

(***************************************************************************)
(* A save writes last_push_datetime and replaces the comments of the row;  *)
(* it makes the row if there is none.                                      *)
(***************************************************************************)
SaveInsert(t) ==   \* mutant: INSERT without ON CONFLICT
  /\ row' = row \union {t} /\ UNCHANGED rewinds

Save(t) ==
  /\ row' = {t}
  /\ rewinds' = IF \E r \in row : r <= t THEN rewinds ELSE rewinds + 1

(***************************************************************************)
(* checkComments.  Neither a page without comments nor the zero Article of *)
(* a 404 is newer than the row.                                            *)
(***************************************************************************)

\* Articles.List finds the key; the goroutine starts later.
List(k) ==
  /\ check[k].pc = "idle" /\ tracked
  /\ check' = [check EXCEPT ![k].pc = "listed"]
  /\ UNCHANGED <<posted, gone, row, tracked, writer, told, rewinds, counts>>

FindNothing(k) ==
  /\ check[k].pc = "listed" /\ row = {}
  /\ check' = [check EXCEPT ![k] = Idle]
  /\ UNCHANGED <<posted, gone, row, tracked, writer, told, rewinds, counts>>

Find(k) ==
  /\ check[k].pc = "listed"
  /\ \E t \in row : check' = [check EXCEPT ![k].last = ReadBack(t), ![k].pc = "fetch"]
  /\ IF \E j \in Checks : Going(j)
       THEN overlaps < MaxOverlaps /\ overlaps' = overlaps + 1
       ELSE UNCHANGED overlaps
  /\ UNCHANGED <<posted, gone, row, tracked, writer, told, rewinds, faults, writes>>

FetchOrDestroy(k) ==   \* mutant: any page without comments is taken for a 404
  /\ check[k].pc = "fetch"
  /\ \/ \E n \in Comments : Page(n) /\ check' = [check EXCEPT ![k].got = n, ![k].pc = "subscribers"]
     \/ /\ (gone /\ NoFault) \/ Page(0)
        /\ check' = [check EXCEPT ![k].pc = "delete", ![k].then = "subscribers"]
  /\ UNCHANGED <<posted, gone, row, tracked, writer, told, rewinds, overlaps, writes>>

Fetch(k) ==
  /\ check[k].pc = "fetch"
  /\ \/ \E n \in 0..MaxComments :
          Page(n) /\ check' = [check EXCEPT ![k].got = n, ![k].pc = "subscribers"]
     \/ /\ gone /\ NoFault
        /\ check' = [check EXCEPT ![k].pc = "delete", ![k].then = "subscribers"]
  /\ UNCHANGED <<posted, gone, row, tracked, writer, told, rewinds, overlaps, writes>>

\* if subs, _ := a.Subscribers(); len(subs) == 0: an error counts as nobody.
Nobody == (~tracked /\ NoFault) \/ Fault("subscribers")

CountSubscribers(k) ==
  /\ check[k].pc = "subscribers"
  /\ \/ tracked /\ NoFault /\ check' = [check EXCEPT ![k].pc = "compare"]
     \/ Nobody /\ check' = [check EXCEPT ![k].pc = "delete", ![k].then = "compare"]
  /\ UNCHANGED <<posted, gone, row, tracked, writer, told, rewinds, overlaps, writes>>

\* destroyComments: the row first, and the set only if that went well.
Delete(k) ==
  /\ check[k].pc = "delete"
  /\ \/ NoFault /\ row' = {} /\ check' = [check EXCEPT ![k].pc = "del"]
     \/ Fault("delete") /\ check' = [check EXCEPT ![k].pc = check[k].then] /\ UNCHANGED row
  /\ UNCHANGED <<posted, gone, tracked, writer, told, rewinds, overlaps, writes>>

Del(k) ==
  /\ check[k].pc = "del"
  /\ \/ NoFault /\ tracked' = FALSE
     \/ Fault("del") /\ UNCHANGED tracked
  /\ check' = [check EXCEPT ![k].pc = check[k].then]
  /\ UNCHANGED <<posted, gone, row, writer, told, rewinds, overlaps, writes>>

CompareUnsaved(k) ==   \* mutant: a.Save() is left out
  /\ check[k].pc = "compare"
  /\ check' = [check EXCEPT ![k] = IF Minute(check[k].got) > check[k].last
                                   THEN [@ EXCEPT !.pc = "send"] ELSE Idle]
  /\ UNCHANGED <<posted, gone, row, tracked, writer, told, rewinds, counts>>

\* The result of a.Save() is not looked at: the alert goes out in any case, except
\* that ach <- a waits for ever on the channel of a Run that has ended.
Compare(k) == LET t == Minute(check[k].got)
                  new == New(check[k].got, check[k].last) IN
  /\ check[k].pc = "compare"
  /\ IF t > check[k].last
       THEN /\ \/ /\ NoFault /\ Save(t)
                  /\ hidden' = hidden \union Shadowed(check[k].got)
                                     \union (IF check[k].lost THEN new ELSE {})
               \/ Fault("save") /\ UNCHANGED <<row, rewinds, hidden>>
            /\ check' = [check EXCEPT ![k] = IF @.lost THEN Idle ELSE [@ EXCEPT !.pc = "send"]]
       ELSE /\ check' = [check EXCEPT ![k] = Idle]
            /\ NoFault /\ UNCHANGED <<row, rewinds, hidden>>
  /\ UNCHANGED <<posted, gone, tracked, writer, alerts, overlaps, writes>>

\* ach <- a, and checkSubscribers in the main loop: on an error nobody is told.
SendLast(k) ==   \* mutant: only the last comment of the page
  /\ check[k].pc = "send" /\ tracked
  /\ alerts' = [alerts EXCEPT ![check[k].got] = @ + 1]
  /\ check' = [check EXCEPT ![k] = Idle]
  /\ UNCHANGED <<posted, gone, row, tracked, writer, hidden, rewinds, counts>>

Send(k) == LET new == New(check[k].got, check[k].last) IN
  /\ check[k].pc = "send"
  /\ \/ /\ tracked /\ NoFault
        /\ alerts' = [c \in Comments |-> IF c \in new THEN alerts[c] + 1 ELSE alerts[c]]
        /\ UNCHANGED hidden
     \/ Nobody /\ hidden' = hidden \union new /\ UNCHANGED alerts
  /\ check' = [check EXCEPT ![k] = Idle]
  /\ UNCHANGED <<posted, gone, row, tracked, writer, rewinds, overlaps, writes>>

(***************************************************************************)
(* The other writers.  The aggregator reads the rows of the last day, the  *)
(* command looks at an article that nobody tracks.  Both fetch the page    *)
(* and save all its comments, also those of a busy page.                   *)
(***************************************************************************)
Begin(w) ==
  /\ writer[w].pc = "idle" /\ writes < MaxWrites
  /\ row # {} \/ (~tracked /\ ~gone)
  /\ writes' = writes + 1
  /\ writer' = [writer EXCEPT ![w].pc = "fetch"]
  /\ UNCHANGED <<posted, gone, row, tracked, check, told, rewinds, overlaps, faults>>

FetchAll(w) ==
  /\ writer[w].pc = "fetch"
  /\ \/ \E n \in 0..MaxComments : Page(n) /\ writer' = [writer EXCEPT ![w] = [pc |-> "save", got |-> n]]
     \/ gone /\ NoFault /\ writer' = [writer EXCEPT ![w] = WIdle]
  /\ UNCHANGED <<posted, gone, row, tracked, check, told, rewinds, overlaps, writes>>

SaveAll(w) == LET n == writer[w].got IN
  /\ writer[w].pc = "save"
  /\ \/ /\ NoFault /\ Save(Minute(n))
        /\ hidden' = hidden \union (1..n) \union Shadowed(n)
     \/ Fault("save") /\ UNCHANGED <<row, rewinds, hidden>>
  /\ writer' = [writer EXCEPT ![w] = WIdle]
  /\ UNCHANGED <<posted, gone, tracked, check, alerts, overlaps, writes>>

\* The article is in the feed of its board, which has no times of comments, and
\* the board checker saves the feed.
SaveFeed ==
  /\ ~gone /\ writes < MaxWrites
  /\ writes' = writes + 1 /\ Save(0)
  /\ UNCHANGED <<posted, gone, tracked, check, writer, told, overlaps, faults>>

\* Run ends and is started again: its lister finishes the round it is in, and the
\* goroutines it has started go on, with a channel nobody will read.
Stop ==
  /\ Fault("stop")
  /\ check' = [k \in Checks |-> IF check[k].pc \in {"idle", "send"} THEN Idle
                                ELSE [check[k] EXCEPT !.lost = TRUE]]
  /\ hidden' = hidden \union Unsent
  /\ UNCHANGED <<posted, gone, row, tracked, writer, alerts, rewinds, overlaps, writes>>

Restart ==
  /\ Fault("restart")
  /\ check' = [k \in Checks |-> Idle] /\ writer' = [w \in Writers |-> WIdle]
  /\ hidden' = hidden \union Unsent
  /\ UNCHANGED <<posted, gone, row, tracked, alerts, rewinds, overlaps, writes>>

Step(k) ==
  \/ List(k) \/ FindNothing(k) \/ Find(k) \/ Fetch(k) \/ CountSubscribers(k)
  \/ Delete(k) \/ Del(k) \/ Compare(k) \/ Send(k)

Next ==
  \/ Post \/ Remove \/ SaveFeed \/ Stop \/ Restart
  \/ \E k \in Checks : Step(k)
  \/ \E w \in Writers : Begin(w) \/ FetchAll(w) \/ SaveAll(w)

\* Run starts a check of every listed article in every round, and a started
\* goroutine ends, or waits for ever where Compare says so: the client that fetches
\* has a timeout, and the loop of a Run that goes on takes what is sent.
Fairness == \A k \in Checks : WF_vars(Step(k))

Spec == Init /\ [][Next]_vars /\ Fairness

-----------------------------------------------------------------------------
\* Every variable has its type; the row has one time.
TypeOK ==
  /\ posted \in 0..MaxComments /\ gone \in BOOLEAN /\ tracked \in BOOLEAN
  /\ row \subseteq {0} \union {At[c] : c \in Comments} /\ Cardinality(row) <= 1
  /\ check \in [Checks -> [
       pc   : {"idle", "listed", "fetch", "subscribers", "delete", "del", "compare", "send"},
       then : {"idle", "subscribers", "compare"},
       last : {0} \union {ReadBack(At[c]) : c \in Comments},
       got  : 0..MaxComments,
       lost : BOOLEAN]]
  /\ writer \in [Writers -> [pc : {"idle", "fetch", "save"}, got : 0..MaxComments]]
  /\ alerts \in [Comments -> Nat] /\ hidden \subseteq Comments
  /\ rewinds \in Nat /\ overlaps \in Nat /\ faults \subseteq Faults /\ writes \in Nat

\* A comment that last_push_datetime, as it is read, makes old was alerted, or is
\* about to be, or has a known reason not to be: another writer saved it first, it
\* came within Shift of a comment on a page saved without it, or a failure, a Stop or
\* a restart came between save and alert.
NoneMissed ==
  \A c \in 1..posted :
    (\E t \in row : At[c] <= ReadBack(t)) => alerts[c] > 0 \/ c \in Unsent \/ c \in hidden

\* A comment is alerted once, and once more at most for every time that
\* last_push_datetime went back, a save failed, or a check began before the one
\* before it had ended.
RepeatExplained ==
  \A c \in Comments :
    alerts[c] <= 1 + rewinds + overlaps + Cardinality(faults \intersect {"save"})

\* Nobody stops tracking an article by accident: its subscriber set is deleted only
\* after PTT has deleted the article, or because Redis failed.
TrackedUntilGone ==
  ~tracked => gone \/ "subscribers" \in faults

\* A comment of a tracked article is alerted in the end, unless NoneMissed knows why
\* not, or the article is gone or destroyed.
ToldInTheEnd ==
  []<>(\A c \in 1..posted :
         alerts[c] > 0 \/ c \in hidden \/ gone \/ ~tracked \/ row = {})
=============================================================================
