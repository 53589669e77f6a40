------------------------------- MODULE Monitor -------------------------------
(***************************************************************************)
(* The PTT monitor, which stops the three checkers when PTT is down and    *)
(* starts them again, and what Run and Stop do with goroutines and         *)
(* channels.  The three checkers share the monitor's counter and the       *)
(* message workers only, so a behaviour follows one of them: job.          *)
(*                                                                         *)
(* All calls of Run of a checker receive from the same channels done and   *)
(* ch, which are made once.  boardCh of the keyword checker is a variable  *)
(* of the package; the other two make an unbuffered channel in Run.        *)
(***************************************************************************)
EXTENDS Integers, FiniteSets

CONSTANTS
  Jobs,        \* the checkers a behaviour may follow
  Retry,       \* pm.retry
  Boards,      \* how many boards or articles a round goes over, at most
  QueueCap,    \* capacity of boardCh
  MaxRuns,     \* bound: calls of Run
  MaxErrors,   \* bound: failures in a row
  MaxCrawls,   \* bound: crawls of a Run in flight
  MaxWaiting   \* bound: goroutines blocked on ch

ASSUME MonitorAssumption ==
  /\ Jobs \subseteq {"keyword", "pushsum", "comment"}
  /\ Retry \in Nat /\ Boards \in Nat \ {0} /\ QueueCap \in Nat \ {0}
  /\ MaxRuns \in Nat \ {0}
  /\ MaxErrors \in Nat /\ MaxCrawls \in Nat /\ MaxWaiting \in Nat

VARIABLES
  job,      \* the checker
  errors,   \* errorCounter
  stops,    \* goroutines in Stop, blocked on done
  run,      \* what each call of Run does
  feed,     \* does its goroutine that goes over the boards live?
  todo,     \* boards left in the round of that goroutine
  crawls,   \* goroutines it has started that have not handed over their result
  queue,    \* boards in boardCh
  waiting,  \* goroutines blocked on ch with an alert
  short     \* history: outages of exactly Retry failures

vars == <<job, errors, stops, run, feed, todo, crawls, queue, waiting, short>>

chans == <<queue, waiting>>
feeds == <<feed, todo, crawls>>

\* "select": the select of the main loop; "handing": sends on ckCh; "draining"
\* and "taking": has received from done, and counts or takes what is in boardCh.
States == {"off", "select", "handing", "draining", "taking", "ended"}

Runs == 1..MaxRuns   \* in the order of the calls

Live == {r \in Runs : run[r] \in {"select", "handing"}}
CancelledAtEnd == {r \in Runs : run[r] = "ended"}   \* mutant: only the deferred cancel
Cancelled == {r \in Runs : run[r] \in {"draining", "taking", "ended"}}

\* startJobs starts each checker once.
Init ==
  /\ job \in Jobs
  /\ errors = 0 /\ stops = 0 /\ queue = 0 /\ waiting = 0 /\ short = 0
  /\ run  = [r \in Runs |-> IF r = 1 THEN "select" ELSE "off"]
  /\ feed = [r \in Runs |-> r = 1]
  /\ todo = [r \in Runs |-> 0] /\ crawls = [r \in Runs |-> 0]

StartRun(r) ==
  /\ run[r] = "off" /\ \A q \in Runs : q < r => run[q] # "off"
  /\ run'  = [run EXCEPT ![r] = "select"]
  /\ feed' = [feed EXCEPT ![r] = TRUE]

(***************************************************************************)
(* The monitor.  A request that fails without an answer changes nothing.   *)
(***************************************************************************)
RevivesOnce == errors = Retry   \* mutant: no Run after a longer outage
DiesAgain == errors >= Retry    \* mutant: every further failure sends a Stop

Revives == errors >= Retry
Dies == errors = Retry

Alive ==
  /\ errors' = 0
  /\ IF Revives THEN \E r \in Runs : StartRun(r) ELSE UNCHANGED <<run, feed>>
  /\ short' = IF errors = Retry THEN short + 1 ELSE short
  /\ UNCHANGED <<job, stops, todo, crawls, chans>>

\* The bound on Runs: PTT does not die when there is no slot left.
Dead ==
  /\ errors < MaxErrors
  /\ errors + 1 >= Retry => run[MaxRuns] = "off"
  /\ errors' = errors + 1
  /\ stops' = IF Dies THEN stops + 1 ELSE stops
  /\ UNCHANGED <<job, run, feeds, chans, short>>

(***************************************************************************)
(* The goroutine that goes over the boards.  It looks at the context only  *)
(* between two rounds.                                                     *)
(***************************************************************************)
StartRound(r) ==
  /\ feed[r] /\ todo[r] = 0 /\ r \notin Cancelled
  /\ \E n \in 1..Boards : todo' = [todo EXCEPT ![r] = n]
  /\ UNCHANGED <<job, errors, stops, run, feed, crawls, chans, short>>

GoCrawl(r) ==
  /\ todo[r] > 0 /\ crawls[r] < MaxCrawls
  /\ todo'   = [todo EXCEPT ![r] = @ - 1]
  /\ crawls' = [crawls EXCEPT ![r] = @ + 1]
  /\ UNCHANGED <<job, errors, stops, run, feed, chans, short>>

CloseFeed(r) ==
  /\ feed[r] /\ todo[r] = 0 /\ r \in Cancelled
  /\ feed' = [feed EXCEPT ![r] = FALSE]
  /\ UNCHANGED <<job, errors, stops, run, todo, crawls, chans, short>>

CrawlDone(r) ==
  /\ crawls[r] > 0
  /\ crawls' = [crawls EXCEPT ![r] = @ - 1]

\* A keyword or comment crawl that found nothing new.
CrawlNothing(r) ==
  /\ job # "pushsum"
  /\ CrawlDone(r)
  /\ UNCHANGED <<job, errors, stops, run, feed, todo, chans, short>>

\* boardCh <- bd
Enqueue(r) ==
  /\ job = "keyword" /\ queue < QueueCap
  /\ CrawlDone(r)
  /\ queue' = queue + 1
  /\ UNCHANGED <<job, errors, stops, run, feed, todo, waiting, short>>

(***************************************************************************)
(* The main loop.  The goroutines started for what it receives end without *)
(* an alert or block on ch.                                                *)
(***************************************************************************)
Matched ==
  \/ UNCHANGED waiting
  \/ waiting < MaxWaiting /\ waiting' = waiting + 1

TakeBoardClosed(r) ==   \* mutant: receives when the channel is empty
  /\ run[r] = "select"
  /\ queue' = queue - 1 /\ Matched
  /\ UNCHANGED <<job, errors, stops, run, feeds, short>>

TakeBoard(r) ==
  /\ run[r] = "select" /\ queue > 0
  /\ queue' = queue - 1 /\ Matched
  /\ UNCHANGED <<job, errors, stops, run, feeds, short>>

\* The channel that Run has made: only its own crawls send on it.
TakeResult(r) ==
  /\ job # "keyword" /\ run[r] = "select"
  /\ CrawlDone(r) /\ Matched
  /\ UNCHANGED <<job, errors, stops, run, feed, todo, queue, short>>

TakeAlert(r) ==
  /\ run[r] = "select" /\ waiting > 0
  /\ run' = [run EXCEPT ![r] = "handing"] /\ waiting' = waiting - 1
  /\ UNCHANGED <<job, errors, stops, feeds, queue, short>>

Deliver(r) ==
  /\ run[r] = "handing"
  /\ run' = [run EXCEPT ![r] = "select"]
  /\ UNCHANGED <<job, errors, stops, feeds, chans, short>>

\* Any call of Run may get the signal of any Stop.
TakeStopIdle(r) ==   \* mutant: only a Run without crawls in flight takes a Stop
  /\ run[r] = "select" /\ stops > 0 /\ crawls[r] = 0 /\ queue = 0
  /\ run' = [run EXCEPT ![r] = "draining"] /\ stops' = stops - 1
  /\ UNCHANGED <<job, errors, feeds, chans, short>>

TakeStop(r) ==
  /\ run[r] = "select" /\ stops > 0
  /\ run' = [run EXCEPT ![r] = "draining"] /\ stops' = stops - 1
  /\ UNCHANGED <<job, errors, feeds, chans, short>>

(***************************************************************************)
(* for len(boardCh) > 0 { <-boardCh }: another Run may take the last board *)
(* between the two, and the receive then waits for the next board.  The    *)
(* other channels have no buffer: their length is 0.                       *)
(***************************************************************************)
CountAll(r) ==   \* mutant: the blocked goroutines are drained as well
  /\ run[r] = "draining"
  /\ run' = [run EXCEPT ![r] = IF queue > 0 THEN "taking" ELSE "ended"]
  /\ waiting' = IF queue > 0 THEN waiting ELSE 0
  /\ UNCHANGED <<job, errors, stops, feeds, queue, short>>

Count(r) ==
  /\ run[r] = "draining"
  /\ run' = [run EXCEPT ![r] = IF queue > 0 THEN "taking" ELSE "ended"]
  /\ UNCHANGED <<job, errors, stops, feeds, chans, short>>

Discard(r) ==
  /\ run[r] = "taking" /\ queue > 0
  /\ queue' = queue - 1
  /\ run' = [run EXCEPT ![r] = "draining"]
  /\ UNCHANGED <<job, errors, stops, feeds, waiting, short>>

Next ==
  \/ Alive \/ Dead
  \/ \E r \in Runs :
       \/ StartRound(r) \/ GoCrawl(r) \/ CloseFeed(r)
       \/ CrawlNothing(r) \/ Enqueue(r)
       \/ TakeBoard(r) \/ TakeResult(r) \/ TakeAlert(r) \/ Deliver(r)
       \/ TakeStop(r) \/ Count(r) \/ Discard(r)

(***************************************************************************)
(* Goroutines run, requests end, workers send.  A select with several      *)
(* ready cases chooses one at random, hence SF for what it receives from   *)
(* channels that other goroutines take from as well.  Nothing is assumed   *)
(* of the monitor: its http.Get has no timeout, and PTT is what it is.     *)
(***************************************************************************)
Fairness ==
  /\ SF_vars(\E r \in Runs : TakeStop(r)) /\ SF_vars(\E r \in Runs : TakeAlert(r))
  /\ \A r \in Runs : WF_vars(Deliver(r)) /\ WF_vars(GoCrawl(r)) /\ WF_vars(CloseFeed(r))

Spec == Init /\ [][Next]_vars /\ Fairness

-----------------------------------------------------------------------------
\* Every variable has its type.
TypeOK ==
  /\ job \in Jobs
  /\ errors \in Nat /\ stops \in Nat /\ queue \in Nat /\ waiting \in Nat /\ short \in Nat
  /\ run \in [Runs -> States] /\ feed \in [Runs -> BOOLEAN]
  /\ todo \in [Runs -> Nat] /\ crawls \in [Runs -> Nat]

\* How many main loops there are: one while PTT answers and none while it is
\* dead, one more for every Stop that no loop has received yet, and one more, for
\* good, for every outage of exactly Retry failures: Stop is sent at failure
\* Retry + 1, Run is called after Retry.
LoopsInv ==
  Cardinality(Live) = stops + short + (IF errors > Retry THEN 0 ELSE 1)

\* A Stop never throws away an alert that waits on ch: it waits for the next Run.
AlertsKept ==
  [][waiting' < waiting =>
       \E r \in Runs : run[r] = "select" /\ run'[r] = "handing"]_vars

\* Once PTT is not dead any more, Stops that came late are received in the end,
\* and by so many loops that the right number is left.
Recovered ==
  <>[](errors <= Retry) => <>[](stops = 0 /\ Cardinality(Live) = 1 + short)

\* When PTT stays dead, the crawling ends, also that of a round that has begun,
\* unless crawls that nobody receives from fill what is allowed in flight.
Quiet ==
  <>[](errors > Retry /\ short = 0) =>
    <>[](\A r \in Runs : feed[r] => crawls[r] = MaxCrawls)

\* An alert that waits on ch, before an outage or in it, is handed to a worker
\* once PTT is not dead any more.
SentInTheEnd ==
  <>[](errors <= Retry) => []<>(waiting = 0)
=============================================================================
