---------------------------- MODULE MonitorProofs ----------------------------
(***************************************************************************)
(* Proofs about Monitor: for any number of calls of Run, of boards and of  *)
(* crawls in flight, and any pattern of outages, the main loops are as     *)
(* many as LoopsInv says, and no Stop throws an alert away.                *)
(***************************************************************************)
EXTENDS Monitor, FiniteSetTheorems, TLAPS

\* What each step assigns has its type.
THEOREM TypeCorrect == Spec => []TypeOK
<1> USE MonitorAssumption DEF TypeOK, Runs, States
<1>1. Init => TypeOK
  BY DEF Init
<1>2. TypeOK /\ [Next]_vars => TypeOK'
  <2> SUFFICES ASSUME TypeOK, [Next]_vars PROVE TypeOK'
    OBVIOUS
  <2>1. CASE Alive
    <3>1. ASSUME NEW r \in Runs, StartRun(r)
          PROVE  run' \in [Runs -> States] /\ feed' \in [Runs -> BOOLEAN]
      BY <3>1 DEF StartRun
    <3> QED
      BY <2>1, <3>1 DEF Alive, chans
  <2>2. CASE Dead
    BY <2>2 DEF Dead, feeds, chans
  <2>3. ASSUME NEW r \in Runs, StartRound(r) PROVE TypeOK'
    <3>1. PICK n \in 1..Boards : todo' = [todo EXCEPT ![r] = n]
      BY <2>3 DEF StartRound
    <3>2. n \in Nat
      OBVIOUS
    <3>3. todo' \in [Runs -> Nat]
      BY <3>1, <3>2
    <3> QED
      BY <2>3, <3>3 DEF StartRound, chans
  <2>12. ASSUME NEW r \in Runs, GoCrawl(r) PROVE TypeOK'
    <3>1. todo' \in [Runs -> Nat]
      BY <2>12 DEF GoCrawl
    <3>2. crawls' \in [Runs -> Nat]
      BY <2>12 DEF GoCrawl
    <3> QED
      BY <2>12, <3>1, <3>2 DEF GoCrawl, chans
  <2>13. ASSUME NEW r \in Runs, CloseFeed(r) PROVE TypeOK'
    BY <2>13 DEF CloseFeed, chans
  <2>4. ASSUME NEW r \in Runs, CrawlDone(r) PROVE crawls' \in [Runs -> Nat]
    BY <2>4 DEF CrawlDone
  <2>5. ASSUME NEW r \in Runs, CrawlNothing(r) \/ Enqueue(r) PROVE TypeOK'
    BY <2>4, <2>5 DEF CrawlNothing, Enqueue, chans
  <2>6. ASSUME Matched PROVE waiting' \in Nat
    BY <2>6 DEF Matched
  <2>7. ASSUME NEW r \in Runs, TakeBoard(r) PROVE TypeOK'
    <3>1. queue' \in Nat
      BY <2>7 DEF TakeBoard
    <3> QED
      BY <2>6, <2>7, <3>1 DEF TakeBoard, feeds
  <2>8. ASSUME NEW r \in Runs, TakeResult(r) PROVE TypeOK'
    <3>1. crawls' \in [Runs -> Nat] /\ waiting' \in Nat
      BY <2>4, <2>6, <2>8 DEF TakeResult
    <3> QED
      BY <2>8, <3>1 DEF TakeResult
  <2>9. ASSUME NEW r \in Runs, TakeAlert(r) \/ Deliver(r) PROVE TypeOK'
    <3>1. waiting' \in Nat /\ run' \in [Runs -> States]
      BY <2>9 DEF TakeAlert, Deliver, chans
    <3> QED
      BY <2>9, <3>1 DEF TakeAlert, Deliver, feeds, chans
  <2>10. ASSUME NEW r \in Runs, TakeStop(r) \/ Count(r) \/ Discard(r) PROVE TypeOK'
    <3>1. run' \in [Runs -> States]
      BY <2>10 DEF TakeStop, Count, Discard
    <3>2. stops' \in Nat
      BY <2>10 DEF TakeStop, Count, Discard
    <3>3. queue' \in Nat
      BY <2>10 DEF TakeStop, Count, Discard, chans
    <3> QED
      BY <2>10, <3>1, <3>2, <3>3 DEF TakeStop, Count, Discard, feeds, chans
  <2>11. CASE UNCHANGED vars
    BY <2>11 DEF vars, feeds, chans
  <2> QED
    BY <2>1, <2>2, <2>3, <2>5, <2>7, <2>8, <2>9, <2>10,
       <2>11, <2>12, <2>13 DEF Next
<1> QED
  BY <1>1, <1>2, PTL DEF Spec

-----------------------------------------------------------------------------
\* The calls of Run are numbered, so those that are live can be counted.
LEMMA LiveFinite == IsFiniteSet(Live) /\ Cardinality(Live) \in Nat
<1>1. IsFiniteSet(Runs)
  BY FS_Interval, MonitorAssumption DEF Runs
<1> QED
  BY <1>1, FS_Subset, FS_CardinalityType DEF Live

\* A step that leaves each Run live or not, and the three counters, keeps the count.
LEMMA LoopsUnchanged ==
  ASSUME LoopsInv, UNCHANGED <<stops, short, errors>>,
         \A q \in Runs : run'[q] \in {"select", "handing"} <=> run[q] \in {"select", "handing"}
  PROVE  LoopsInv'
<1>1. Live' = Live
  BY DEF Live
<1> QED
  BY <1>1 DEF LoopsInv

\* A call of Run adds one main loop.
LEMMA RunAddsOne ==
  ASSUME TypeOK, NEW r \in Runs, StartRun(r)
  PROVE  Cardinality(Live') = Cardinality(Live) + 1
<1>1. Live' = Live \union {r} /\ r \notin Live
  BY DEF StartRun, Live, TypeOK
<1> QED
  BY <1>1, LiveFinite, FS_AddElement

\* A Stop that is received ends one.
LEMMA StopEndsOne ==
  ASSUME TypeOK, NEW r \in Runs, TakeStop(r)
  PROVE  Cardinality(Live') = Cardinality(Live) - 1
<1>1. Live' = Live \ {r} /\ r \in Live
  BY DEF TakeStop, Live, TypeOK
<1> QED
  BY <1>1, LiveFinite, FS_RemoveElement

\* Each failure of PTT, each answer, each Run and each Stop keeps the balance.
LEMMA LoopsKept ==
  ASSUME TypeOK, LoopsInv, [Next]_vars
  PROVE  LoopsInv'
<1> USE MonitorAssumption
<1> DEFINE Same == \A q \in Runs :
             run'[q] \in {"select", "handing"} <=> run[q] \in {"select", "handing"}
<1>1. CASE Alive
  <2>1. CASE Revives
    <3>1. Cardinality(Live') = Cardinality(Live) + 1
      BY <1>1, <2>1, RunAddsOne DEF Alive
    <3>2. /\ errors' = 0 /\ stops' = stops /\ errors >= Retry
          /\ short' = IF errors = Retry THEN short + 1 ELSE short
      BY <1>1, <2>1 DEF Alive, Revives
    <3> QED
      BY <3>1, <3>2 DEF LoopsInv, TypeOK
  <2>2. CASE ~Revives
    <3>1. Live' = Live /\ errors' = 0 /\ stops' = stops /\ errors < Retry /\ short' = short
      BY <1>1, <2>2 DEF Alive, Revives, Live, TypeOK
    <3> QED
      BY <3>1 DEF LoopsInv, TypeOK
  <2> QED
    BY <2>1, <2>2
<1>2. CASE Dead
  <2>1. /\ Live' = Live /\ errors' = errors + 1 /\ short' = short
        /\ stops' = IF errors = Retry THEN stops + 1 ELSE stops
    BY <1>2 DEF Dead, Dies, Live
  <2> QED
    BY <2>1 DEF LoopsInv, TypeOK
<1>3. ASSUME NEW r \in Runs, TakeStop(r) PROVE LoopsInv'
  <2>1. stops > 0 /\ stops' = stops - 1 /\ errors' = errors /\ short' = short
    BY <1>3 DEF TakeStop
  <2> QED
    BY <1>3, <2>1, StopEndsOne, LiveFinite DEF LoopsInv, TypeOK
<1>4. ASSUME NEW r \in Runs, TakeAlert(r) \/ Deliver(r) \/ Count(r) \/ Discard(r)
      PROVE  LoopsInv'
  <2>1. Same
    BY <1>4 DEF TakeAlert, Deliver, Count, Discard, TypeOK
  <2>2. UNCHANGED <<stops, short, errors>>
    BY <1>4 DEF TakeAlert, Deliver, Count, Discard
  <2> QED
    BY <2>1, <2>2, LoopsUnchanged
<1>5. ASSUME NEW r \in Runs,
             \/ StartRound(r) \/ GoCrawl(r) \/ CloseFeed(r) \/ CrawlNothing(r)
             \/ Enqueue(r) \/ TakeBoard(r) \/ TakeResult(r)
      PROVE  LoopsInv'
  <2>1. UNCHANGED <<run, stops, short, errors>>
    BY <1>5 DEF StartRound, GoCrawl, CloseFeed, CrawlNothing, Enqueue, TakeBoard, TakeResult
  <2> QED
    BY <2>1, LoopsUnchanged
<1>6. CASE UNCHANGED vars
  BY <1>6, LoopsUnchanged DEF vars
<1> QED
  BY <1>1, <1>2, <1>3, <1>4, <1>5, <1>6 DEF Next

\* Whatever the pattern of outages, and however late the Stops are received, the
\* main loops of a checker are as many as the outages so far say: extra loops come
\* from outages of exactly Retry failures and from nothing else.
THEOREM LoopsCounted == Spec => []LoopsInv
<1>1. Init => LoopsInv
  <2> SUFFICES ASSUME Init PROVE LoopsInv
    OBVIOUS
  <2>1. 1 \in Runs
    BY MonitorAssumption DEF Runs
  <2>2. Live = {1}
    BY <2>1 DEF Init, Live
  <2>3. Cardinality(Live) = 1
    BY <2>2, FS_Singleton
  <2> QED
    BY <2>3, MonitorAssumption DEF Init, LoopsInv
<1> QED
  BY <1>1, LoopsKept, TypeCorrect, PTL DEF Spec

-----------------------------------------------------------------------------
\* Draining takes boards from the buffered channel only: an alert leaves ch by
\* the select of a main loop, which then hands it to a worker.
THEOREM NoAlertDropped == Spec => AlertsKept
<1> DEFINE Handed == \E r \in Runs : run[r] = "select" /\ run'[r] = "handing"
<1>1. ASSUME TypeOK, [Next]_vars, waiting' < waiting PROVE Handed
  <2>1. ASSUME Matched \/ UNCHANGED waiting PROVE FALSE
    BY <1>1, <2>1 DEF Matched, TypeOK
  <2>2. ~(Alive \/ Dead \/ UNCHANGED vars)
    BY <2>1 DEF Alive, Dead, vars, chans
  <2>3. PICK r \in Runs :
          \/ StartRound(r) \/ GoCrawl(r) \/ CloseFeed(r) \/ CrawlNothing(r)
          \/ Enqueue(r) \/ TakeBoard(r) \/ TakeResult(r) \/ TakeAlert(r)
          \/ Deliver(r) \/ TakeStop(r) \/ Count(r) \/ Discard(r)
    BY <1>1, <2>2 DEF Next
  <2>4. TakeAlert(r)
    BY <2>1, <2>3 DEF StartRound, GoCrawl, CloseFeed, CrawlNothing, Enqueue, TakeBoard,
                      TakeResult, Deliver, TakeStop, Count, Discard, chans
  <2> QED
    BY <1>1, <2>4 DEF TakeAlert, TypeOK
<1>2. TypeOK /\ [Next]_vars => [waiting' < waiting => Handed]_vars
  BY <1>1
<1> QED
  BY <1>2, TypeCorrect, PTL DEF Spec, AlertsKept
=============================================================================
