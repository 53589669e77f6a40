---------------------------- MODULE PushSumProofs ----------------------------
(***************************************************************************)
(* Proofs about PushSum: for any number of articles, of crawls in flight   *)
(* at once and of restarts, and any schedule of the replacer, DiffList     *)
(* forgets an article no sooner than the second rename after it; and with  *)
(* the times of the code that is late enough, but for two named cases.     *)
(***************************************************************************)
EXTENDS PushSum, TLAPS

\* What each step assigns has its type.
THEOREM TypeCorrect == Spec => []TypeOK
<1>1. Init => TypeOK
  BY PushSumAssumption DEF Init, TypeOK, Never
<1>2. TypeOK /\ [Next]_vars => TypeOK'
  <2> SUFFICES ASSUME TypeOK, [Next]_vars PROVE TypeOK'
    OBVIOUS
  <2>1. ASSUME NEW a \in Articles, Post(a) PROVE TypeOK'
    BY <2>1 DEF TypeOK, Post, slotVars, setVars, history
  <2>2. ASSUME NEW a \in Articles, NEW s \in Scores, Vote(a, s) PROVE TypeOK'
    BY <2>2 DEF TypeOK, Vote, slotVars, setVars, history
  <2>3. ASSUME NEW c \in Crawls, Crawl(c) PROVE TypeOK'
    <3>1. \A seen \in SUBSET Articles : {<<a, score[a]>> : a \in seen} \subseteq Articles \X Scores
      BY DEF TypeOK
    <3>2. PICK seen \in SUBSET Articles :
            found' = [found EXCEPT ![c] = {<<a, score[a]>> : a \in seen}]
      BY <2>3 DEF Crawl
    <3>3. found' \in [Crawls -> SUBSET (Articles \X Scores)]
      BY <3>1, <3>2 DEF TypeOK
    <3> QED
      BY <2>3, <3>3 DEF TypeOK, Crawl, timeVars, setVars, history
  <2>4. ASSUME NEW c \in Crawls, Exists(c) PROVE TypeOK'
    BY <2>4 DEF TypeOK, Exists, timeVars, setVars, history
  <2>5. ASSUME NEW c \in Crawls, Exec(c) PROVE TypeOK'
    <3>1. Ids(c) \subseteq Articles
      BY DEF TypeOK, Ids
    <3> QED
      BY <2>5, <3>1 DEF TypeOK, Exec, Done, timeVars, setVars, history
  <2>6. ASSUME NEW c \in Crawls, Add(c) PROVE TypeOK'
    <3>1. mark' \in [Articles -> Nat \union {Never}]
      BY <2>6 DEF TypeOK, Add
    <3>2. base' \subseteq Articles
      BY <2>6 DEF TypeOK, Add, Done
    <3> QED
      BY <2>6, <3>1, <3>2 DEF TypeOK, Add, Done, timeVars
  <2>7. ASSUME NEW c \in Crawls, Send(c) PROVE TypeOK'
    <3>1. alerts' \in [Articles -> 0..2]
      BY <2>7 DEF TypeOK, Send
    <3> QED
      BY <2>7, <3>1 DEF TypeOK, Send, Done, timeVars, setVars
  <2>8. CASE ReplaceBenchKeys
    BY <2>8, PushSumAssumption DEF TypeOK, ReplaceBenchKeys, slotVars, setVars
  <2>9. CASE Crash
    BY <2>9, PushSumAssumption DEF TypeOK, Crash, setVars, history
  <2>10. CASE Tick
    BY <2>10 DEF TypeOK, Tick, slotVars, setVars, history
  <2>11. CASE End \/ UNCHANGED vars
    BY <2>11 DEF TypeOK, End, vars, slotVars, setVars, timeVars, history
  <2> QED
    BY <2>1, <2>2, <2>3, <2>4, <2>5, <2>6, <2>7, <2>8, <2>9, <2>10, <2>11
    DEF Next, Step
<1> QED
  BY <1>1, <1>2, PTL DEF Spec

-----------------------------------------------------------------------------
\* Remembered is not inductive by itself: that no article is marked with a
\* rename still to come must be known when the replacer counts one more.
MarkBound == \A a \in Articles : mark[a] <= renames

SetsInv == MarkBound /\ Remembered

\* A step of DiffList or of the replacer keeps what the two sets remember.
LEMMA SetsKept ==
  ASSUME TypeOK, SetsInv, [Next]_vars
  PROVE  SetsInv'
<1> USE DEF SetsInv, MarkBound, Remembered
<1>1. ASSUME UNCHANGED <<setVars, renames, mark>> PROVE SetsInv'
  BY <1>1 DEF setVars
<1>2. ASSUME NEW c \in Crawls, Add(c) PROVE SetsInv'
  BY <1>2 DEF Add, TypeOK
<1>3. CASE ReplaceBenchKeys
  <2>1. CASE base = {}
    BY <1>3, <1>1, <2>1 DEF ReplaceBenchKeys
  <2>2. CASE base # {}
    <3>1. renames' = renames + 1 /\ bench' = base /\ UNCHANGED mark
      BY <1>3, <2>2 DEF ReplaceBenchKeys
    <3>2. ASSUME NEW a \in Articles
          PROVE  /\ mark[a] <= renames + 1 /\ mark[a] # renames + 1
                 /\ (mark[a] # Never /\ mark[a] + 1 = renames + 1) => a \in base
      BY DEF TypeOK, Never
    <3> QED
      BY <3>1, <3>2
  <2> QED
    BY <2>1, <2>2
<1>4. ASSUME NEW a \in Articles, Post(a) PROVE SetsInv'
  BY <1>1, <1>4 DEF Post, history
<1>5. ASSUME NEW a \in Articles, NEW s \in Scores, Vote(a, s) PROVE SetsInv'
  BY <1>1, <1>5 DEF Vote, history
<1>6. ASSUME NEW c \in Crawls, Crawl(c) \/ Exists(c) \/ Exec(c) \/ Send(c)
      PROVE  SetsInv'
  BY <1>1, <1>6 DEF Crawl, Exists, Exec, Send, setVars, history
<1>7. CASE Crash \/ Tick \/ End \/ UNCHANGED vars
  BY <1>1, <1>7 DEF Crash, Tick, End, vars, setVars, history
<1> QED
  BY <1>2, <1>3, <1>4, <1>5, <1>6, <1>7 DEF Next, Step

\* The bound and the memory together, from the first state on.
LEMMA SetsHold == Spec => []SetsInv
<1>1. Init => SetsInv
  BY DEF Init, SetsInv, MarkBound, Remembered, Never
<1> QED
  BY <1>1, SetsKept, TypeCorrect, PTL DEF Spec

\* Whatever DiffLists overlap, and wherever the replacer or a restart cuts in,
\* an article recorded since the last rename but one is in one of the two sets.
THEOREM NothingForgotten == Spec => []Remembered
<1> QED
  BY SetsHold, PTL DEF SetsInv

\* So what the SDIFF of DiffList returns was recorded two renames ago or never.
THEOREM RepeatNeedsTwoRenames == Spec => NoEarlyRepeat
<1>1. ASSUME TypeOK, SetsInv, [Next]_vars,
             NEW c \in Crawls, NEW a \in Articles,
             pc[c] = "exec", pc'[c] = "add", a \in diff'[c]
      PROVE  mark[a] = Never \/ renames >= mark[a] + 2
  <2>1. Exec(c)
    <3>1. ASSUME NEW d \in Crawls, Crawl(d) \/ Exists(d) \/ Exec(d) \/ Add(d) \/ Send(d)
          PROVE  d = c
      BY <1>1, <3>1 DEF TypeOK, Crawl, Exists, Exec, Add, Send, Done
    <3>2. ~(Crawl(c) \/ Exists(c) \/ Add(c) \/ Send(c))
      BY <1>1 DEF Crawl, Exists, Add, Send
    <3>3. pc' # pc
      BY <1>1
    <3>4. ~(Tick \/ End \/ ReplaceBenchKeys \/ UNCHANGED vars)
      BY <3>3 DEF Tick, End, ReplaceBenchKeys, vars, slotVars
    <3>5. ~Crash
      BY <1>1 DEF Crash
    <3>6. \A b \in Articles : ~Post(b) /\ \A s \in Scores : ~Vote(b, s)
      BY <3>3 DEF Post, Vote, slotVars
    <3> QED
      BY <1>1, <3>1, <3>2, <3>4, <3>5, <3>6 DEF Next, Step
  <2>2. a \notin base \union bench
    BY <1>1, <2>1 DEF Exec, Done, TypeOK
  <2> QED
    BY <1>1, <2>2 DEF SetsInv, MarkBound, Remembered, TypeOK, Never
<1>2. TypeOK /\ SetsInv /\ [Next]_vars =>
        [\A c \in Crawls, a \in Articles :
           (pc[c] = "exec" /\ pc'[c] = "add" /\ a \in diff'[c])
             => (mark[a] = Never \/ renames >= mark[a] + 2)]_vars
  BY <1>1
<1> QED
  BY <1>2, TypeCorrect, SetsHold, PTL DEF Spec, NoEarlyRepeat

-----------------------------------------------------------------------------
(***************************************************************************)
(* When an article is alerted twice.  With the times of the code, and a    *)
(* replacer that runs no sooner than 48 hours after it ran or the process  *)
(* started, an article that two renames have passed is not recent any      *)
(* more, unless the first of them came in the eight hours after midnight   *)
(* in Taiwan in which the article was posted.                              *)
(***************************************************************************)
Schedule == Day = 3 /\ Offset = 1 /\ Overdue = 6 /\ Period = 6

\* A rename is due within two days.
Clock == /\ now <= due /\ due - 6 <= now
         /\ \A a \in Articles : post[a] # NoPost => post[a] <= now

\* Each rename since an article was recorded has moved its day by two more.
Aged == \A a \in Articles : mark[a] # Never =>
  /\ post[a] # NoPost
  /\ renames >= mark[a] + 1 => post[a] <= due - 6
  /\ renames >= mark[a] + 2 => post[a] <= due - 12

\* A bit more, if the replacer did not run too early for it.
AgedMore == \A a \in Articles : mark[a] # Never /\ a \notin excused /\ post[a] % 3 = 0 =>
  /\ renames >= mark[a] + 1 => post[a] < due - 6
  /\ renames >= mark[a] + 2 => post[a] < due - 12

\* What a crawl has in its hands is recent.
Fresh == \A c \in Crawls :
  /\ pc[c] # "idle" => \A a \in Ids(c) : Recent(a)
  /\ pc[c] \in {"add", "send"} => diff[c] \subseteq Ids(c)

\* SDIFF has given it to the crawl, and it is not alerted yet.
Handed(c, a) == pc[c] \in {"add", "send"} /\ a \in diff[c]

\* One crawl at a time has an article that is not excused in its hands, for the first
\* time; and only what has been recorded is alerted.
Single == \A a \in Articles \ excused :
  /\ \A c, d \in Crawls : Handed(c, a) /\ Handed(d, a) => c = d
  /\ \A c \in Crawls : Handed(c, a) /\ pc[c] = "add" => mark[a] = Never
  /\ \A c \in Crawls : Handed(c, a) /\ pc[c] = "send" => mark[a] # Never /\ alerts[a] = 0
  /\ alerts[a] <= 1 /\ (alerts[a] # 0 => mark[a] # Never)

OnceInv == Clock /\ Aged /\ AgedMore /\ Fresh /\ Single

\* The days of the list and of the clock.
LEMMA TooOld ==
  ASSUME NEW p \in Nat, NEW n \in Nat, NEW d \in Nat, p <= d - 12, d - 6 <= n,
         p % 3 = 0 => p < d - 12
  PROVE  ((n - 1) \div 3) * 3 + 1 > (p \div 3) * 3 + 6
OBVIOUS

\* So what two renames have passed is not in the list of a crawl any more.
LEMMA PassedIsOld ==
  ASSUME Schedule, TypeOK, Clock, Aged, AgedMore,
         NEW a \in Articles, a \notin excused, mark[a] # Never, renames >= mark[a] + 2
  PROVE  ~Recent(a)
<1>1. post[a] \in Nat /\ post[a] <= due - 12 /\ due \in Nat /\ now \in Nat /\ due - 6 <= now
  BY DEF Aged, TypeOK, Clock
<1>2. post[a] % 3 = 0 => post[a] < due - 12
  BY DEF AgedMore
<1>3. ((now - 1) \div 3) * 3 + 1 > (post[a] \div 3) * 3 + 6
  BY <1>1, <1>2, TooOld
<1> QED
  BY <1>3 DEF Recent, NowDate, PostDay, Schedule

\* A crawl that ends has nothing in its hands, and nobody else has more.
LEMMA DoneHands ==
  ASSUME TypeOK, NEW c \in Crawls, Done(c)
  PROVE  /\ \A a : ~Handed(c, a)'
         /\ \A d \in Crawls \ {c} : pc'[d] = pc[d] /\ diff'[d] = diff[d] /\ Ids(d)' = Ids(d)
         /\ pc'[c] = "idle"
BY DEF Done, Handed, Ids, TypeOK

\* No step of a crawl, of PTT or of the replacer breaks it.
LEMMA OnceKept ==
  ASSUME Schedule, TypeOK, TypeOK', SetsInv, OnceInv, [Next]_vars
  PROVE  OnceInv'
<1>1. ASSUME UNCHANGED timeVars PROVE Clock' /\ \A a \in Articles : Recent(a) => Recent(a)'
  BY <1>1 DEF OnceInv, Clock, timeVars, Recent, NowDate, PostDay
<1>2. ASSUME UNCHANGED <<timeVars, mark, renames>>, excused \subseteq excused'
      PROVE  Aged' /\ AgedMore'
  BY <1>2 DEF OnceInv, Aged, AgedMore, timeVars
<1>3. ASSUME UNCHANGED <<mark, alerts>>, excused \subseteq excused',
             \A c \in Crawls, a \in Articles :
               Handed(c, a)' => Handed(c, a) /\ pc'[c] = pc[c]
      PROVE  Single'
  BY <1>3 DEF OnceInv, Single
<1>4. ASSUME UNCHANGED slotVars, UNCHANGED <<mark, alerts>>, excused \subseteq excused',
             \A a \in Articles : Recent(a) => Recent(a)'
      PROVE  Fresh' /\ Single'
  <2>1. \A c \in Crawls : Ids(c)' = Ids(c) /\ Ids(c) \subseteq Articles
    BY <1>4 DEF Ids, slotVars, TypeOK
  <2>2. \A c \in Crawls, a \in Articles : Handed(c, a)' => Handed(c, a) /\ pc'[c] = pc[c]
    BY <1>4 DEF Handed, slotVars
  <2> QED
    BY <1>3, <1>4, <2>1, <2>2 DEF OnceInv, Fresh, slotVars
<1>5. ASSUME UNCHANGED timeVars, NEW c \in Crawls,
             \A d \in Crawls \ {c} : pc'[d] = pc[d] /\ diff'[d] = diff[d] /\ Ids(d)' = Ids(d),
             pc'[c] # "idle" => \A a \in Ids(c)' : Recent(a),
             pc'[c] \in {"add", "send"} => diff'[c] \subseteq Ids(c)'
      PROVE  Fresh'
  <2>1. \A d \in Crawls : Ids(d)' \subseteq Articles
    BY DEF Ids, TypeOK
  <2> QED
    BY <1>1, <1>5, <2>1 DEF OnceInv, Fresh
<1>6. ASSUME NEW a \in Articles, Post(a) PROVE OnceInv'
  <2>1. post[a] = NoPost /\ post' = [post EXCEPT ![a] = now] /\ UNCHANGED <<now, due>>
        /\ UNCHANGED history /\ UNCHANGED slotVars
    BY <1>6 DEF Post
  <2>2. Clock'
    BY <2>1 DEF OnceInv, Clock, TypeOK
  <2>3. Aged' /\ AgedMore'
    BY <2>1 DEF OnceInv, Aged, AgedMore, history, TypeOK
  <2>4. \A b \in Articles : Recent(b) => Recent(b)'
    BY <2>1 DEF Recent, NowDate, PostDay, TypeOK
  <2> QED
    BY <1>4, <2>1, <2>2, <2>3, <2>4 DEF OnceInv, history
<1>7. ASSUME NEW a \in Articles, NEW s \in Scores, Vote(a, s) PROVE OnceInv'
  <2>1. UNCHANGED <<now, due, post>> /\ UNCHANGED history /\ UNCHANGED slotVars
    BY <1>7 DEF Vote
  <2>2. Clock' /\ Aged' /\ AgedMore' /\ \A b \in Articles : Recent(b) => Recent(b)'
    BY <2>1 DEF OnceInv, Clock, Aged, AgedMore, Recent, NowDate, PostDay, history
  <2> QED
    BY <1>4, <2>1, <2>2 DEF OnceInv, history
<1>8. CASE Tick
  <2>1. /\ now' = now + 1 /\ UNCHANGED <<due, post>> /\ now < due
        /\ UNCHANGED history /\ UNCHANGED slotVars /\ \A c \in Crawls : pc[c] = "idle"
    BY <1>8 DEF Tick
  <2>2. Clock'
    BY <2>1 DEF OnceInv, Clock, TypeOK
  <2>3. Aged' /\ AgedMore'
    BY <2>1 DEF OnceInv, Aged, AgedMore, history
  <2>4. Fresh' /\ \A c \in Crawls : \A a : ~Handed(c, a)'
    BY <2>1 DEF Fresh, Handed, slotVars
  <2> QED
    BY <1>3, <2>1, <2>2, <2>3, <2>4 DEF OnceInv, history
<1>9. ASSUME NEW c \in Crawls, Crawl(c) PROVE OnceInv'
  <2>1. UNCHANGED timeVars /\ UNCHANGED history /\ pc'[c] = "exists" /\ UNCHANGED diff
        /\ \A d \in Crawls \ {c} : pc'[d] = pc[d] /\ Ids(d)' = Ids(d)
    BY <1>9 DEF Crawl, Ids, TypeOK
  <2>2. PICK seen \in SUBSET {b \in Articles : Recent(b) /\ Reaches(score[b])} :
          found'[c] = {<<a, score[a]>> : a \in seen}
    BY <1>9 DEF Crawl, TypeOK
  <2>3. \A a \in Ids(c)' : Recent(a)
    BY <2>2 DEF Ids
  <2>4. Fresh'
    BY <1>5, <2>1, <2>3
  <2>5. \A d \in Crawls, a \in Articles : Handed(d, a)' => Handed(d, a) /\ pc'[d] = pc[d]
    BY <2>1 DEF Handed
  <2> QED
    BY <1>1, <1>2, <1>3, <2>1, <2>4, <2>5 DEF OnceInv, history
<1>10. ASSUME NEW c \in Crawls, Exists(c) PROVE OnceInv'
  <2>1. UNCHANGED timeVars /\ UNCHANGED history /\ UNCHANGED <<found, diff>>
        /\ pc[c] = "exists" /\ pc'[c] = "exec" /\ \A d \in Crawls \ {c} : pc'[d] = pc[d]
    BY <1>10 DEF Exists, TypeOK
  <2>2. \A d \in Crawls : Ids(d)' = Ids(d)
    BY <2>1 DEF Ids
  <2>3. Fresh'
    BY <1>5, <2>1, <2>2 DEF OnceInv, Fresh
  <2>4. \A d \in Crawls, a \in Articles : Handed(d, a)' => Handed(d, a) /\ pc'[d] = pc[d]
    BY <2>1 DEF Handed
  <2> QED
    BY <1>1, <1>2, <1>3, <2>1, <2>3, <2>4 DEF OnceInv, history
<1>11. ASSUME NEW c \in Crawls, Exec(c) PROVE OnceInv'
  <2>1. /\ UNCHANGED timeVars /\ UNCHANGED <<renames, mark, alerts>> /\ pc[c] = "exec"
        /\ excused \subseteq excused'
    BY <1>11 DEF Exec
  <2>2. CASE Done(c)
    <3>1. Fresh'
      BY <1>5, <2>1, <2>2, DoneHands
    <3>2. \A d \in Crawls, a \in Articles : Handed(d, a)' => Handed(d, a) /\ pc'[d] = pc[d]
      BY <2>2, DoneHands DEF Handed
    <3> QED
      BY <1>1, <1>2, <1>3, <2>1, <3>1, <3>2 DEF OnceInv
  <2>3. CASE ~Done(c)
    <3>1. /\ UNCHANGED found /\ pc'[c] = "add" /\ diff'[c] = Ids(c) \ (base \union bench)
          /\ \A d \in Crawls \ {c} : pc'[d] = pc[d] /\ diff'[d] = diff[d]
          /\ excused' = excused \union (diff'[c] \intersect InHands(c))
      BY <1>11, <2>3 DEF Exec, TypeOK
    <3>2. \A d \in Crawls : Ids(d)' = Ids(d)
      BY <3>1 DEF Ids
    <3>3. \A a \in Ids(c) : Recent(a) /\ a \in Articles
      BY <2>1 DEF OnceInv, Fresh, Ids, TypeOK
    <3>4. ASSUME NEW a \in diff'[c], a \notin excused'
          PROVE  a \in Articles /\ mark[a] = Never /\ \A d \in Crawls \ {c} : ~Handed(d, a)'
      <4>1. a \in Articles /\ a \notin excused /\ Recent(a) /\ a \notin base /\ a \notin bench
        BY <2>1, <3>1, <3>3, <3>4
      <4>2. mark[a] # Never => mark[a] \in Nat /\ renames \in Nat /\ renames >= mark[a] + 2
        BY <4>1 DEF SetsInv, MarkBound, Remembered, TypeOK
      <4>3. mark[a] = Never
        BY <4>1, <4>2, PassedIsOld DEF OnceInv
      <4>4. \A d \in Crawls \ {c} : pc[d] = "add" => a \notin diff[d]
        BY <3>1, <3>4 DEF InHands
      <4>5. \A d \in Crawls : pc[d] = "send" => a \notin diff[d]
        BY <4>1, <4>3 DEF OnceInv, Single, Handed
      <4> QED
        BY <3>1, <4>1, <4>3, <4>4, <4>5 DEF Handed
    <3>5. Fresh'
      BY <1>5, <2>1, <3>1, <3>2, <3>3
    <3>6. \A d \in Crawls \ {c}, a \in Articles : Handed(d, a)' <=> Handed(d, a)
      BY <3>1 DEF Handed
    <3>7. Single'
      <4>1. ASSUME NEW a \in Articles, a \notin excused'
            PROVE  /\ \A d, e \in Crawls : Handed(d, a)' /\ Handed(e, a)' => d = e
                   /\ \A d \in Crawls : Handed(d, a)' /\ pc'[d] = "add" => mark'[a] = Never
                   /\ \A d \in Crawls : Handed(d, a)' /\ pc'[d] = "send"
                                          => mark'[a] # Never /\ alerts'[a] = 0
                   /\ alerts'[a] <= 1 /\ (alerts'[a] # 0 => mark'[a] # Never)
        <5>1. a \notin excused
          BY <2>1, <4>1
        <5>2. CASE a \in diff'[c]
          BY <2>1, <3>1, <3>4, <4>1, <5>1, <5>2 DEF OnceInv, Single
        <5>3. CASE a \notin diff'[c]
          <6>1. ~Handed(c, a)'
            BY <5>3 DEF Handed
          <6> QED
            BY <2>1, <3>1, <3>6, <5>1, <6>1 DEF OnceInv, Single
        <5> QED
          BY <5>2, <5>3
      <4> QED
        BY <4>1 DEF Single
    <3> QED
      BY <1>1, <1>2, <2>1, <3>5, <3>7 DEF OnceInv
  <2> QED
    BY <2>2, <2>3
<1>12. ASSUME NEW c \in Crawls, Add(c) PROVE OnceInv'
  <2>1. /\ UNCHANGED timeVars /\ UNCHANGED <<renames, alerts, excused>> /\ pc[c] = "add"
        /\ mark' = [a \in Articles |-> IF a \in diff[c] THEN renames ELSE mark[a]]
    BY <1>12 DEF Add
  <2>2. \A a \in diff[c] : /\ a \in Articles /\ Recent(a) /\ Handed(c, a)
                           /\ mark'[a] = renames /\ renames # Never /\ renames \in Nat
    BY <2>1 DEF OnceInv, Fresh, Handed, TypeOK, Never
  <2>3. Aged' /\ AgedMore'
    <3>1. ASSUME NEW a \in Articles, a \in diff[c]
          PROVE  post[a] # NoPost /\ ~(renames >= mark'[a] + 1) /\ ~(renames >= mark'[a] + 2)
      BY <2>2, <3>1 DEF Recent
    <3>2. ASSUME NEW a \in Articles, a \notin diff[c] PROVE mark'[a] = mark[a]
      BY <2>1, <3>2
    <3> QED
      BY <2>1, <3>1, <3>2 DEF OnceInv, Aged, AgedMore, timeVars
  <2>4. /\ pc'[c] \in {"idle", "send"} /\ (pc'[c] = "send" => UNCHANGED <<found, diff>>)
        /\ \A d \in Crawls \ {c} : pc'[d] = pc[d] /\ diff'[d] = diff[d] /\ Ids(d)' = Ids(d)
    BY <1>12, DoneHands DEF Add, Ids, TypeOK
  <2>5. Fresh'
    <3>1. pc'[c] = "send" => Ids(c)' = Ids(c) /\ diff'[c] = diff[c]
      BY <2>4 DEF Ids
    <3> QED
      BY <1>5, <2>1, <2>4, <3>1 DEF OnceInv, Fresh
  <2>6. \A d \in Crawls, a \in Articles : Handed(d, a)' => Handed(d, a)
    BY <2>1, <2>4 DEF Handed
  <2>7. ASSUME NEW a \in Articles, a \notin excused
        PROVE  /\ \A d, e \in Crawls : Handed(d, a)' /\ Handed(e, a)' => d = e
               /\ \A d \in Crawls : Handed(d, a)' /\ pc'[d] = "add" => mark'[a] = Never
               /\ \A d \in Crawls : Handed(d, a)' /\ pc'[d] = "send"
                                      => mark'[a] # Never /\ alerts'[a] = 0
               /\ alerts'[a] <= 1 /\ (alerts'[a] # 0 => mark'[a] # Never)
    <3>1. CASE a \in diff[c]
      <4>1. mark[a] = Never /\ alerts[a] = 0 /\ \A d \in Crawls \ {c} : ~Handed(d, a)
        BY <2>1, <2>2, <2>7, <3>1 DEF OnceInv, Single
      <4> QED
        BY <2>1, <2>2, <2>4, <2>6, <3>1, <4>1
    <3>2. CASE a \notin diff[c]
      <4>1. mark'[a] = mark[a] /\ ~Handed(c, a) /\ ~Handed(c, a)'
        BY <2>1, <2>6, <3>2 DEF Handed
      <4> QED
        BY <2>1, <2>4, <2>6, <2>7, <4>1 DEF OnceInv, Single
    <3> QED
      BY <3>1, <3>2
  <2>8. Single'
    BY <2>1, <2>7 DEF Single
  <2> QED
    BY <1>1, <2>1, <2>3, <2>5, <2>8 DEF OnceInv
<1>13. ASSUME NEW c \in Crawls, Send(c) PROVE OnceInv'
  <2>1. /\ UNCHANGED timeVars /\ UNCHANGED <<renames, mark, excused>>
        /\ pc[c] = "send" /\ Done(c)
        /\ alerts' = [a \in Articles |->
                        IF a \in diff[c] /\ alerts[a] < 2 THEN alerts[a] + 1 ELSE alerts[a]]
    BY <1>13 DEF Send
  <2>2. Fresh'
    BY <1>5, <2>1, DoneHands
  <2>3. \A d \in Crawls, a \in Articles :
          Handed(d, a)' => d # c /\ Handed(d, a) /\ pc'[d] = pc[d]
    BY <2>1, DoneHands DEF Handed
  <2>4. ASSUME NEW a \in Articles, a \notin excused
        PROVE  /\ alerts'[a] <= 1 /\ (alerts'[a] # 0 => mark[a] # Never)
               /\ alerts'[a] = alerts[a] \/ Handed(c, a)
    <3>1. CASE a \in diff[c]
      <4>1. Handed(c, a)
        BY <2>1, <3>1 DEF Handed
      <4>2. alerts[a] = 0 /\ mark[a] # Never
        BY <2>1, <2>4, <4>1 DEF OnceInv, Single
      <4> QED
        BY <2>1, <3>1, <4>1, <4>2
    <3>2. CASE a \notin diff[c]
      BY <2>1, <2>4, <3>2 DEF OnceInv, Single
    <3> QED
      BY <3>1, <3>2
  <2>5. Single'
    BY <2>1, <2>3, <2>4 DEF OnceInv, Single
  <2> QED
    BY <1>1, <1>2, <2>1, <2>2, <2>5 DEF OnceInv
<1>14. CASE ReplaceBenchKeys
  <2>1. /\ now = due /\ due' = due + 6 /\ UNCHANGED <<now, post, mark, alerts>>
        /\ UNCHANGED slotVars /\ renames' \in {renames, renames + 1}
        /\ excused' = excused \union {a \in Articles : Early(a)}
    BY <1>14 DEF ReplaceBenchKeys, Schedule
  <2>2. Clock'
    BY <2>1 DEF OnceInv, Clock, TypeOK
  <2>3. ASSUME NEW a \in Articles, mark[a] # Never
        PROVE  /\ post[a] # NoPost /\ post[a] \in Nat /\ mark[a] \in Nat
               /\ post[a] <= due' - 6
               /\ renames' >= mark[a] + 2 => post[a] <= due' - 12
    BY <2>1, <2>3 DEF OnceInv, Clock, Aged, TypeOK
  <2>4. Aged'
    BY <2>1, <2>3 DEF Aged
  <2>5. ASSUME NEW a \in Articles, mark[a] # Never, a \notin excused', post[a] % 3 = 0
        PROVE  /\ post[a] < due' - 6
               /\ renames' >= mark[a] + 2 => post[a] < due' - 12
    <3>1. post[a] \in Nat /\ now \in Nat /\ post[a] <= now /\ a \notin excused /\ mark[a] \in Nat
      BY <2>1, <2>3, <2>5 DEF OnceInv, Clock, TypeOK
    <3>2. post[a] # now
      <4>1. ~(post[a] = now /\ now % 3 < 1)
        BY <2>1, <2>5 DEF Early, Schedule
      <4>2. post[a] % 3 < 1
        BY <2>5
      <4> QED
        BY <4>1, <4>2
    <3>3. renames' >= mark[a] + 2 => renames >= mark[a] + 1
      BY <2>1, <3>1 DEF TypeOK
    <3>4. renames >= mark[a] + 1 => post[a] < due - 6
      BY <2>5, <3>1 DEF OnceInv, AgedMore
    <3>5. due \in Nat /\ due' = due + 6 /\ now = due
      BY <2>1 DEF TypeOK
    <3> QED
      BY <3>1, <3>2, <3>3, <3>4, <3>5
  <2>6. AgedMore'
    BY <2>1, <2>5 DEF AgedMore
  <2>7. \A a \in Articles : Recent(a) => Recent(a)'
    BY <2>1 DEF Recent, NowDate, PostDay
  <2> QED
    BY <1>4, <2>1, <2>2, <2>4, <2>6, <2>7 DEF OnceInv
<1>15. CASE Crash
  <2>1. /\ due' = now + 6 /\ UNCHANGED <<now, post, renames, mark, alerts, excused>>
        /\ \A c \in Crawls : pc'[c] = "idle"
    BY <1>15 DEF Crash, Schedule, history
  <2>2. due' >= due /\ due \in Nat /\ due' \in Nat /\ now \in Nat
    BY <2>1 DEF OnceInv, Clock, TypeOK
  <2>3. Clock'
    BY <2>1 DEF OnceInv, Clock, TypeOK
  <2>4. \A a \in Articles : mark[a] # Never => post[a] \in Nat
    BY DEF OnceInv, Aged, TypeOK
  <2>5. Aged' /\ AgedMore'
    BY <2>1, <2>2, <2>4 DEF OnceInv, Aged, AgedMore
  <2>6. Fresh' /\ \A c \in Crawls : \A a : ~Handed(c, a)'
    BY <2>1 DEF Fresh, Handed
  <2> QED
    BY <1>3, <2>1, <2>3, <2>5, <2>6 DEF OnceInv
<1>16. CASE End \/ UNCHANGED vars
  <2>1. UNCHANGED vars
    BY <1>16 DEF End
  <2> QED
    BY <1>1, <1>2, <1>4, <2>1 DEF vars, history, OnceInv
<1> QED
  BY <1>6, <1>7, <1>8, <1>9, <1>10, <1>11, <1>12, <1>13, <1>14, <1>15, <1>16 DEF Next, Step

\* With the times of the code (main.go:172, jobs/pushsumchecker.go:23, 109-156) an article
\* is alerted twice only if two DiffLists had it in their hands at once (models/pushsum/
\* pushsum.go:149-187), or the replacer ran in the hours in which it was posted, before
\* eight in the morning: for any number of crawls, of articles, of restarts and of days.
THEOREM OneAlert == Schedule => (Spec => []RepeatExplained)
<1> SUFFICES ASSUME Schedule PROVE Spec => []RepeatExplained
  OBVIOUS
<1>1. Init => OnceInv
  <2> SUFFICES ASSUME Init PROVE OnceInv
    OBVIOUS
  <2>1. Start \in Nat /\ due = Start + 6 /\ now = Start
    BY PushSumAssumption DEF Init, Schedule
  <2>2. \A c \in Crawls : \A a : ~Handed(c, a)
    BY DEF Init, Handed
  <2> QED
    BY <2>1, <2>2 DEF Init, OnceInv, Clock, Aged, AgedMore, Fresh, Single
<1>2. TypeOK /\ TypeOK' /\ SetsInv /\ OnceInv /\ [Next]_vars => OnceInv'
  BY OnceKept
<1>3. TypeOK /\ OnceInv => RepeatExplained
  BY DEF OnceInv, Single, RepeatExplained, TypeOK
<1> QED
  BY <1>1, <1>2, <1>3, TypeCorrect, SetsHold, PTL DEF Spec
=============================================================================
