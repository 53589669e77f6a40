------------------------- MODULE ArticleAlertsProofs -------------------------
(***************************************************************************)
(* Proofs about ArticleAlerts, for any number of articles, subscriptions,  *)
(* checks, structs and loops: types; and, for boards that are not in       *)
(* BOARD_HIGH, what becomes of the articles a check has found, why an      *)
(* article is passed over or found again, and that the checks implement    *)
(* AlertOnce.                                                              *)
(***************************************************************************)
EXTENDS ArticleAlerts, FiniteSetTheorems, TLAPS

\* What a fetch leaves behind has its type.
LEMMA FetchedType ==
  ASSUME NEW ids, NEW articles \in SUBSET Articles, NEW coded \in BOOLEAN
  PROVE  <<New(ids, articles), [articles |-> articles, coded |-> coded]>> \in Lists \X Pages
BY DEF New, Lists, Pages

\* What a check that ends leaves behind has its type.
LEMMA EndedType == <<Nil, NoPage>> \in Lists \X Pages /\ NoPage \in Pages
BY DEF Lists, Pages, NoPage

\* What a save writes has its type.
LEMMA StoredType ==
  ASSUME TypeOK, NEW page \in Pages, NEW gone \in SUBSET Articles, Store(page, gone)
  PROVE  /\ db' \subseteq Articles /\ owner' \in {"unknown", "this", "other"}
         /\ blank' \subseteq IDs /\ excused' \subseteq Articles
<1>1. page.articles \subseteq Articles /\ OffPage(page) \subseteq Articles
  BY DEF Pages, OffPage, TypeOK
<1>2. \A a \in Newest(page.articles) : {Id[a]} \subseteq IDs
  BY <1>1 DEF Newest, IDs
<1> QED
  BY <1>1, <1>2 DEF Store, Hide, IDs, TypeOK

\* What a save finds has its type, and the next number is one.
LEMMA FindsType ==
  ASSUME TypeOK, NEW c \in Checks, Number(c)
  PROVE  /\ saves + 1 \in Numbers /\ saves' = saves + 1 /\ saves' \in 0..MaxSaves
         /\ tag' \in [Structs -> 0..MaxSaves]
         /\ list[c][1] \ Nil \subseteq Articles /\ Finds(c) \subseteq Items
<1>1. saves \in 0..MaxSaves /\ MaxSaves \in Nat
  BY ArticleAlertsAssumption DEF TypeOK
<1>2. saves + 1 \in 1..MaxSaves /\ saves + 1 \in 0..MaxSaves
  BY <1>1 DEF Number
<1>3. list[c][1] \ Nil \subseteq Articles
  BY DEF TypeOK, Lists
<1> QED
  BY <1>2, <1>3 DEF Number, Numbers, Finds, Items, TypeOK

\* The variables of checks have their types.
CheckTypes ==
  /\ pc \in [Checks -> {"idle", "fetch", "assign", "test", "create", "retest",
                        "save", "enqueue"}]
  /\ ref \in [Checks -> SUBSET Structs]
  /\ read \in [Checks -> SUBSET IDs]
  /\ list \in [Checks -> Lists \X Pages]
  /\ since \in [Checks -> 0..MaxSaves]

\* They still do when a check ends.
LEMMA EndType ==
  ASSUME TypeOK, NEW c \in Checks, End(c)
  PROVE  CheckTypes'
<1>1. pc' \in [Checks -> {"idle", "fetch", "assign", "test", "create", "retest",
                          "save", "enqueue"}]
  BY DEF End, TypeOK
<1>2. ref' \in [Checks -> SUBSET Structs]
  BY DEF End, TypeOK
<1>3. read' \in [Checks -> SUBSET IDs]
  BY DEF End, TypeOK
<1>4. list' \in [Checks -> Lists \X Pages]
  BY EndedType DEF End, TypeOK
<1>5. since' \in [Checks -> 0..MaxSaves]
  BY ArticleAlertsAssumption DEF End, TypeOK
<1> QED
  BY <1>1, <1>2, <1>3, <1>4, <1>5 DEF CheckTypes

\* They do when a check is about to save.
LEMMA ToSaveType ==
  ASSUME TypeOK, NEW c \in Checks, NEW s \in Structs, NEW label \in {"create", "save"},
         ToSave(c, s, label)
  PROVE  CheckTypes'
<1>1. <<list[c][1], online[s]>> \in Lists \X Pages
  BY DEF TypeOK
<1>2. list' \in [Checks -> Lists \X Pages]
  BY <1>1 DEF ToSave, TypeOK
<1>3. pc' \in [Checks -> {"idle", "fetch", "assign", "test", "create", "retest",
                          "save", "enqueue"}]
  BY DEF ToSave, TypeOK
<1> QED
  BY <1>2, <1>3 DEF ToSave, CheckTypes, TypeOK

\* What every step assigns has its type.
THEOREM TypeCorrect == Spec => []TypeOK
<1> USE ArticleAlertsAssumption
<1>1. Init => TypeOK
  <2> SUFFICES ASSUME Init PROVE TypeOK
    OBVIOUS
  <2>1. loop \in [Loops -> BOOLEAN]
    BY DEF Init
  <2>2. queue \in Seq(Structs)
    BY DEF Init
  <2>3. list \in [Checks -> Lists \X Pages] /\ online \in [Structs -> Pages]
    BY EndedType DEF Init
  <2> QED
    BY <2>1, <2>2, <2>3 DEF Init, TypeOK, Lists
<1>2. TypeOK /\ [Next]_vars => TypeOK'
  <2> SUFFICES ASSUME TypeOK, [Next]_vars PROVE TypeOK'
    OBVIOUS
  <2> USE DEF TypeOK, rowVars, structVars, checkVars, loopVars, items, hiding
  <2>1. ASSUME NEW a \in Articles, Post(a) PROVE TypeOK'
    BY <2>1 DEF Post
  <2>2. ASSUME NEW a \in Articles, SaveElsewhere(a) \/ Destroy(a) PROVE TypeOK'
    <3>1. faults' \in Nat
      BY <2>2 DEF SaveElsewhere, Destroy, Fails
    <3>2. /\ db' \subseteq Articles /\ excused' \subseteq Articles /\ loose' \subseteq Articles
          /\ UNCHANGED <<posted, owner, blank, others>>
      BY <2>2 DEF SaveElsewhere, Destroy, OnlyRows
    <3>3. UNCHANGED <<structVars, checkVars, loopVars, alerts, items, since>>
      BY <2>2 DEF SaveElsewhere, Destroy, OnlyRows
    <3> QED
      BY <3>1, <3>2, <3>3
  <2>3. ASSUME NEW i \in IDs, OtherBoard(i) PROVE TypeOK'
    <3>1. blank' \subseteq IDs /\ excused' \subseteq Articles /\ others' \in Nat
      BY <2>3 DEF OtherBoard
    <3>2. UNCHANGED <<posted, db, owner, faults, loose>>
      BY <2>3 DEF OtherBoard, OnlyRows
    <3>3. UNCHANGED <<structVars, checkVars, loopVars, alerts, items, since>>
      BY <2>3 DEF OtherBoard, OnlyRows
    <3> QED
      BY <3>1, <3>2, <3>3
  <2>4. ASSUME NEW c \in Checks, NEW s \in Structs, ReadSaved(c, s) PROVE TypeOK'
    <3>1. Saved \subseteq IDs
      BY DEF Saved, IDs
    <3>2. Nil \in Lists /\ NoPage \in Pages /\ 0 \in 0..MaxSaves
      BY EndedType DEF Lists
    <3>3. /\ fresh' \in [Structs -> Lists] /\ online' \in [Structs -> Pages]
          /\ tag' \in [Structs -> 0..MaxSaves]
      <4>1. \/ UNCHANGED <<fresh, online, tag>>
            \/ /\ fresh' = [fresh EXCEPT ![s] = Nil] /\ online' = [online EXCEPT ![s] = NoPage]
               /\ tag' = [tag EXCEPT ![s] = 0]
        BY <2>4 DEF ReadSaved
      <4>2. CASE UNCHANGED <<fresh, online, tag>>
        BY <4>2
      <4>3. CASE /\ fresh' = [fresh EXCEPT ![s] = Nil]
                 /\ online' = [online EXCEPT ![s] = NoPage]
                 /\ tag' = [tag EXCEPT ![s] = 0]
        BY <4>3, <3>2
      <4> QED
        BY <4>1, <4>2, <4>3
    <3>4. /\ read' = [read EXCEPT ![c] = Saved] \/ read' = read
          /\ faults' = faults \/ faults' = faults + 1
          /\ pc' = [pc EXCEPT ![c] = "fetch"] /\ ref' = [ref EXCEPT ![c] = {s}]
          /\ since' = [since EXCEPT ![c] = saves]
          /\ UNCHANGED <<posted, rowVars, list, loopVars, alerts, saves, found, dropped, others, hiding>>
      BY <2>4 DEF ReadSaved, Fails
    <3>5. read' \in [Checks -> SUBSET IDs]
      BY <3>1, <3>4
    <3>6. pc' \in [Checks -> {"idle", "fetch", "assign", "test", "create", "retest",
                              "save", "enqueue"}]
      BY <3>4
    <3>7. ref' \in [Checks -> SUBSET Structs] /\ since' \in [Checks -> 0..MaxSaves]
      BY <3>4
    <3> QED
      BY <3>3, <3>4, <3>5, <3>6, <3>7
  <2>5. ASSUME NEW c \in Checks, Fetch(c) PROVE TypeOK'
    <3>1. PICK articles \in SUBSET posted, coded \in BOOLEAN :
            list' = [list EXCEPT ![c] = <<New(read[c], articles),
                                          [articles |-> articles, coded |-> coded]>>]
      BY <2>5 DEF Fetch
    <3>2. list' \in [Checks -> Lists \X Pages]
      BY <3>1, FetchedType
    <3>3. faults' \in Nat
      BY <2>5 DEF Fetch, Fails
    <3> QED
      BY <2>5, <3>2, <3>3 DEF Fetch
  <2>6. ASSUME NEW c \in Checks, Assign(c) PROVE TypeOK'
    BY <2>6 DEF Assign
  <2>7. ASSUME NEW c \in Checks, Test(c) \/ Retest(c) PROVE TypeOK'
    <3>1. PICK s \in ref[c], label \in {"create", "save"} : ToSave(c, s, label) \/ End(c)
      BY <2>7 DEF Test, Retest
    <3>2. CheckTypes'
      BY <3>1, EndType, ToSaveType
    <3>3. UNCHANGED <<posted, rowVars, structVars, loopVars, alerts, faults, items, others, hiding>>
      BY <2>7 DEF Test, Retest
    <3> QED
      BY <3>2, <3>3 DEF CheckTypes
  <2>8. ASSUME NEW c \in Checks, Create(c) PROVE TypeOK'
    <3>1. list[c][2] \in Pages /\ list[c][2].articles \subseteq Articles
      BY DEF Pages
    <3>2. /\ db' \subseteq Articles /\ owner' \in {"unknown", "this", "other"}
          /\ blank' \subseteq IDs /\ excused' \subseteq Articles /\ faults' \in Nat
      BY <2>8, <3>1, StoredType DEF Create, Fails
    <3> QED
      BY <2>8, <3>2 DEF Create
  <2>9. ASSUME NEW c \in Checks, Save(c) PROVE TypeOK'
    <3>1. list[c][2] \in Pages /\ list[c][1] \ Nil \subseteq Articles
      BY DEF Lists
    <3>2. /\ db' \subseteq Articles /\ owner' \in {"unknown", "this", "other"}
          /\ blank' \subseteq IDs /\ excused' \subseteq Articles
      BY <2>9, <3>1, StoredType DEF Save
    <3>3. /\ saves' \in 0..MaxSaves /\ tag' \in [Structs -> 0..MaxSaves]
          /\ found' \subseteq Items /\ loose' \subseteq Articles /\ faults' \in Nat
      BY <2>9, <3>1, FindsType DEF Save, Fails
    <3>4. CheckTypes'
      BY <2>9, EndType DEF Save, CheckTypes
    <3> QED
      BY <2>9, <3>2, <3>3, <3>4 DEF Save, CheckTypes
  <2>10. ASSUME NEW c \in Checks, Enqueue(c) PROVE TypeOK'
    <3>1. CheckTypes'
      BY <2>10, EndType DEF Enqueue
    <3>2. queue' \in Seq(Structs)
      BY <2>10 DEF Enqueue
    <3> QED
      BY <2>10, <3>1, <3>2 DEF Enqueue, CheckTypes
  <2>11. ASSUME NEW l \in Loops, Dispatch(l) PROVE TypeOK'
    <3>1. queue' \in Seq(Structs)
      BY <2>11 DEF Dispatch
    <3>2. match' \in [Structs \X Watches -> Nat]
      BY <2>11 DEF Dispatch
    <3> QED
      BY <2>11, <3>1, <3>2 DEF Dispatch
  <2>12. ASSUME NEW s \in Structs, NEW w \in Watches, Match(s, w) PROVE TypeOK'
    <3>1. match' \in [Structs \X Watches -> Nat]
      BY <2>12 DEF Match
    <3>2. sending' \in [Alert -> Nat]
      <4>1. <<w, fresh[s] \intersect Matches[w], tag[s]>> \in Alert
        BY DEF Alert
      <4> QED
        BY <2>12, <4>1 DEF Match
    <3> QED
      BY <2>12, <3>1, <3>2 DEF Match
  <2>13. ASSUME NEW l \in Loops, NEW x \in Alert, Receive(l, x) PROVE TypeOK'
    <3>1. sending' \in [Alert -> Nat]
      BY <2>13 DEF Receive
    <3> QED
      BY <2>13, <3>1 DEF Receive
  <2>14. ASSUME NEW l \in Loops, Deliver(l) PROVE TypeOK'
    <3>1. alerts' \in [Watches \X Items -> 0..2]
      BY <2>14 DEF Deliver
    <3> QED
      BY <2>14, <3>1 DEF Deliver
  <2>15. ASSUME NEW l \in Loops, Stop(l) \/ Run(l) PROVE TypeOK'
    <3>1. CASE Stop(l)
      <4>1. queue' \in Seq(Structs) /\ dropped' \subseteq Items /\ faults' \in Nat
        BY <3>1 DEF Stop, Fails
      <4> QED
        BY <3>1, <4>1 DEF Stop
    <3>2. CASE Run(l)
      BY <3>2 DEF Run
    <3> QED
      BY <2>15, <3>1, <3>2
  <2>16. CASE Restart
    <3>1. loop' \in [Loops -> BOOLEAN]
      BY <2>16 DEF Restart
    <3>2. /\ list' \in [Checks -> Lists \X Pages] /\ online' \in [Structs -> Pages]
          /\ fresh' \in [Structs -> Lists]
      BY <2>16, EndedType DEF Restart, Lists
    <3>3. dropped' \subseteq Items /\ faults' \in Nat
      BY <2>16 DEF Restart, Fails
    <3>4. tag' \in [Structs -> 0..MaxSaves] /\ since' \in [Checks -> 0..MaxSaves]
      BY <2>16 DEF Restart
    <3> QED
      BY <2>16, <3>1, <3>2, <3>3, <3>4 DEF Restart
  <2>17. CASE UNCHANGED vars
    BY <2>17 DEF vars
  <2> QED
    BY <2>1, <2>2, <2>3, <2>4, <2>5, <2>6, <2>7, <2>8, <2>9, <2>10, <2>11, <2>12,
       <2>13, <2>14, <2>15, <2>16, <2>17
    DEF Next, Check, Work
<1> QED
  BY <1>1, <1>2, PTL DEF Spec
-----------------------------------------------------------------------------
(***************************************************************************)
(* What has been found, of boards with a struct for every check.  Neither  *)
(* OnlyFound nor NotLost is inductive: that nobody overwrites a struct     *)
(* later stages are going to read must be known, and that what is saved as *)
(* found is what the struct holds.                                         *)
(***************************************************************************)
\* A check works on one struct, a loop hands over one alert.
OneEach ==
  /\ \A c \in Checks : /\ pc[c] # "idle" => ref[c] # {}
                       /\ \A s, t \in ref[c] : s = t
  /\ \A l \in Loops : \A x, y \in held[l] : x = y

\* The struct has left its check.
Passed(s) == InQueue(s) \/ \E w \in Watches : match[<<s, w>>] > 0

\* The struct of a check is its own.
Owned ==
  \A c \in Checks : \A s \in ref[c] :
    /\ ~Passed(s)
    /\ \A d \in Checks : s \in ref[d] => d = c

\* What a check will save and declare found is what its struct holds.
Assigned ==
  \A c \in Checks :
    pc[c] \in {"test", "create", "retest", "save"} =>
      \A s \in ref[c] : fresh[s] = list[c][1] /\ online[s] = list[c][2]

StructInv == OneEach /\ Owned /\ Assigned

\* All that is on its way to a subscription was found, and matches.
Known ==
  /\ \A c \in Checks : pc[c] = "enqueue" => \A s \in ref[c] : FreshOf(s) \subseteq found
  /\ \A s \in Structs : Passed(s) => FreshOf(s) \subseteq found
  /\ \A x \in Alert : (sending[x] > 0 \/ \E l \in Loops : x \in held[l])
                        => Carried(x) \subseteq found /\ x[2] \subseteq Matches[x[1]]
  /\ OnlyFound

\* A struct is in boardCh after a send when it was before or is the one sent.
LEMMA SentToQueue ==
  ASSUME NEW q \in Seq(Structs), NEW s \in Structs, NEW t \in Structs
  PROVE  (\E i \in 1..Len(Append(q, s)) : Append(q, s)[i] = t)
           <=> (t = s \/ \E i \in 1..Len(q) : q[i] = t)
<1>1. Len(Append(q, s)) = Len(q) + 1
  OBVIOUS
<1>2. \A i \in 1..Len(q) : Append(q, s)[i] = q[i]
  OBVIOUS
<1>3. Append(q, s)[Len(q) + 1] = s
  OBVIOUS
<1> QED
  BY <1>1, <1>2, <1>3

\* It is there after a receive when it was before, its head perhaps excepted.
LEMMA TakenFromQueue ==
  ASSUME NEW q \in Seq(Structs), q # <<>>, NEW t \in Structs
  PROVE  /\ (\E i \in 1..Len(Tail(q)) : Tail(q)[i] = t) => \E i \in 1..Len(q) : q[i] = t
         /\ (\E i \in 1..Len(q) : q[i] = t)
              => t = Head(q) \/ \E i \in 1..Len(Tail(q)) : Tail(q)[i] = t
         /\ Head(q) \in Structs
         /\ \E i \in 1..Len(q) : q[i] = Head(q)
<1>1. Len(Tail(q)) = Len(q) - 1 /\ Len(q) >= 1
  OBVIOUS
<1>2. \A i \in 1..Len(Tail(q)) : Tail(q)[i] = q[i + 1]
  OBVIOUS
<1>3. Head(q) = q[1]
  OBVIOUS
<1>4. ASSUME NEW i \in 1..Len(q), q[i] = t, i # 1
      PROVE  \E j \in 1..Len(Tail(q)) : Tail(q)[j] = t
  <2>1. i - 1 \in 1..Len(Tail(q)) /\ Tail(q)[i - 1] = q[i]
    BY <1>1, <1>2, <1>4
  <2> QED
    BY <1>4, <2>1
<1>5. ASSUME NEW j \in 1..Len(Tail(q)), Tail(q)[j] = t
      PROVE  \E i \in 1..Len(q) : q[i] = t
  <2>1. j + 1 \in 1..Len(q) /\ q[j + 1] = t
    BY <1>1, <1>2, <1>5
  <2> QED
    BY <2>1
<1>6. 1 \in 1..Len(q)
  BY <1>1
<1> QED
  BY <1>3, <1>4, <1>5, <1>6

\* No step gives a struct to two goroutines of which one writes it.
LEMMA StructsKept ==
  ASSUME High = {}, TypeOK, StructInv, [Next]_vars
  PROVE  StructInv'
<1> USE DEF StructInv
<1>1. ASSUME UNCHANGED <<structVars, checkVars, queue, match, held>> PROVE StructInv'
  BY <1>1 DEF OneEach, Owned, Assigned, Passed, InQueue, structVars, checkVars
<1>2. ASSUME NEW a \in Articles, Post(a) \/ SaveElsewhere(a) \/ Destroy(a) PROVE StructInv'
  BY <1>1, <1>2 DEF Post, SaveElsewhere, Destroy, OnlyRows, loopVars
<1>17. ASSUME NEW i \in IDs, OtherBoard(i) PROVE StructInv'
  BY <1>1, <1>17 DEF OtherBoard, OnlyRows, loopVars
<1>3. ASSUME NEW c \in Checks, NEW s \in Structs, ReadSaved(c, s) PROVE StructInv'
  <2>1. /\ ~Passed(s) /\ \A d \in Checks : s \notin ref[d]
        /\ pc[c] = "idle"
        /\ pc' = [pc EXCEPT ![c] = "fetch"] /\ ref' = [ref EXCEPT ![c] = {s}]
        /\ fresh' = [fresh EXCEPT ![s] = Nil] /\ online' = [online EXCEPT ![s] = NoPage]
        /\ UNCHANGED <<list, queue, match, held>>
    BY <1>3 DEF ReadSaved, Used, Passed, structVars, loopVars
  <2>2. OneEach'
    BY <2>1 DEF OneEach, TypeOK
  <2>3. Owned'
    <3>1. \A t \in Structs : Passed(t)' <=> Passed(t)
      BY <2>1 DEF Passed, InQueue
    <3>2. \A d \in Checks : ref'[d] = IF d = c THEN {s} ELSE ref[d]
      BY <2>1 DEF TypeOK
    <3>3. \A d \in Checks : ref[d] \subseteq Structs
      BY DEF TypeOK
    <3> QED
      BY <2>1, <3>1, <3>2, <3>3 DEF Owned
  <2>4. Assigned'
    <3>1. \A d \in Checks : d # c => pc'[d] = pc[d] /\ ref'[d] = ref[d] /\ s \notin ref[d]
      BY <2>1 DEF TypeOK
    <3>2. pc'[c] = "fetch"
      BY <2>1 DEF TypeOK
    <3>3. \A t \in Structs : t # s => fresh'[t] = fresh[t] /\ online'[t] = online[t]
      BY <2>1 DEF TypeOK
    <3>4. \A d \in Checks : ref[d] \subseteq Structs
      BY DEF TypeOK
    <3> QED
      BY <2>1, <3>1, <3>2, <3>3, <3>4 DEF Assigned
  <2> QED
    BY <2>2, <2>3, <2>4
<1>18. ASSUME NEW c \in Checks, UNCHANGED <<queue, match, held>>,
              \A d \in Checks \ {c} : /\ pc'[d] = pc[d] /\ ref'[d] = ref[d]
                                      /\ list'[d] = list[d]
                                      /\ \A s \in ref[d] : fresh'[s] = fresh[s] /\ online'[s] = online[s],
              ref'[c] \in {{}, ref[c]},
              pc'[c] # "idle" => pc[c] # "idle" /\ ref'[c] = ref[c],
              pc'[c] \in {"test", "create", "retest", "save"} =>
                \A s \in ref[c] : fresh'[s] = list'[c][1] /\ online'[s] = list'[c][2]
       PROVE  StructInv'
  <2>1. OneEach'
    BY <1>18 DEF OneEach
  <2>2. Owned'
    <3>1. \A t : Passed(t)' <=> Passed(t)
      BY <1>18 DEF Passed, InQueue
    <3>2. \A d \in Checks : ref'[d] \subseteq ref[d]
      BY <1>18
    <3> QED
      BY <3>1, <3>2 DEF Owned
  <2>3. Assigned'
    <3> SUFFICES ASSUME NEW d \in Checks, pc'[d] \in {"test", "create", "retest", "save"},
                        NEW s \in ref'[d]
                 PROVE  fresh'[s] = list'[d][1] /\ online'[s] = list'[d][2]
      BY DEF Assigned
    <3>1. CASE d = c
      BY <1>18, <3>1
    <3>2. CASE d # c
      BY <1>18, <3>2 DEF Assigned
    <3> QED
      BY <3>1, <3>2
  <2> QED
    BY <2>1, <2>2, <2>3
<1>4. ASSUME NEW c \in Checks, Fetch(c) PROVE StructInv'
  <2>1. /\ pc[c] = "fetch" /\ pc' = [pc EXCEPT ![c] = "assign"]
        /\ \E x : list' = [list EXCEPT ![c] = x]
        /\ UNCHANGED <<fresh, online, ref, queue, match, held>>
    BY <1>4 DEF Fetch, structVars, loopVars
  <2>2. \A d \in Checks \ {c} : pc'[d] = pc[d] /\ list'[d] = list[d]
    BY <2>1 DEF TypeOK
  <2>3. pc'[c] = "assign"
    BY <2>1 DEF TypeOK
  <2> QED
    BY <1>18, <2>1, <2>2, <2>3
<1>5. ASSUME NEW c \in Checks, Assign(c) PROVE StructInv'
  <2>1. PICK s \in ref[c] : /\ fresh' = [fresh EXCEPT ![s] = list[c][1]]
                            /\ online' = [online EXCEPT ![s] = list[c][2]]
    BY <1>5 DEF Assign
  <2>2. /\ pc[c] = "assign" /\ pc' = [pc EXCEPT ![c] = "test"]
        /\ UNCHANGED <<ref, list, queue, match, held>>
    BY <1>5 DEF Assign, loopVars
  <2>3. s \in Structs /\ \A t \in ref[c] : t = s
    BY <2>1 DEF OneEach, TypeOK
  <2>4. \A d \in Checks \ {c} : pc'[d] = pc[d] /\ s \notin ref[d] /\ ref[d] \subseteq Structs
    BY <2>1, <2>2 DEF Owned, TypeOK
  <2>5. /\ pc'[c] = "test" /\ fresh'[s] = list[c][1] /\ online'[s] = list[c][2]
        /\ \A t \in Structs \ {s} : fresh'[t] = fresh[t] /\ online'[t] = online[t]
    BY <2>1, <2>2, <2>3 DEF TypeOK
  <2>6. \A d \in Checks \ {c} : \A t \in ref[d] : fresh'[t] = fresh[t] /\ online'[t] = online[t]
    BY <2>4, <2>5
  <2> QED
    BY <1>18, <2>2, <2>3, <2>4, <2>5, <2>6
<1>6. ASSUME NEW c \in Checks, Test(c) \/ Retest(c) PROVE StructInv'
  <2>1. PICK s \in ref[c], label \in {"create", "save"} : ToSave(c, s, label) \/ End(c)
    BY <1>6 DEF Test, Retest
  <2>2. pc[c] \in {"test", "retest"} /\ UNCHANGED <<fresh, online, queue, match, held>>
    BY <1>6 DEF Test, Retest, structVars, loopVars
  <2>3. \A t \in ref[c] : fresh[t] = list[c][1] /\ online[t] = list[c][2]
    BY <2>2 DEF Assigned
  <2>4. CASE ToSave(c, s, label)
    <3>1. /\ pc' = [pc EXCEPT ![c] = label] /\ UNCHANGED ref
          /\ list' = [list EXCEPT ![c] = <<list[c][1], online[s]>>]
      BY <2>4 DEF ToSave
    <3>2. \A d \in Checks \ {c} : pc'[d] = pc[d] /\ list'[d] = list[d]
      BY <3>1 DEF TypeOK
    <3>3. list'[c][1] = list[c][1] /\ list'[c][2] = online[s]
      BY <3>1 DEF TypeOK
    <3>4. \A t \in ref[c] : t = s
      BY DEF OneEach
    <3> QED
      BY <1>18, <2>2, <2>3, <3>1, <3>2, <3>3, <3>4
  <2>5. CASE End(c)
    <3>1. /\ pc'[c] = "idle" /\ ref'[c] = {}
          /\ \A d \in Checks \ {c} : pc'[d] = pc[d] /\ ref'[d] = ref[d] /\ list'[d] = list[d]
      BY <2>5 DEF End, TypeOK
    <3> QED
      BY <1>18, <2>2, <3>1
  <2> QED
    BY <2>1, <2>4, <2>5
<1>7. ASSUME NEW c \in Checks, Create(c) PROVE StructInv'
  <2>1. /\ pc[c] = "create" /\ pc' = [pc EXCEPT ![c] = "retest"]
        /\ UNCHANGED <<fresh, online, ref, list, queue, match, held>>
    BY <1>7 DEF Create, structVars, loopVars
  <2>2. \A d \in Checks \ {c} : pc'[d] = pc[d]
    BY <2>1 DEF TypeOK
  <2>3. \A t \in ref[c] : fresh[t] = list[c][1] /\ online[t] = list[c][2]
    BY <2>1 DEF Assigned
  <2> QED
    BY <1>18, <2>1, <2>2, <2>3
<1>8. ASSUME NEW c \in Checks, Save(c) PROVE StructInv'
  <2>1. pc[c] = "save" /\ UNCHANGED <<fresh, online, queue, match, held>>
    BY <1>8 DEF Save, structVars, loopVars
  <2>2. \/ pc' = [pc EXCEPT ![c] = "enqueue"] /\ UNCHANGED <<ref, list>>
        \/ End(c)
    BY <1>8 DEF Save
  <2>3. CASE pc' = [pc EXCEPT ![c] = "enqueue"] /\ UNCHANGED <<ref, list>>
    <3>1. pc'[c] = "enqueue" /\ \A d \in Checks \ {c} : pc'[d] = pc[d]
      BY <2>3 DEF TypeOK
    <3> QED
      BY <1>18, <2>1, <2>3, <3>1
  <2>4. CASE End(c)
    <3>1. /\ pc'[c] = "idle" /\ ref'[c] = {}
          /\ \A d \in Checks \ {c} : pc'[d] = pc[d] /\ ref'[d] = ref[d] /\ list'[d] = list[d]
      BY <2>4 DEF End, TypeOK
    <3> QED
      BY <1>18, <2>1, <3>1
  <2> QED
    BY <2>2, <2>3, <2>4
<1>9. ASSUME NEW c \in Checks, Enqueue(c) PROVE StructInv'
  <2>1. PICK s \in ref[c] : queue' = Append(queue, s)
    BY <1>9 DEF Enqueue
  <2>2. End(c) /\ UNCHANGED <<fresh, online, match, held>>
    BY <1>9 DEF Enqueue, structVars
  <2>3. \A t \in Structs : Passed(t)' <=> (t = s \/ Passed(t))
    <3>1. s \in Structs /\ queue \in Seq(Structs)
      BY <2>1 DEF TypeOK
    <3>2. ASSUME NEW t \in Structs PROVE InQueue(t)' <=> (t = s \/ InQueue(t))
      BY <2>1, <3>1, SentToQueue DEF InQueue
    <3> QED
      BY <2>2, <3>2 DEF Passed
  <2>4. Owned'
    BY <2>1, <2>2, <2>3 DEF Owned, End, TypeOK
  <2> QED
    BY <2>2, <2>4 DEF End, OneEach, Assigned, TypeOK
<1>10. ASSUME NEW l \in Loops, Dispatch(l) PROVE StructInv'
  <2>1. \A t \in Structs : Passed(t)' => Passed(t)
    <3>1. queue # <<>> /\ queue' = Tail(queue)
          /\ \A t \in Structs, w \in Watches :
               match'[<<t, w>>] = IF t = Head(queue) THEN match[<<t, w>>] + 1
                                                     ELSE match[<<t, w>>]
      BY <1>10 DEF Dispatch
    <3>2. \A t \in Structs : InQueue(t)' => InQueue(t)
      BY <3>1, TakenFromQueue DEF InQueue, TypeOK
    <3>3. InQueue(Head(queue))
      BY <3>1, TakenFromQueue DEF InQueue, TypeOK
    <3> QED
      BY <3>1, <3>2, <3>3 DEF Passed
  <2>2. UNCHANGED <<fresh, online, pc, ref, list, held>>
    BY <1>10 DEF Dispatch, structVars, checkVars
  <2> QED
    BY <2>1, <2>2 DEF OneEach, Owned, Assigned, TypeOK
<1>11. ASSUME NEW s \in Structs, NEW w \in Watches, Match(s, w) PROVE StructInv'
  <2>1. \A t \in Structs, v \in Watches : match'[<<t, v>>] > 0 => match[<<t, v>>] > 0
    BY <1>11 DEF Match, TypeOK
  <2>2. UNCHANGED <<fresh, online, pc, ref, list, queue, held>>
    BY <1>11 DEF Match, structVars, checkVars
  <2> QED
    BY <2>1, <2>2 DEF OneEach, Owned, Assigned, Passed, InQueue, TypeOK
<1>12. ASSUME NEW l \in Loops, (\E x \in Alert : Receive(l, x)) \/ Deliver(l)
       PROVE  StructInv'
  <2>1. UNCHANGED <<fresh, online, pc, ref, list, queue, match>>
    BY <1>12 DEF Receive, Deliver, structVars, checkVars
  <2>2. \E h : held' = [held EXCEPT ![l] = h] /\ \A x, y \in h : x = y
    BY <1>12 DEF Receive, Deliver
  <2>3. OneEach'
    BY <2>1, <2>2 DEF OneEach, TypeOK
  <2> QED
    BY <2>1, <2>3 DEF Owned, Assigned, Passed, InQueue
<1>13. ASSUME NEW l \in Loops, Stop(l) \/ Run(l) PROVE StructInv'
  <2>1. UNCHANGED <<fresh, online, pc, ref, list, match, held>> /\ (queue' = <<>> \/ queue' = queue)
    BY <1>13 DEF Stop, Run, structVars, checkVars
  <2> QED
    BY <2>1 DEF OneEach, Owned, Assigned, Passed, InQueue
<1>14. CASE Restart
  BY <1>14 DEF Restart, OneEach, Owned, Assigned
<1>15. CASE UNCHANGED vars
  BY <1>1, <1>15 DEF vars, structVars, loopVars
<1> QED
  BY <1>2, <1>3, <1>4, <1>5, <1>6, <1>7, <1>8, <1>9, <1>10, <1>11, <1>12, <1>13,
     <1>14, <1>15, <1>17
  DEF Next, Check, Work

\* Nothing gets on its way that was not found.
LEMMA KnownKept ==
  ASSUME TypeOK, StructInv, Known, [Next]_vars
  PROVE  Known'
<1>1. ASSUME UNCHANGED <<queue, match, sending, held, alerts, found>>,
             \A d \in Checks : pc'[d] = "enqueue" => pc[d] = "enqueue" /\ ref'[d] = ref[d],
             \A t \in Structs :
               \/ FreshOf(t)' = FreshOf(t)
               \/ ~Passed(t) /\ \A d \in Checks : pc[d] = "enqueue" => t \notin ref[d]
      PROVE  Known'
  <2>1. \A d \in Checks : pc'[d] = "enqueue" => \A s \in ref'[d] : FreshOf(s)' \subseteq found'
    <3>1. \A d \in Checks : ref[d] \subseteq Structs
      BY DEF TypeOK
    <3>2. \A d \in Checks : pc[d] = "enqueue" => \A s \in ref[d] : FreshOf(s) \subseteq found
      BY DEF Known
    <3>3. ASSUME NEW d \in Checks, pc'[d] = "enqueue", NEW s \in ref'[d]
          PROVE  FreshOf(s)' \subseteq found'
      <4>1. pc[d] = "enqueue" /\ s \in ref[d] /\ s \in Structs
        BY <1>1, <3>1, <3>3
      <4>2. FreshOf(s)' = FreshOf(s)
        BY <1>1, <4>1
      <4> QED
        BY <1>1, <3>2, <4>1, <4>2
    <3> QED
      BY <3>3
  <2>2. \A s \in Structs : Passed(s)' => FreshOf(s)' \subseteq found'
    BY <1>1 DEF Known, Passed, InQueue
  <2> QED
    BY <1>1, <2>1, <2>2 DEF Known, OnlyFound
<1>2. ASSUME NEW a \in Articles, Post(a) \/ SaveElsewhere(a) \/ Destroy(a) PROVE Known'
  <2>1. UNCHANGED <<fresh, tag, pc, ref, queue, match, sending, held, alerts, found>>
    BY <1>2 DEF Post, SaveElsewhere, Destroy, OnlyRows, structVars, checkVars, loopVars, items
  <2> QED
    BY <1>1, <2>1 DEF FreshOf
<1>17. ASSUME NEW i \in IDs, OtherBoard(i) PROVE Known'
  <2>1. UNCHANGED <<fresh, tag, pc, ref, queue, match, sending, held, alerts, found>>
    BY <1>17 DEF OtherBoard, OnlyRows, structVars, checkVars, loopVars, items
  <2> QED
    BY <1>1, <2>1 DEF FreshOf
<1>3. ASSUME NEW c \in Checks, NEW s \in Structs, ReadSaved(c, s) PROVE Known'
  <2>1. /\ pc' = [pc EXCEPT ![c] = "fetch"] /\ ref' = [ref EXCEPT ![c] = {s}]
        /\ UNCHANGED <<queue, match, sending, held, alerts, found>>
    BY <1>3 DEF ReadSaved, loopVars
  <2>2. \/ UNCHANGED <<fresh, tag>>
        \/ /\ ~Used(s)
           /\ fresh' = [fresh EXCEPT ![s] = Nil] /\ tag' = [tag EXCEPT ![s] = 0]
    BY <1>3 DEF ReadSaved, structVars
  <2>3. \A d \in Checks : pc'[d] = "enqueue" => pc[d] = "enqueue" /\ ref'[d] = ref[d]
    BY <2>1 DEF TypeOK
  <2>4. ASSUME NEW t \in Structs
        PROVE  \/ FreshOf(t)' = FreshOf(t)
               \/ ~Passed(t) /\ \A d \in Checks : pc[d] = "enqueue" => t \notin ref[d]
    <3>1. CASE UNCHANGED <<fresh, tag>>
      BY <3>1 DEF FreshOf
    <3>2. CASE t = s /\ ~Used(s)
      BY <3>2 DEF Used, Passed
    <3>3. CASE t # s /\ fresh' = [fresh EXCEPT ![s] = Nil] /\ tag' = [tag EXCEPT ![s] = 0]
      BY <3>3 DEF FreshOf, TypeOK
    <3> QED
      BY <2>2, <3>1, <3>2, <3>3
  <2> QED
    BY <1>1, <2>1, <2>3, <2>4
<1>4. ASSUME NEW c \in Checks, Fetch(c) \/ Create(c) PROVE Known'
  <2>1. /\ UNCHANGED <<fresh, tag, ref, queue, match, sending, held, alerts, found>>
        /\ pc' \in {[pc EXCEPT ![c] = "assign"], [pc EXCEPT ![c] = "retest"]}
    BY <1>4 DEF Fetch, Create, structVars, loopVars, items
  <2>2. \A d \in Checks : pc'[d] = "enqueue" => pc[d] = "enqueue"
    BY <2>1 DEF TypeOK
  <2> QED
    BY <1>1, <2>1, <2>2 DEF FreshOf
<1>5. ASSUME NEW c \in Checks, Assign(c) PROVE Known'
  <2>1. PICK s \in ref[c] : fresh' = [fresh EXCEPT ![s] = list[c][1]]
    BY <1>5 DEF Assign
  <2>2. /\ pc[c] = "assign" /\ pc' = [pc EXCEPT ![c] = "test"]
        /\ UNCHANGED <<tag, ref, queue, match, sending, held, alerts, found>>
    BY <1>5 DEF Assign, loopVars, items
  <2>3. ~Passed(s) /\ \A d \in Checks : pc[d] = "enqueue" => s \notin ref[d]
    BY <2>1, <2>2 DEF StructInv, Owned
  <2>4. \A t \in Structs : t = s \/ FreshOf(t)' = FreshOf(t)
    BY <2>1, <2>2 DEF TypeOK, FreshOf
  <2>5. \A d \in Checks : pc'[d] = "enqueue" => pc[d] = "enqueue" /\ ref'[d] = ref[d]
    BY <2>2 DEF TypeOK
  <2> QED
    BY <1>1, <2>2, <2>3, <2>4, <2>5
<1>6. ASSUME NEW c \in Checks, Test(c) \/ Retest(c) PROVE Known'
  <2>1. PICK s \in ref[c], label \in {"create", "save"} : ToSave(c, s, label) \/ End(c)
    BY <1>6 DEF Test, Retest
  <2>2. \A d \in Checks : pc'[d] = "enqueue" => pc[d] = "enqueue" /\ ref'[d] = ref[d]
    BY <2>1 DEF ToSave, End, TypeOK
  <2>3. UNCHANGED <<fresh, tag, queue, match, sending, held, alerts, found>>
    BY <1>6 DEF Test, Retest, structVars, loopVars, items
  <2> QED
    BY <1>1, <2>2, <2>3 DEF FreshOf
<1>7. ASSUME NEW c \in Checks, Save(c) PROVE Known'
  <2>1. pc[c] = "save" /\ UNCHANGED <<fresh, queue, match, sending, held, alerts>>
    BY <1>7 DEF Save, structVars, loopVars
  <2>2. CASE End(c) /\ UNCHANGED <<tag, found>>
    <3>1. \A d \in Checks : pc'[d] = "enqueue" => pc[d] = "enqueue" /\ ref'[d] = ref[d]
      BY <2>2 DEF End, TypeOK
    <3> QED
      BY <1>1, <2>1, <2>2, <3>1 DEF FreshOf
  <2>3. CASE /\ Number(c) /\ found' = found \union Finds(c)
             /\ pc' = [pc EXCEPT ![c] = "enqueue"] /\ UNCHANGED ref
    <3>1. PICK s \in ref[c] : tag' = [tag EXCEPT ![s] = saves + 1]
      BY <2>3 DEF Number
    <3>2. s \in Structs /\ \A t \in ref[c] : t = s
      BY <3>1 DEF StructInv, OneEach, TypeOK
    <3>3. FreshOf(s)' = Finds(c)
      BY <2>1, <3>1, <3>2 DEF StructInv, Assigned, FreshOf, Finds, TypeOK
    <3>4. \A t \in Structs \ {s} : FreshOf(t)' = FreshOf(t)
      BY <2>1, <3>1, <3>2 DEF FreshOf, TypeOK
    <3>5. \A d \in Checks \ {c} : pc'[d] = pc[d] /\ s \notin ref[d] /\ ref[d] \subseteq Structs
      BY <2>3, <3>1 DEF StructInv, Owned, TypeOK
    <3>6. \A t : Passed(t)' <=> Passed(t)
      BY <2>1 DEF Passed, InQueue
    <3>7. ~Passed(s)
      BY <3>1 DEF StructInv, Owned
    <3>8. found \subseteq found' /\ Finds(c) \subseteq found'
      BY <2>3
    <3>9. \A d \in Checks : pc'[d] = "enqueue" => \A t \in ref'[d] : FreshOf(t)' \subseteq found'
      <4>1. \A t \in ref'[c] : FreshOf(t)' \subseteq found'
        BY <2>3, <3>2, <3>3, <3>8
      <4>2. \A d \in Checks \ {c} : pc'[d] = "enqueue" => \A t \in ref'[d] : FreshOf(t)' \subseteq found'
        BY <2>3, <3>4, <3>5, <3>8 DEF Known
      <4> QED
        BY <4>1, <4>2
    <3>10. \A t \in Structs : Passed(t)' => FreshOf(t)' \subseteq found'
      BY <3>4, <3>6, <3>7, <3>8 DEF Known
    <3>11. \A x \in Alert : (sending'[x] > 0 \/ \E l \in Loops : x \in held'[l])
                              => Carried(x) \subseteq found' /\ x[2] \subseteq Matches[x[1]]
      BY <2>1, <3>8 DEF Known
    <3>12. OnlyFound'
      BY <2>1, <3>8 DEF Known, OnlyFound
    <3> QED
      BY <3>9, <3>10, <3>11, <3>12 DEF Known, Carried
  <2>4. \/ /\ Number(c) /\ found' = found \union Finds(c)
           /\ pc' = [pc EXCEPT ![c] = "enqueue"] /\ UNCHANGED ref
        \/ End(c) /\ UNCHANGED <<tag, found>>
    BY <1>7 DEF Save
  <2> QED
    BY <2>2, <2>3, <2>4
<1>8. ASSUME UNCHANGED <<fresh, tag, sending, held, alerts, found>>,
             \A d \in Checks : pc'[d] = "enqueue" => pc[d] = "enqueue" /\ ref'[d] = ref[d],
             \A t \in Structs :
               Passed(t)' => Passed(t) \/ \E d \in Checks : pc[d] = "enqueue" /\ t \in ref[d]
      PROVE  Known'
  BY <1>8 DEF Known, FreshOf, OnlyFound
<1>9. ASSUME NEW c \in Checks, Enqueue(c) PROVE Known'
  <2>1. PICK s \in ref[c] : queue' = Append(queue, s)
    BY <1>9 DEF Enqueue
  <2>2. s \in Structs /\ queue \in Seq(Structs)
    BY <2>1 DEF TypeOK
  <2>3. ASSUME NEW t \in Structs PROVE InQueue(t)' <=> (t = s \/ InQueue(t))
    BY <2>1, <2>2, SentToQueue DEF InQueue
  <2>4. \A t \in Structs : Passed(t)' => Passed(t) \/ t = s
    BY <1>9, <2>3 DEF Enqueue, Passed
  <2>5. \A d \in Checks : pc'[d] = "enqueue" => pc[d] = "enqueue" /\ ref'[d] = ref[d]
    BY <1>9 DEF Enqueue, End, TypeOK
  <2> QED
    BY <1>8, <1>9, <2>1, <2>4, <2>5 DEF Enqueue, structVars, items
<1>10. ASSUME NEW l \in Loops, Dispatch(l) PROVE Known'
  <2>1. /\ queue # <<>> /\ queue' = Tail(queue)
        /\ \A t \in Structs, w \in Watches : t # Head(queue) => match'[<<t, w>>] = match[<<t, w>>]
    BY <1>10 DEF Dispatch
  <2>2. ASSUME NEW t \in Structs PROVE InQueue(t)' => InQueue(t)
    BY <2>1, TakenFromQueue DEF InQueue, TypeOK
  <2>3. InQueue(Head(queue))
    BY <2>1, TakenFromQueue DEF InQueue, TypeOK
  <2>4. \A t \in Structs : Passed(t)' => Passed(t)
    BY <2>1, <2>2, <2>3 DEF Passed
  <2> QED
    BY <1>8, <1>10, <2>4 DEF Dispatch, structVars, checkVars, items
<1>11. ASSUME NEW s \in Structs, NEW w \in Watches, Match(s, w) PROVE Known'
  <2> DEFINE hits == fresh[s] \intersect Matches[w]
             x    == <<w, hits, tag[s]>>
  <2>1. Carried(x) \subseteq found /\ x[2] \subseteq Matches[x[1]]
    <3>1. Carried(x) \subseteq FreshOf(s)
      BY ArticleAlertsAssumption DEF FreshOf, Carried, Nil
    <3>2. FreshOf(s) \subseteq found
      BY <1>11 DEF Match, Known, Passed
    <3> QED
      BY <3>1, <3>2
  <2>2. \A y \in Alert : sending'[y] > 0 => sending[y] > 0 \/ y = x
    BY <1>11 DEF Match, TypeOK
  <2>3. UNCHANGED <<fresh, tag, pc, ref, queue, held, alerts, found>>
    BY <1>11 DEF Match, structVars, checkVars, items
  <2>4. \A t \in Structs : Passed(t)' => Passed(t)
    <3>1. \A t \in Structs, v \in Watches : match'[<<t, v>>] > 0 => match[<<t, v>>] > 0
      BY <1>11 DEF Match, TypeOK
    <3> QED
      BY <2>3, <3>1 DEF Passed, InQueue
  <2>5. \A y \in Alert : (sending'[y] > 0 \/ \E l \in Loops : y \in held'[l])
                            => Carried(y) \subseteq found' /\ y[2] \subseteq Matches[y[1]]
    <3> HIDE DEF x
    <3> QED
      BY <2>1, <2>2, <2>3 DEF Known
  <2> QED
    BY <2>3, <2>4, <2>5 DEF Known, FreshOf, OnlyFound, Carried
<1>12. ASSUME NEW l \in Loops, NEW x \in Alert, Receive(l, x) PROVE Known'
  <2>1. \A y \in Alert : (sending'[y] > 0 \/ \E k \in Loops : y \in held'[k])
                            => (sending[y] > 0 \/ \E k \in Loops : y \in held[k])
    BY <1>12 DEF Receive, TypeOK
  <2>2. UNCHANGED <<fresh, tag, pc, ref, queue, match, alerts, found>>
    BY <1>12 DEF Receive, structVars, checkVars, items
  <2> QED
    BY <2>1, <2>2 DEF Known, FreshOf, OnlyFound, Passed, InQueue, Carried
<1>13. ASSUME NEW l \in Loops, Deliver(l) PROVE Known'
  <2>1. PICK x \in held[l] :
          alerts' = [k \in Watches \X Items |->
                       IF k[1] = x[1] /\ k[2] \in Carried(x) /\ alerts[k] < 2
                       THEN alerts[k] + 1 ELSE alerts[k]]
    BY <1>13 DEF Deliver
  <2>2. x \in Alert /\ Carried(x) \subseteq found /\ x[2] \subseteq Matches[x[1]]
    BY <2>1 DEF Known, TypeOK
  <2>3. UNCHANGED <<fresh, tag, pc, ref, queue, match, sending, found>>
        /\ held' = [held EXCEPT ![l] = {}]
    BY <1>13 DEF Deliver, structVars, checkVars, items
  <2>4. ASSUME NEW w \in Watches, NEW i \in Items, alerts'[<<w, i>>] > 0
        PROVE  i[2] \in Matches[w] /\ i \in found
    <3>1. alerts[<<w, i>>] > 0 \/ (w = x[1] /\ i \in Carried(x))
      BY <2>1, <2>4
    <3>2. i \in Carried(x) => i[2] \in x[2]
      BY DEF Carried
    <3> QED
      BY <2>2, <3>1, <3>2 DEF Known, OnlyFound
  <2>5. \A y \in Alert : (\E k \in Loops : y \in held'[k]) => \E k \in Loops : y \in held[k]
    BY <2>3 DEF TypeOK
  <2> QED
    BY <2>3, <2>4, <2>5 DEF Known, FreshOf, OnlyFound, Passed, InQueue, Carried
<1>14. ASSUME NEW l \in Loops, Stop(l) \/ Run(l) PROVE Known'
  <2>1. /\ UNCHANGED <<fresh, tag, pc, ref, match, sending, held, alerts, found>>
        /\ queue' = <<>> \/ queue' = queue
    BY <1>14 DEF Stop, Run, structVars, checkVars, items
  <2>2. \A t \in Structs : Passed(t)' => Passed(t)
    BY <2>1 DEF Passed, InQueue
  <2> QED
    BY <1>8, <2>1, <2>2
<1>15. CASE Restart
  <2>1. /\ queue' = <<>> /\ UNCHANGED <<alerts, found>>
        /\ \A d \in Checks : pc'[d] = "idle"
        /\ \A s \in Structs, w \in Watches : match'[<<s, w>>] = 0
        /\ \A x \in Alert : sending'[x] = 0
        /\ \A l \in Loops : held'[l] = {}
    BY <1>15 DEF Restart, items
  <2>2. Len(queue') = 0
    BY <2>1
  <2>3. ASSUME NEW s \in Structs PROVE ~Passed(s)'
    <3>1. ~InQueue(s)'
      BY <2>2 DEF InQueue
    <3>2. ASSUME NEW w \in Watches PROVE ~(match'[<<s, w>>] > 0)
      <4>1. match'[<<s, w>>] = 0
        BY <2>1
      <4> QED
        BY <4>1
    <3> QED
      BY <3>1, <3>2 DEF Passed
  <2>4. \A x \in Alert : ~(sending'[x] > 0 \/ \E l \in Loops : x \in held'[l])
    <3>1. ASSUME NEW x \in Alert, sending'[x] = 0 PROVE ~(sending'[x] > 0)
      BY <3>1
    <3> QED
      BY <2>1, <3>1
  <2>5. OnlyFound'
    BY <2>1 DEF Known, OnlyFound
  <2>6. \A d \in Checks : pc'[d] # "enqueue"
    BY <2>1
  <2> QED
    BY <2>3, <2>4, <2>5, <2>6 DEF Known
<1>16. CASE UNCHANGED vars
  <2>1. UNCHANGED <<fresh, tag, pc, ref, queue, match, sending, held, alerts, found>>
    BY <1>16 DEF vars, structVars, checkVars, loopVars, items
  <2> QED
    BY <1>1, <2>1 DEF FreshOf
<1> QED
  BY <1>2, <1>3, <1>4, <1>5, <1>6, <1>7, <1>9, <1>10, <1>11, <1>12, <1>13, <1>14,
     <1>15, <1>16, <1>17
  DEF Next, Check, Work

\* Both invariants, from the first state on.
LEMMA StructsAndKnown ==
  ASSUME High = {}
  PROVE  Spec => [](StructInv /\ Known)
<1>1. Init => StructInv /\ Known
  <2> SUFFICES ASSUME Init PROVE StructInv /\ Known
    OBVIOUS
  <2>1. StructInv
    BY DEF Init, StructInv, OneEach, Owned, Assigned
  <2>2. Len(queue) = 0
    BY DEF Init
  <2>3. ASSUME NEW s \in Structs, NEW w \in Watches PROVE match[<<s, w>>] = 0
    BY DEF Init
  <2>4. ASSUME NEW s \in Structs PROVE ~Passed(s)
    <3>1. ~InQueue(s)
      BY <2>2 DEF InQueue
    <3>2. ASSUME NEW w \in Watches PROVE ~(match[<<s, w>>] > 0)
      <4>1. match[<<s, w>>] = 0
        BY <2>3
      <4> QED
        BY <4>1
    <3> QED
      BY <3>1, <3>2 DEF Passed
  <2>5. Known
    BY <2>4 DEF Init, Known, OnlyFound
  <2> QED
    BY <2>1, <2>5
<1>2. TypeOK /\ StructInv /\ Known /\ [Next]_vars => (StructInv /\ Known)'
  BY StructsKept, KnownKept
<1> QED
  BY <1>1, <1>2, TypeCorrect, PTL DEF Spec

\* Only articles are alerted that match and that a successful save made known as
\* new, if no two checks share a struct.
THEOREM AlertsAreFound == High = {} => (Spec => []OnlyFound)
<1> SUFFICES ASSUME High = {} PROVE Spec => []OnlyFound
  OBVIOUS
<1> QED
  BY StructsAndKnown, PTL DEF Known

-----------------------------------------------------------------------------
\* OnItsWay with the structs of boardCh in place of its positions.
Way(i, w) ==
  \/ \E c \in Checks : pc[c] = "enqueue" /\ \E s \in ref[c] : i \in FreshOf(s)
  \/ \E s \in Structs : (InQueue(s) \/ match[<<s, w>>] > 0) /\ i \in FreshOf(s)
  \/ \E x \in Alert : /\ x[1] = w /\ i \in Carried(x)
                      /\ sending[x] > 0 \/ \E l \in Loops : x \in held[l]

\* The two say the same.
LEMMA WayIsOnItsWay ==
  ASSUME TypeOK, NEW i, NEW w
  PROVE  OnItsWay(i, w) <=> Way(i, w)
<1>1. (\E k \in 1..Len(queue) : i \in FreshOf(queue[k]))
        <=> \E s \in Structs : InQueue(s) /\ i \in FreshOf(s)
  BY DEF InQueue, TypeOK
<1> QED
  BY <1>1 DEF OnItsWay, Way

\* NotLost, with Way.
Tracked ==
  \A i \in found, w \in Watches :
    i[2] \in Matches[w] => alerts[<<w, i>>] > 0 \/ Way(i, w) \/ i \in dropped

\* No step but a Stop or a restart takes an article off its way.
LEMMA TrackedKept ==
  ASSUME TypeOK, StructInv, Tracked, [Next]_vars
  PROVE  Tracked'
<1>1. ASSUME UNCHANGED <<queue, match, sending, held, alerts, found, dropped>>,
             \A d \in Checks : pc[d] = "enqueue" => pc'[d] = "enqueue" /\ ref'[d] = ref[d],
             \A t \in Structs :
               \/ FreshOf(t)' = FreshOf(t)
               \/ ~Passed(t) /\ \A d \in Checks : pc[d] = "enqueue" => t \notin ref[d]
      PROVE  Tracked'
  <2>1. ASSUME NEW i, NEW w \in Watches, Way(i, w) PROVE Way(i, w)'
    <3>1. \A d \in Checks : pc[d] = "enqueue" => \A s \in ref[d] : FreshOf(s)' = FreshOf(s)
      BY <1>1 DEF TypeOK
    <3>2. \A s \in Structs : InQueue(s) \/ match[<<s, w>>] > 0 => FreshOf(s)' = FreshOf(s)
      BY <1>1 DEF Passed
    <3> QED
      BY <1>1, <2>1, <3>1, <3>2 DEF Way, InQueue, Carried
  <2> QED
    BY <1>1, <2>1 DEF Tracked
<1>2. ASSUME NEW a \in Articles, Post(a) \/ SaveElsewhere(a) \/ Destroy(a) PROVE Tracked'
  <2>1. UNCHANGED <<fresh, tag, pc, ref, queue, match, sending, held, alerts, found, dropped>>
    BY <1>2 DEF Post, SaveElsewhere, Destroy, OnlyRows, structVars, checkVars, loopVars, items
  <2> QED
    BY <1>1, <2>1 DEF FreshOf
<1>3. ASSUME NEW i \in IDs, OtherBoard(i) PROVE Tracked'
  <2>1. UNCHANGED <<fresh, tag, pc, ref, queue, match, sending, held, alerts, found, dropped>>
    BY <1>3 DEF OtherBoard, OnlyRows, structVars, checkVars, loopVars, items
  <2> QED
    BY <1>1, <2>1 DEF FreshOf
<1>18. ASSUME NEW c \in Checks, NEW s \in Structs, ReadSaved(c, s) PROVE Tracked'
  <2>1. /\ pc[c] = "idle"
        /\ pc' = [pc EXCEPT ![c] = "fetch"] /\ ref' = [ref EXCEPT ![c] = {s}]
        /\ UNCHANGED <<queue, match, sending, held, alerts, found, dropped>>
    BY <1>18 DEF ReadSaved, loopVars
  <2>2. \/ UNCHANGED <<fresh, tag>>
        \/ /\ ~Used(s)
           /\ fresh' = [fresh EXCEPT ![s] = Nil] /\ tag' = [tag EXCEPT ![s] = 0]
    BY <1>18 DEF ReadSaved, structVars
  <2>3. \A d \in Checks : pc[d] = "enqueue" => pc'[d] = "enqueue" /\ ref'[d] = ref[d]
    BY <2>1 DEF TypeOK
  <2>4. ASSUME NEW t \in Structs
        PROVE  \/ FreshOf(t)' = FreshOf(t)
               \/ ~Passed(t) /\ \A d \in Checks : pc[d] = "enqueue" => t \notin ref[d]
    <3>1. CASE UNCHANGED <<fresh, tag>>
      BY <3>1 DEF FreshOf
    <3>2. CASE t = s /\ ~Used(s)
      BY <3>2 DEF Used, Passed
    <3>3. CASE t # s /\ fresh' = [fresh EXCEPT ![s] = Nil] /\ tag' = [tag EXCEPT ![s] = 0]
      BY <3>3 DEF FreshOf, TypeOK
    <3> QED
      BY <2>2, <3>1, <3>2, <3>3
  <2> QED
    BY <1>1, <2>1, <2>3, <2>4
<1>4. ASSUME NEW c \in Checks, Fetch(c) \/ Create(c) PROVE Tracked'
  <2>1. /\ UNCHANGED <<fresh, tag, ref, queue, match, sending, held, alerts, found, dropped>>
        /\ pc[c] \in {"fetch", "create"}
        /\ pc' \in {[pc EXCEPT ![c] = "assign"], [pc EXCEPT ![c] = "retest"]}
    BY <1>4 DEF Fetch, Create, structVars, loopVars, items
  <2>2. \A d \in Checks : pc[d] = "enqueue" => pc'[d] = "enqueue"
    BY <2>1 DEF TypeOK
  <2> QED
    BY <1>1, <2>1, <2>2 DEF FreshOf
<1>5. ASSUME NEW c \in Checks, Assign(c) PROVE Tracked'
  <2>1. PICK s \in ref[c] : fresh' = [fresh EXCEPT ![s] = list[c][1]]
    BY <1>5 DEF Assign
  <2>2. /\ pc[c] = "assign" /\ pc' = [pc EXCEPT ![c] = "test"]
        /\ UNCHANGED <<tag, ref, queue, match, sending, held, alerts, found, dropped>>
    BY <1>5 DEF Assign, loopVars, items
  <2>3. ~Passed(s) /\ \A d \in Checks : pc[d] = "enqueue" => s \notin ref[d]
    BY <2>1, <2>2 DEF StructInv, Owned
  <2>4. \A t \in Structs : t = s \/ FreshOf(t)' = FreshOf(t)
    BY <2>1, <2>2 DEF TypeOK, FreshOf
  <2>5. \A d \in Checks : pc[d] = "enqueue" => pc'[d] = "enqueue" /\ ref'[d] = ref[d]
    BY <2>2 DEF TypeOK
  <2> QED
    BY <1>1, <2>2, <2>3, <2>4, <2>5
<1>6. ASSUME NEW c \in Checks, Test(c) \/ Retest(c) PROVE Tracked'
  <2>1. PICK s \in ref[c], label \in {"create", "save"} : ToSave(c, s, label) \/ End(c)
    BY <1>6 DEF Test, Retest
  <2>2. pc[c] # "enqueue"
    BY <1>6 DEF Test, Retest
  <2>3. \A d \in Checks : pc[d] = "enqueue" => pc'[d] = "enqueue" /\ ref'[d] = ref[d]
    BY <2>1, <2>2 DEF ToSave, End, TypeOK
  <2>4. UNCHANGED <<fresh, tag, queue, match, sending, held, alerts, found, dropped>>
    BY <1>6 DEF Test, Retest, structVars, loopVars, items
  <2> QED
    BY <1>1, <2>3, <2>4 DEF FreshOf
<1>7. ASSUME NEW c \in Checks, Save(c) PROVE Tracked'
  <2>1. pc[c] = "save" /\ UNCHANGED <<fresh, queue, match, sending, held, alerts, dropped>>
    BY <1>7 DEF Save, structVars, loopVars
  <2>2. CASE End(c) /\ UNCHANGED <<tag, found>>
    <3>1. \A d \in Checks : pc[d] = "enqueue" => pc'[d] = "enqueue" /\ ref'[d] = ref[d]
      BY <2>1, <2>2 DEF End, TypeOK
    <3> QED
      BY <1>1, <2>1, <2>2, <3>1 DEF FreshOf
  <2>3. CASE /\ Number(c) /\ found' = found \union Finds(c)
             /\ pc' = [pc EXCEPT ![c] = "enqueue"] /\ UNCHANGED ref
    <3>1. PICK s \in ref[c] : tag' = [tag EXCEPT ![s] = saves + 1]
      BY <2>3 DEF Number
    <3>2. s \in Structs /\ \A t \in ref[c] : t = s
      BY <3>1 DEF StructInv, OneEach, TypeOK
    <3>3. FreshOf(s)' = Finds(c)
      BY <2>1, <3>1, <3>2 DEF StructInv, Assigned, FreshOf, Finds, TypeOK
    <3>4. \A t \in Structs \ {s} : FreshOf(t)' = FreshOf(t)
      BY <2>1, <3>1, <3>2 DEF FreshOf, TypeOK
    <3>5. \A d \in Checks \ {c} : pc'[d] = pc[d] /\ s \notin ref[d] /\ ref[d] \subseteq Structs
      BY <2>3, <3>1 DEF StructInv, Owned, TypeOK
    <3>6. \A t : InQueue(t)' <=> InQueue(t)
      BY <2>1 DEF InQueue
    <3>7. ~Passed(s)
      BY <3>1 DEF StructInv, Owned
    <3>8. pc'[c] = "enqueue"
      BY <2>3 DEF TypeOK
    <3>9. ASSUME NEW i \in Finds(c), NEW w PROVE Way(i, w)'
      BY <2>3, <3>1, <3>3, <3>8 DEF Way
    <3>10. ASSUME NEW i, NEW w \in Watches, Way(i, w) PROVE Way(i, w)'
      <4>1. CASE \E d \in Checks : pc[d] = "enqueue" /\ \E t \in ref[d] : i \in FreshOf(t)
        <5>4. PICK d \in Checks : pc[d] = "enqueue" /\ \E t \in ref[d] : i \in FreshOf(t)
          BY <4>1
        <5>1. PICK t \in ref[d] : pc[d] = "enqueue" /\ i \in FreshOf(t)
          BY <5>4
        <5>2. d # c
          BY <2>1, <5>1
        <5>3. pc'[d] = "enqueue" /\ t \in ref'[d] /\ i \in FreshOf(t)'
          BY <2>3, <3>4, <3>5, <5>1, <5>2
        <5> QED
          BY <5>3 DEF Way
      <4>2. CASE \E t \in Structs : (InQueue(t) \/ match[<<t, w>>] > 0) /\ i \in FreshOf(t)
        BY <2>1, <3>4, <3>6, <3>7, <4>2 DEF Way, Passed
      <4>3. CASE \E x \in Alert : /\ x[1] = w /\ i \in Carried(x)
                                  /\ sending[x] > 0 \/ \E l \in Loops : x \in held[l]
        BY <2>1, <4>3 DEF Way, Carried
      <4> QED
        BY <3>10, <4>1, <4>2, <4>3 DEF Way
    <3> QED
      BY <2>1, <2>3, <3>9, <3>10 DEF Tracked
  <2>4. \/ /\ Number(c) /\ found' = found \union Finds(c)
           /\ pc' = [pc EXCEPT ![c] = "enqueue"] /\ UNCHANGED ref
        \/ End(c) /\ UNCHANGED <<tag, found>>
    BY <1>7 DEF Save
  <2> QED
    BY <2>2, <2>3, <2>4
<1>8. ASSUME UNCHANGED <<found, alerts, dropped>>,
             \A i \in found, w \in Watches : i[2] \in Matches[w] /\ Way(i, w) => Way(i, w)'
      PROVE  Tracked'
  BY <1>8 DEF Tracked
<1>9. ASSUME NEW c \in Checks, Enqueue(c) PROVE Tracked'
  <2>1. PICK s \in ref[c] : queue' = Append(queue, s)
    BY <1>9 DEF Enqueue
  <2>2. s \in Structs /\ queue \in Seq(Structs)
    BY <2>1 DEF TypeOK
  <2>3. ASSUME NEW t \in Structs PROVE InQueue(t)' <=> (t = s \/ InQueue(t))
    BY <2>1, <2>2, SentToQueue DEF InQueue
  <2>4. UNCHANGED <<fresh, tag, match, sending, held, found, alerts, dropped>>
    BY <1>9 DEF Enqueue, structVars, items
  <2>5. \A d \in Checks : d # c => pc'[d] = pc[d] /\ ref'[d] = ref[d]
    BY <1>9 DEF Enqueue, End, TypeOK
  <2>6. \A t \in ref[c] : t = s
    BY <2>1 DEF StructInv, OneEach
  <2>7. ASSUME NEW i, NEW w, Way(i, w) PROVE Way(i, w)'
    BY <2>2, <2>3, <2>4, <2>5, <2>6, <2>7 DEF Way, FreshOf, Carried
  <2> QED
    BY <1>8, <2>4, <2>7
<1>10. ASSUME NEW l \in Loops, Dispatch(l) PROVE Tracked'
  <2>1. /\ queue # <<>> /\ queue' = Tail(queue)
        /\ UNCHANGED <<fresh, tag, pc, ref, sending, held, found, alerts, dropped>>
    BY <1>10 DEF Dispatch, structVars, checkVars, items
  <2>2. \A t \in Structs, w \in Watches :
          match'[<<t, w>>] = IF t = Head(queue) THEN match[<<t, w>>] + 1 ELSE match[<<t, w>>]
    BY <1>10 DEF Dispatch
  <2>3. ASSUME NEW t \in Structs, InQueue(t) PROVE t = Head(queue) \/ InQueue(t)'
    BY <2>1, <2>3, TakenFromQueue DEF InQueue, TypeOK
  <2>4. ASSUME NEW t \in Structs, NEW w \in Watches, InQueue(t) \/ match[<<t, w>>] > 0
        PROVE  InQueue(t)' \/ match'[<<t, w>>] > 0
    <3>1. match[<<t, w>>] \in Nat
      BY DEF TypeOK
    <3> QED
      BY <2>2, <2>3, <2>4, <3>1
  <2>5. ASSUME NEW i, NEW w \in Watches, Way(i, w) PROVE Way(i, w)'
    BY <2>1, <2>4, <2>5 DEF Way, FreshOf, Carried
  <2> QED
    BY <1>8, <2>1, <2>5
<1>11. ASSUME NEW s \in Structs, NEW v \in Watches, Match(s, v) PROVE Tracked'
  <2> DEFINE hits == fresh[s] \intersect Matches[v]
             x    == <<v, hits, tag[s]>>
  <2>1. UNCHANGED <<fresh, tag, pc, ref, queue, held, found, alerts, dropped>>
    BY <1>11 DEF Match, structVars, checkVars, items
  <2>2. \A t \in Structs, w \in Watches :
          match[<<t, w>>] > 0 => (t = s /\ w = v) \/ match'[<<t, w>>] > 0
    BY <1>11 DEF Match, TypeOK
  <2>3. x \in Alert
    BY ArticleAlertsAssumption DEF Alert, TypeOK
  <2>4. hits # {} => sending'[x] > 0
    BY <1>11, <2>3 DEF Match, TypeOK
  <2>5. \A y \in Alert : sending[y] > 0 => sending'[y] > 0
    BY <1>11, <2>3 DEF Match, TypeOK
  <2>6. ASSUME NEW i \in found, NEW w \in Watches, i[2] \in Matches[w], Way(i, w)
        PROVE  Way(i, w)'
    <3>1. CASE \E t \in Structs : match[<<t, w>>] > 0 /\ ~(match'[<<t, w>>] > 0)
                                  /\ i \in FreshOf(t)
      <4>1. w = v /\ i \in FreshOf(s)
        BY <2>2, <3>1
      <4>2. i[2] \in hits /\ i \in Carried(x)
        BY <2>6, <4>1 DEF FreshOf, Carried
      <4>3. x[1] = w /\ sending'[x] > 0
        BY <2>4, <4>1, <4>2
      <4> HIDE DEF x, hits
      <4> QED
        BY <2>3, <4>2, <4>3 DEF Way, Carried
    <3>2. CASE \A t \in Structs : match[<<t, w>>] > 0 /\ i \in FreshOf(t)
                                    => match'[<<t, w>>] > 0
      BY <2>1, <2>5, <2>6, <3>2 DEF Way, FreshOf, InQueue, Carried
    <3> QED
      BY <3>1, <3>2
  <2> QED
    BY <1>8, <2>1, <2>6
<1>12. ASSUME NEW l \in Loops, NEW x \in Alert, Receive(l, x) PROVE Tracked'
  <2>1. UNCHANGED <<fresh, tag, pc, ref, queue, match, found, alerts, dropped>>
    BY <1>12 DEF Receive, structVars, checkVars, items
  <2>2. held[l] = {} /\ held' = [held EXCEPT ![l] = {x}]
    BY <1>12 DEF Receive, Ready
  <2>3. \A y \in Alert : y # x => sending'[y] = sending[y]
    BY <1>12 DEF Receive, TypeOK
  <2>4. \A y \in Alert : (sending[y] > 0 \/ \E k \in Loops : y \in held[k])
                            => (sending'[y] > 0 \/ \E k \in Loops : y \in held'[k])
    BY <2>2, <2>3 DEF TypeOK
  <2>5. ASSUME NEW i, NEW w, Way(i, w) PROVE Way(i, w)'
    BY <2>1, <2>4, <2>5 DEF Way, FreshOf, InQueue, Carried
  <2> QED
    BY <1>8, <2>1, <2>5
<1>13. ASSUME NEW l \in Loops, Deliver(l) PROVE Tracked'
  <2>1. PICK x \in held[l] :
          alerts' = [k \in Watches \X Items |->
                       IF k[1] = x[1] /\ k[2] \in Carried(x) /\ alerts[k] < 2
                       THEN alerts[k] + 1 ELSE alerts[k]]
    BY <1>13 DEF Deliver
  <2>2. /\ UNCHANGED <<fresh, tag, pc, ref, queue, match, sending, found, dropped>>
        /\ held' = [held EXCEPT ![l] = {}]
    BY <1>13 DEF Deliver, structVars, checkVars, items
  <2>3. \A y \in held[l] : y = x
    BY <2>1 DEF StructInv, OneEach
  <2>4. ASSUME NEW i \in Items, NEW w \in Watches
        PROVE  /\ alerts[<<w, i>>] > 0 => alerts'[<<w, i>>] > 0
               /\ w = x[1] /\ i \in Carried(x) => alerts'[<<w, i>>] > 0
    <3>1. alerts[<<w, i>>] \in 0..2
      BY DEF TypeOK
    <3> QED
      BY <2>1, <3>1
  <2>5. \A y \in Alert : y # x => \A k \in Loops : y \in held[k] => y \in held'[k]
    BY <2>2, <2>3 DEF TypeOK
  <2>6. ASSUME NEW i \in Items, NEW w \in Watches, Way(i, w)
        PROVE  Way(i, w)' \/ (w = x[1] /\ i \in Carried(x))
    BY <2>2, <2>5, <2>6 DEF Way, FreshOf, InQueue, Carried
  <2>7. found \subseteq Items
    BY DEF TypeOK
  <2> QED
    BY <2>2, <2>4, <2>6, <2>7 DEF Tracked
<1>14. ASSUME NEW l \in Loops, Stop(l) PROVE Tracked'
  <2>1. /\ UNCHANGED <<fresh, tag, pc, ref, match, sending, held, alerts, found>>
        /\ dropped \subseteq dropped'
    BY <1>14 DEF Stop, structVars, checkVars
  <2>2. \A s \in Structs : InQueue(s) => FreshOf(s) \intersect found \subseteq dropped'
    BY <1>14 DEF Stop, InQueue
  <2>3. ASSUME NEW i \in found, NEW w, Way(i, w) PROVE Way(i, w)' \/ i \in dropped'
    BY <2>1, <2>2, <2>3 DEF Way, FreshOf, Carried
  <2> QED
    BY <2>1, <2>3 DEF Tracked
<1>15. ASSUME NEW l \in Loops, Run(l) PROVE Tracked'
  <2>1. UNCHANGED <<fresh, tag, pc, ref, queue, match, sending, held, alerts, found, dropped>>
    BY <1>15 DEF Run, structVars, checkVars, items
  <2> QED
    BY <1>1, <2>1 DEF FreshOf
<1>16. CASE Restart
  <2>1. dropped \subseteq dropped' /\ UNCHANGED <<alerts, found>>
    BY <1>16 DEF Restart
  <2>2. \A i \in found, w \in Watches : Way(i, w) => i \in dropped'
    BY <1>16, WayIsOnItsWay DEF Restart
  <2> QED
    BY <2>1, <2>2 DEF Tracked
<1>17. CASE UNCHANGED vars
  <2>1. UNCHANGED <<fresh, tag, pc, ref, queue, match, sending, held, alerts, found, dropped>>
    BY <1>17 DEF vars, structVars, checkVars, loopVars, items
  <2> QED
    BY <1>1, <2>1 DEF FreshOf
<1> QED
  BY <1>2, <1>3, <1>4, <1>5, <1>6, <1>7, <1>9, <1>10, <1>11, <1>12, <1>13, <1>14,
     <1>15, <1>16, <1>17, <1>18
  DEF Next, Check, Work

\* A new article that was saved reaches each subscription it matches, or is on
\* its way there, or a Stop or a restart has thrown it away, if no two checks
\* share a struct.
THEOREM NothingLost == High = {} => (Spec => []NotLost)
<1> SUFFICES ASSUME High = {} PROVE Spec => []NotLost
  OBVIOUS
<1>1. Init => Tracked
  BY DEF Init, Tracked
<1>2. TypeOK /\ StructInv /\ Tracked /\ [Next]_vars => Tracked'
  BY TrackedKept
<1>3. TypeOK /\ Tracked => NotLost
  BY WayIsOnItsWay DEF Tracked, NotLost
<1> QED
  BY <1>1, <1>2, <1>3, TypeCorrect, StructsAndKnown, PTL DEF Spec

-----------------------------------------------------------------------------
(***************************************************************************)
(* Which articles a check passes over.  A check saves a page that is older *)
(* than what others have saved in the meantime, so that what it is going   *)
(* to save must be accounted for at any later time, not only when it is    *)
(* fetched.                                                                *)
(***************************************************************************)
\* The article was found, hidden by a named step, or has a twin.
Accounted(a) == WasFound(a) \/ a \in excused \/ Twin(a)

\* An ID that, saved, hides none but these: 0, that of an article, or one all
\* articles below which are already hidden.
Hides(i) ==
  /\ i = 0 \/ (\E a \in posted : Id[a] = i) \/ (\A a \in Articles : Id[a] <= i => a \in excused)
  /\ \A a \in posted : Id[a] <= i => Accounted(a)

\* The page a check has fetched leaves out what is older than all of it, or has a
\* twin, or is newer.
Fits(c) ==
  /\ list[c][2].articles \subseteq posted
  /\ \A a \in posted \ list[c][2].articles, b \in list[c][2].articles :
       Id[a] <= Id[b] => Twin(a) \/ a \in OffPage(list[c][2])

\* The articles of the page that it does not take for new are accounted for.
Unfound(c) ==
  list[c][1] = Nil \/ \A a \in list[c][2].articles \ list[c][1] : Accounted(a)

CheckFits(c) ==
  /\ \A i \in read[c] : Hides(i)
  /\ Fits(c) /\ Unfound(c)
  /\ pc[c] = "save" => Some(list[c][1])

SilentInv == (\A i \in Saved : Hides(i)) /\ \A c \in Checks : CheckFits(c)

\* What a step never takes back.
Growth ==
  /\ posted \subseteq posted' /\ found \subseteq found' /\ excused \subseteq excused'
  /\ \A a \in posted' \ posted, b \in posted : Id[b] <= Id[a]
  /\ posted' \subseteq Articles

\* Nothing posted, found or hidden is taken back.
LEMMA Grows == ASSUME TypeOK, [Next]_vars PROVE Growth
<1>1. ASSUME UNCHANGED posted, found \subseteq found', excused \subseteq excused' PROVE Growth
  BY <1>1 DEF Growth, TypeOK
<1>2. ASSUME NEW a \in Articles, Post(a) PROVE Growth
  BY <1>2 DEF Post, Growth, TypeOK, items, hiding
<1>3. ASSUME NEW a \in Articles, SaveElsewhere(a) \/ Destroy(a) PROVE Growth
  BY <1>1, <1>3 DEF SaveElsewhere, Destroy, OnlyRows, items
<1>4. ASSUME NEW i \in IDs, OtherBoard(i) PROVE Growth
  BY <1>1, <1>4 DEF OtherBoard, OnlyRows, items
<1>5. ASSUME NEW c \in Checks, Check(c) PROVE Growth
  <2>1. UNCHANGED posted
    BY <1>5 DEF Check, ReadSaved, Fetch, Assign, Test, Create, Retest, Save, Enqueue
  <2>2. found \subseteq found'
    BY <1>5 DEF Check, ReadSaved, Fetch, Assign, Test, Create, Retest, Save, Enqueue, items
  <2>3. excused \subseteq excused'
    <3>1. ASSUME NEW page, NEW gone, Store(page, gone) PROVE excused \subseteq excused'
      BY <3>1 DEF Store, Hide
    <3>2. CASE Create(c) \/ Save(c)
      BY <3>1, <3>2 DEF Create, Save
    <3>3. CASE ~(Create(c) \/ Save(c))
      BY <1>5, <3>3 DEF Check, ReadSaved, Fetch, Assign, Test, Retest, Enqueue, hiding
    <3> QED
      BY <3>2, <3>3
  <2> QED
    BY <1>1, <2>1, <2>2, <2>3
<1>6. ASSUME NEW s \in Structs, NEW w \in Watches, Match(s, w) PROVE Growth
  BY <1>1, <1>6 DEF Match, items, hiding
<1>7. ASSUME NEW l \in Loops, Work(l) \/ Stop(l) \/ Run(l) PROVE Growth
  BY <1>1, <1>7 DEF Work, Dispatch, Receive, Deliver, Stop, Run, items, hiding
<1>8. CASE Restart \/ UNCHANGED vars
  BY <1>1, <1>8 DEF Restart, vars, items, hiding
<1> QED
  BY <1>2, <1>3, <1>4, <1>5, <1>6, <1>7, <1>8 DEF Next

\* What is accounted for stays so, and so does what an ID or a page hides.
LEMMA StillAccounted ==
  ASSUME TypeOK, Growth
  PROVE  /\ \A a \in Articles : Accounted(a) => Accounted(a)'
         /\ \A i \in IDs : Hides(i) => Hides(i)'
         /\ \A c \in Checks : /\ list'[c] = list[c] /\ Fits(c) => Fits(c)'
                              /\ list'[c] = list[c] /\ Unfound(c) => Unfound(c)'
<1>0. posted \subseteq Articles /\ Id \in [Articles -> Nat \ {0}]
  BY ArticleAlertsAssumption DEF TypeOK
<1>1. ASSUME NEW a \in Articles, Twin(a) PROVE Twin(a)'
  BY <1>1 DEF Growth, Twin
<1>2. ASSUME NEW a \in Articles, Accounted(a) PROVE Accounted(a)'
  BY <1>1, <1>2 DEF Growth, Accounted, WasFound
<1>3. ASSUME NEW i \in IDs, Hides(i) PROVE Hides(i)'
  <2>1. i = 0 \/ (\E a \in posted' : Id[a] = i) \/ (\A a \in Articles : Id[a] <= i => a \in excused')
    BY <1>3 DEF Growth, Hides
  <2>2. ASSUME NEW a \in posted', Id[a] <= i PROVE Accounted(a)'
    <3>1. CASE a \in posted
      BY <1>0, <1>2, <1>3, <2>2, <3>1 DEF Hides
    <3>2. CASE a \notin posted
      <4>1. a \in Articles /\ \A b \in posted : Id[b] <= Id[a]
        BY <3>2 DEF Growth
      <4>2. CASE i = 0
        BY <1>0, <2>2, <4>1, <4>2
      <4>3. ASSUME NEW b \in posted, Id[b] = i PROVE Accounted(a)'
        <5>1. Id[b] = Id[a] /\ b \in posted' \ {a}
          BY <1>0, <2>2, <3>2, <4>1, <4>3 DEF Growth
        <5> QED
          BY <5>1 DEF Accounted, Twin
      <4>4. CASE \A b \in Articles : Id[b] <= i => b \in excused
        BY <2>2, <4>1, <4>4 DEF Growth, Accounted
      <4> QED
        BY <1>3, <4>2, <4>3, <4>4 DEF Hides
    <3> QED
      BY <3>1, <3>2
  <2> QED
    BY <2>1, <2>2 DEF Hides
<1>4. ASSUME NEW c \in Checks, list'[c] = list[c], Fits(c) PROVE Fits(c)'
  <2> DEFINE page == list[c][2].articles
  <2>1. page \subseteq posted'
    BY <1>4 DEF Fits, Growth
  <2>2. ASSUME NEW a \in posted' \ page, NEW b \in page, Id[a] <= Id[b]
        PROVE  Twin(a)' \/ a \in OffPage(list[c][2])'
    <3>1. a \in Articles /\ b \in posted
      BY <1>4 DEF Fits, Growth
    <3>2. CASE a \in posted
      <4>1. Twin(a) \/ a \in OffPage(list[c][2])
        BY <1>4, <2>2, <3>2 DEF Fits
      <4>2. a \in OffPage(list[c][2]) => a \in OffPage(list[c][2])'
        BY <1>4 DEF OffPage, Growth
      <4> QED
        BY <1>1, <3>1, <4>1, <4>2
    <3>3. CASE a \notin posted
      <4>1. Id[b] <= Id[a] /\ b \in posted' /\ b # a
        BY <3>1, <3>3 DEF Growth
      <4> QED
        BY <1>0, <2>2, <3>1, <4>1 DEF Twin
    <3> QED
      BY <3>2, <3>3
  <2> QED
    BY <1>4, <2>1, <2>2 DEF Fits
<1>5. ASSUME NEW c \in Checks, list'[c] = list[c], Unfound(c) PROVE Unfound(c)'
  <2>1. list[c][2].articles \subseteq Articles
    BY DEF TypeOK, Pages
  <2> QED
    BY <1>2, <1>5, <2>1 DEF Unfound
<1> QED
  BY <1>2, <1>3, <1>4, <1>5

\* A save hides nothing unaccounted for, if all of the page that was not new is
\* accounted for, or the save hides it under its name.
LEMMA StoreHides ==
  ASSUME TypeOK, Growth, SilentInv, UNCHANGED posted,
         NEW c \in Checks, NEW gone, Store(list[c][2], gone),
         \A a \in list[c][2].articles : a \in gone \/ Accounted(a)'
  PROVE  \A i \in Saved' : Hides(i)'
<1> DEFINE page == list[c][2]
<1>0. /\ posted \subseteq Articles /\ Id \in [Articles -> Nat \ {0}] /\ Saved \subseteq IDs
      /\ page.articles \subseteq posted
  BY ArticleAlertsAssumption DEF TypeOK, Saved, IDs, SilentInv, CheckFits, Fits
<1>1. ASSUME NEW b \in page.articles, gone \union OffPage(page) \subseteq excused'
      PROVE  Hides(Id[b])'
  <2>1. \E a \in posted' : Id[a] = Id[b]
    BY <1>0, <1>1
  <2>2. ASSUME NEW a \in posted', Id[a] <= Id[b] PROVE Accounted(a)'
    <3>1. CASE a \in page.articles
      BY <1>1, <3>1 DEF Accounted
    <3>2. CASE a \notin page.articles
      <4>1. Twin(a) \/ a \in OffPage(page)
        BY <1>1, <2>2, <3>2 DEF SilentInv, CheckFits, Fits
      <4>2. Twin(a) => Twin(a)'
        BY DEF Twin
      <4> QED
        BY <1>1, <4>1, <4>2 DEF Accounted
    <3> QED
      BY <3>1, <3>2
  <2> QED
    BY <2>1, <2>2 DEF Hides
<1>2. \A i \in Saved : Hides(i)'
  BY <1>0, StillAccounted DEF SilentInv
<1>3. CASE /\ db' = db \union page.articles /\ gone \union OffPage(page) \subseteq excused'
           /\ UNCHANGED blank
  <2>1. \A i \in Saved' : i \in Saved \/ \E b \in page.articles : i = Id[b]
    BY <1>3 DEF Saved
  <2> QED
    BY <1>1, <1>2, <1>3, <2>1
<1>4. CASE UNCHANGED db /\ blank' = {0}
  <2>1. Hides(0)'
    BY <1>0 DEF Hides
  <2>2. \A i \in Saved' : i \in Saved \/ i = 0
    BY <1>4 DEF Saved
  <2> QED
    BY <1>2, <2>1, <2>2
<1>5. ASSUME UNCHANGED db, gone \union OffPage(page) \subseteq excused',
             NEW a \in Newest(page.articles), blank' = {Id[a]}
      PROVE  \A i \in Saved' : Hides(i)'
  <2>1. \A i \in Saved' : i \in Saved \/ i = Id[a]
    BY <1>5 DEF Saved
  <2>2. a \in page.articles
    BY DEF Newest
  <2> QED
    BY <1>1, <1>2, <1>5, <2>1, <2>2
<1>6. CASE UNCHANGED <<db, blank>>
  BY <1>2, <1>6 DEF Saved
<1> QED
  BY <1>3, <1>4, <1>5, <1>6 DEF Store, Hide

\* No step hides an article silently.
LEMMA SilentKept ==
  ASSUME TypeOK, StructInv, SilentInv, [Next]_vars
  PROVE  SilentInv'
<1>1. Growth
  BY Grows
<1>2. \A i \in IDs : Hides(i) => Hides(i)'
  BY <1>1, StillAccounted
<1>3. ASSUME NEW c \in Checks, read'[c] = read[c], list'[c] = list[c],
             pc'[c] = "save" => pc[c] = "save" \/ Some(list[c][1])
      PROVE  CheckFits(c)'
  <2>1. CheckFits(c) /\ read[c] \subseteq IDs
    BY DEF SilentInv, TypeOK
  <2>2. Fits(c)' /\ Unfound(c)'
    BY <1>1, <1>3, <2>1, StillAccounted DEF CheckFits
  <2>3. \A i \in read'[c] : Hides(i)'
    BY <1>2, <1>3, <2>1 DEF CheckFits
  <2> QED
    BY <1>3, <2>1, <2>2, <2>3 DEF CheckFits, Some
<1>4. ASSUME NEW c \in Checks, End(c) PROVE CheckFits(c)'
  <2>1. pc'[c] = "idle" /\ read'[c] = {} /\ list'[c] = <<Nil, NoPage>>
    BY <1>4 DEF End, TypeOK
  <2> QED
    BY <2>1 DEF CheckFits, Fits, Unfound, NoPage
<1>5. ASSUME UNCHANGED <<db, blank>> PROVE \A i \in Saved' : Hides(i)'
  <2>1. Saved' = Saved /\ Saved \subseteq IDs
    BY <1>5 DEF Saved, TypeOK, IDs
  <2> QED
    BY <1>2, <2>1 DEF SilentInv
<1>6. ASSUME NEW c \in Checks, pc'[c] # "save",
             \A d \in Checks \ {c} : pc'[d] = pc[d] /\ read'[d] = read[d] /\ list'[d] = list[d],
             UNCHANGED <<db, blank>> \/ \A i \in Saved' : Hides(i)',
             UNCHANGED <<read, list>> \/ CheckFits(c)'
      PROVE  SilentInv'
  <2>1. \A i \in Saved' : Hides(i)'
    BY <1>5, <1>6
  <2>2. ASSUME NEW d \in Checks \ {c} PROVE CheckFits(d)'
    BY <1>3, <1>6, <2>2
  <2>3. CheckFits(c)'
    BY <1>3, <1>6
  <2> QED
    BY <2>1, <2>2, <2>3 DEF SilentInv
<1>7. ASSUME UNCHANGED <<pc, read, list, db, blank>> PROVE SilentInv'
  BY <1>3, <1>5, <1>7 DEF SilentInv
<1>8. ASSUME NEW a \in Articles, Post(a) PROVE SilentInv'
  BY <1>7, <1>8 DEF Post, rowVars, checkVars
<1>9. ASSUME NEW a \in Articles, SaveElsewhere(a) PROVE SilentInv'
  <2>1. /\ UNCHANGED <<posted, blank, pc, read, list>> /\ db' = db \union {a} /\ a \in posted
        /\ excused' = excused \union {b \in posted : Id[b] <= Id[a]}
    BY <1>9 DEF SaveElsewhere, OnlyRows, checkVars
  <2>2. Hides(Id[a])'
    BY <2>1 DEF Hides, Accounted
  <2>3. \A i \in Saved' : i \in Saved \/ i = Id[a]
    BY <2>1 DEF Saved
  <2>4. \A i \in Saved : Hides(i)'
    BY <1>2 DEF SilentInv, Saved, TypeOK, IDs
  <2> QED
    BY <1>3, <2>1, <2>2, <2>3, <2>4 DEF SilentInv
<1>10. ASSUME NEW a \in Articles, Destroy(a) PROVE SilentInv'
  <2>1. UNCHANGED <<blank, pc, read, list>> /\ db' \subseteq db
    BY <1>10 DEF Destroy, OnlyRows, checkVars
  <2>2. \A i \in Saved' : i \in Saved /\ i \in IDs
    BY <2>1 DEF Saved, TypeOK, IDs
  <2>3. \A i \in Saved' : Hides(i)'
    BY <1>2, <2>2 DEF SilentInv
  <2> QED
    BY <1>3, <2>1, <2>3 DEF SilentInv
<1>11. ASSUME NEW i \in IDs, OtherBoard(i) PROVE SilentInv'
  <2>1. /\ UNCHANGED <<posted, db, pc, read, list>> /\ blank' = {i}
        /\ excused' = excused \union {a \in Articles : Id[a] <= i}
    BY <1>11 DEF OtherBoard, OnlyRows, checkVars
  <2>2. Hides(i)'
    BY <2>1 DEF Hides, Accounted, TypeOK
  <2>3. \A j \in Saved' : j \in Saved \/ j = i
    BY <2>1 DEF Saved
  <2>4. \A j \in Saved : Hides(j)'
    BY <1>2 DEF SilentInv, Saved, TypeOK, IDs
  <2> QED
    BY <1>3, <2>1, <2>2, <2>3, <2>4 DEF SilentInv
<1>12. ASSUME NEW c \in Checks, NEW s \in Structs, ReadSaved(c, s) PROVE SilentInv'
  <2>1. /\ pc'[c] = "fetch" /\ UNCHANGED <<db, blank, list>>
        /\ read'[c] = Saved \/ read'[c] = read[c]
        /\ \A d \in Checks \ {c} : pc'[d] = pc[d] /\ read'[d] = read[d]
    BY <1>12 DEF ReadSaved, rowVars, TypeOK
  <2>2. \A i \in read'[c] : Hides(i)'
    <3>1. Saved \subseteq IDs /\ read[c] \subseteq IDs
      BY DEF Saved, TypeOK, IDs
    <3>2. \A i \in read'[c] : Hides(i)
      BY <2>1 DEF SilentInv, CheckFits
    <3> QED
      BY <1>2, <2>1, <3>1, <3>2
  <2>3. Fits(c)' /\ Unfound(c)'
    BY <1>1, <2>1, StillAccounted DEF SilentInv, CheckFits
  <2>4. CheckFits(c)'
    BY <2>1, <2>2, <2>3 DEF CheckFits
  <2> QED
    BY <1>6, <2>1, <2>4
<1>13. ASSUME NEW c \in Checks, Fetch(c) PROVE SilentInv'
  <2>1. PICK articles \in SUBSET posted, coded \in BOOLEAN :
          /\ AreNewest(articles) \/ articles = {}
          /\ list' = [list EXCEPT ![c] = <<New(read[c], articles),
                                          [articles |-> articles, coded |-> coded]>>]
    BY <1>13 DEF Fetch, IsFeed
  <2>2. /\ pc' = [pc EXCEPT ![c] = "assign"]
        /\ UNCHANGED <<posted, db, blank, read, excused, found>>
    BY <1>13 DEF Fetch, rowVars, hiding, items
  <2>3. /\ pc'[c] = "assign"
        /\ list'[c][1] = New(read[c], articles) /\ list'[c][2].articles = articles
        /\ \A d \in Checks \ {c} : pc'[d] = pc[d] /\ list'[d] = list[d]
    BY <2>1, <2>2 DEF TypeOK
  <2>4. \A i \in read'[c] : Hides(i)'
    <3>1. \A i \in read[c] : Hides(i) /\ i \in IDs
      BY DEF SilentInv, CheckFits, TypeOK
    <3> QED
      BY <1>2, <2>2, <3>1
  <2>5. Fits(c)'
    BY <2>1, <2>2, <2>3 DEF Fits, AreNewest, OffPage
  <2>6. Unfound(c)'
    <3>1. ASSUME NEW a \in articles \ New(read[c], articles), New(read[c], articles) # Nil
          PROVE  Accounted(a)'
      <4>1. PICK i \in read[c] : ~(Id[a] > i)
        BY <3>1 DEF New
      <4>2. a \in posted' /\ Id[a] <= i
        <5>1. a \in posted /\ a \in Articles /\ read[c] \subseteq IDs
          BY <2>1 DEF TypeOK
        <5>2. Id[a] \in Nat /\ i \in Nat
          BY <5>1, ArticleAlertsAssumption DEF IDs
        <5> QED
          BY <2>2, <4>1, <5>1, <5>2
      <4>3. Hides(i)'
        BY <2>2, <2>4
      <4> QED
        BY <4>2, <4>3 DEF Hides
    <3> QED
      BY <2>3, <3>1 DEF Unfound
  <2>7. CheckFits(c)'
    BY <2>3, <2>4, <2>5, <2>6 DEF CheckFits
  <2> QED
    BY <1>6, <2>2, <2>3, <2>7
<1>14. ASSUME NEW c \in Checks, Assign(c) PROVE SilentInv'
  <2>1. /\ pc'[c] = "test" /\ UNCHANGED <<db, blank, read, list>>
        /\ \A d \in Checks \ {c} : pc'[d] = pc[d]
    BY <1>14 DEF Assign, rowVars, TypeOK
  <2> QED
    BY <1>6, <2>1
<1>15. ASSUME NEW c \in Checks, Test(c) \/ Retest(c) PROVE SilentInv'
  <2>1. pc[c] \in {"test", "retest"} /\ UNCHANGED <<db, blank>>
    BY <1>15 DEF Test, Retest, rowVars
  <2>2. PICK s \in ref[c] :
          \/ ToSave(c, s, "create")
          \/ ToSave(c, s, "save") /\ Some(fresh[s])
          \/ End(c)
    BY <1>15 DEF Test, Retest
  <2>3. fresh[s] = list[c][1] /\ online[s] = list[c][2]
    BY <2>1 DEF StructInv, Assigned
  <2>4. CASE End(c)
    <3>1. /\ pc'[c] = "idle"
          /\ \A d \in Checks \ {c} : pc'[d] = pc[d] /\ read'[d] = read[d] /\ list'[d] = list[d]
      BY <2>4 DEF End, TypeOK
    <3> QED
      BY <1>4, <1>6, <2>1, <2>4, <3>1
  <2>5. ASSUME NEW label, ToSave(c, s, label), label = "save" => Some(fresh[s])
        PROVE  SilentInv'
    <3>1. /\ pc' = [pc EXCEPT ![c] = label] /\ UNCHANGED read
          /\ list' = [list EXCEPT ![c] = <<list[c][1], online[s]>>]
      BY <2>5 DEF ToSave
    <3>2. list[c] = <<list[c][1], list[c][2]>>
      BY DEF TypeOK
    <3>3. \A d \in Checks : list'[d] = list[d] /\ read'[d] = read[d]
      BY <2>3, <3>1, <3>2 DEF TypeOK
    <3>4. pc'[c] = label /\ \A d \in Checks \ {c} : pc'[d] = pc[d]
      BY <3>1 DEF TypeOK
    <3>5. \A d \in Checks : CheckFits(d)'
      <4>1. CheckFits(c)'
        BY <1>3, <2>3, <2>5, <3>3, <3>4
      <4>2. ASSUME NEW d \in Checks \ {c} PROVE CheckFits(d)'
        BY <1>3, <3>3, <3>4, <4>2
      <4> QED
        BY <4>1, <4>2
    <3> QED
      BY <1>5, <2>1, <3>5 DEF SilentInv
  <2> QED
    BY <2>2, <2>4, <2>5
<1>16. ASSUME NEW c \in Checks, Create(c) PROVE SilentInv'
  <2>1. /\ pc'[c] = "retest" /\ UNCHANGED <<posted, read, list>>
        /\ \A d \in Checks \ {c} : pc'[d] = pc[d]
    BY <1>16 DEF Create, TypeOK
  <2>2. UNCHANGED <<db, blank>> \/ Store(list[c][2], list[c][2].articles)
    BY <1>16 DEF Create, rowVars
  <2>3. UNCHANGED <<db, blank>> \/ \A i \in Saved' : Hides(i)'
    BY <1>1, <2>1, <2>2, StoreHides
  <2> QED
    BY <1>6, <2>1, <2>3
<1>17. ASSUME NEW c \in Checks, Save(c) PROVE SilentInv'
  <2>1. /\ pc[c] = "save" /\ UNCHANGED posted
        /\ \/ pc' = [pc EXCEPT ![c] = "enqueue"] /\ UNCHANGED <<read, list>>
           \/ End(c)
    BY <1>17 DEF Save
  <2>2. /\ pc'[c] # "save"
        /\ \A d \in Checks \ {c} : pc'[d] = pc[d] /\ read'[d] = read[d] /\ list'[d] = list[d]
    BY <2>1 DEF End, TypeOK
  <2>3. list[c][1] # Nil /\ Unfound(c) /\ list[c][2].articles \subseteq Articles
    BY <2>1 DEF SilentInv, CheckFits, Some, Fits, TypeOK
  <2>4. \A a \in list[c][2].articles : a \in list[c][1] \/ Accounted(a)'
    BY <1>1, <2>3, StillAccounted DEF Unfound
  <2>5. ASSUME Store(list[c][2], {}), Number(c), found' = found \union Finds(c)
        PROVE  \A i \in Saved' : Hides(i)'
    <3>1. ASSUME NEW a \in list[c][2].articles PROVE a \in {} \/ Accounted(a)'
      <4>1. CASE a \in list[c][1]
        <5>1. saves + 1 \in Numbers /\ <<saves + 1, a>> \in Finds(c)
          BY <2>3, <2>5, <4>1, FindsType, ArticleAlertsAssumption DEF Finds, Nil
        <5> QED
          BY <2>5, <5>1 DEF Accounted, WasFound
      <4> QED
        BY <2>4, <4>1
    <3> QED
      BY <1>1, <2>1, <2>5, <3>1, StoreHides
  <2>6. ASSUME Store(list[c][2], list[c][1] \ Nil) PROVE \A i \in Saved' : Hides(i)'
    <3>1. \A a \in list[c][2].articles : a \in list[c][1] \ Nil \/ Accounted(a)'
      BY <2>3, <2>4, ArticleAlertsAssumption DEF Nil
    <3> QED
      BY <1>1, <2>1, <2>6, <3>1, StoreHides
  <2>7. UNCHANGED <<db, blank>> \/ \A i \in Saved' : Hides(i)'
    BY <1>17, <2>5, <2>6 DEF Save, rowVars
  <2> QED
    BY <1>4, <1>6, <2>1, <2>2, <2>7
<1>18. ASSUME NEW c \in Checks, Enqueue(c) PROVE SilentInv'
  <2>1. End(c) /\ UNCHANGED <<db, blank>>
    BY <1>18 DEF Enqueue, rowVars
  <2>2. /\ pc'[c] = "idle"
        /\ \A d \in Checks \ {c} : pc'[d] = pc[d] /\ read'[d] = read[d] /\ list'[d] = list[d]
    BY <2>1 DEF End, TypeOK
  <2> QED
    BY <1>4, <1>6, <2>1, <2>2
<1>19. ASSUME NEW s \in Structs, NEW w \in Watches, Match(s, w) PROVE SilentInv'
  BY <1>7, <1>19 DEF Match, rowVars, checkVars
<1>20. ASSUME NEW l \in Loops, Work(l) \/ Stop(l) \/ Run(l) PROVE SilentInv'
  BY <1>7, <1>20 DEF Work, Dispatch, Receive, Deliver, Stop, Run, rowVars, checkVars
<1>21. CASE Restart
  <2>1. UNCHANGED <<db, blank>>
    BY <1>21 DEF Restart, rowVars
  <2>2. ASSUME NEW c \in Checks PROVE CheckFits(c)'
    <3>1. pc'[c] = "idle" /\ read'[c] = {} /\ list'[c] = <<Nil, NoPage>>
      BY <1>21 DEF Restart
    <3> QED
      BY <3>1 DEF CheckFits, Fits, Unfound, NoPage
  <2> QED
    BY <1>5, <2>1, <2>2 DEF SilentInv
<1>22. CASE UNCHANGED vars
  BY <1>7, <1>22 DEF vars, rowVars, checkVars
<1> QED
  BY <1>8, <1>9, <1>10, <1>11, <1>12, <1>13, <1>14, <1>15, <1>16, <1>17, <1>18, <1>19,
     <1>20, <1>21, <1>22
  DEF Next, Check

\* The invariant, from the first state on.
LEMMA NothingHidden == ASSUME High = {} PROVE Spec => []SilentInv
<1>1. Init => SilentInv
  <2> SUFFICES ASSUME Init PROVE SilentInv
    OBVIOUS
  <2>1. Saved = {}
    BY DEF Init, Saved
  <2>2. ASSUME NEW c \in Checks PROVE CheckFits(c)
    <3>1. pc[c] = "idle" /\ read[c] = {} /\ list[c] = <<Nil, NoPage>>
      BY DEF Init
    <3> QED
      BY <3>1 DEF CheckFits, Fits, Unfound, NoPage
  <2> QED
    BY <2>1, <2>2 DEF SilentInv
<1>2. TypeOK /\ StructInv /\ SilentInv /\ [Next]_vars => SilentInv'
  BY SilentKept
<1> QED
  BY <1>1, <1>2, TypeCorrect, StructsAndKnown, PTL DEF Spec

\* An article that no check can find any more was found, or a named step hid it, or
\* it has a twin, if no two checks share a struct: whatever the other writers,
\* failures, Stops and restarts, and however checks overlap.
THEOREM NoneHidden == High = {} => (Spec => []NoneSilent)
<1> SUFFICES ASSUME High = {} PROVE Spec => []NoneSilent
  OBVIOUS
<1>1. SilentInv => NoneSilent
  BY DEF SilentInv, Hides, Accounted, NoneSilent
<1> QED
  BY <1>1, NothingHidden, PTL

-----------------------------------------------------------------------------
(***************************************************************************)
(* Which articles are found again.                                         *)
(***************************************************************************)
\* Found articles have a row, but for those whose row does not tell.
HaveRows == \A i \in found : i[1] <= saves /\ (i[2] \in loose \/ i[2] \in db)

\* A check that has read anything has read all found before.
Remembers(c) ==
  \/ read[c] = {}
  \/ \A i \in found : i[1] <= since[c] => i[2] \in loose \/ Id[i[2]] \in read[c]

\* What it takes for new is on the page, and newer than all it has read.
Newer(c) ==
  \/ list[c][1] = Nil
  \/ /\ read[c] # {}
     /\ list[c][1] \subseteq list[c][2].articles
     /\ \A a \in list[c][1], i \in read[c] : Id[a] > i

Remembered(c) ==
  /\ since[c] <= saves
  /\ pc[c] = "idle" => read[c] = {}
  /\ Remembers(c) /\ Newer(c)

AgainInv == HaveRows /\ \A c \in Checks : Remembered(c)

\* No check takes for new what it has read.
LEMMA AgainKept ==
  ASSUME TypeOK, StructInv, SilentInv, AgainInv, [Next]_vars
  PROVE  AgainInv'
<1>0. /\ saves \in Int /\ MaxSaves \in Nat
      /\ \A c \in Checks : since[c] \in Int
      /\ \A i \in found : i[1] \in Int
  BY ArticleAlertsAssumption DEF TypeOK, Items, Numbers
<1>1. ASSUME NEW c \in Checks, UNCHANGED <<saves, found>>, loose \subseteq loose',
             since'[c] = since[c], read'[c] = read[c], list'[c] = list[c],
             pc'[c] = "idle" => pc[c] = "idle"
      PROVE  Remembered(c)'
  BY <1>1 DEF AgainInv, Remembered, Remembers, Newer
<1>2. ASSUME NEW c \in Checks, End(c), saves' \in Nat PROVE Remembered(c)'
  <2>1. pc'[c] = "idle" /\ read'[c] = {} /\ list'[c] = <<Nil, NoPage>> /\ since'[c] = 0
    BY <1>2 DEF End, TypeOK
  <2> QED
    BY <1>2, <2>1 DEF Remembered, Remembers, Newer
<1>3. ASSUME UNCHANGED <<saves, found>>, loose \subseteq loose',
             \A a \in db : a \in db' \/ a \in loose'
      PROVE  HaveRows'
  BY <1>3 DEF AgainInv, HaveRows
<1>4. ASSUME NEW c \in Checks, UNCHANGED <<saves, found>>, loose \subseteq loose',
             db \subseteq db', Remembered(c)',
             \A d \in Checks \ {c} : /\ pc'[d] = pc[d] /\ read'[d] = read[d]
                                     /\ list'[d] = list[d] /\ since'[d] = since[d]
      PROVE  AgainInv'
  <2>1. HaveRows'
    BY <1>3, <1>4
  <2>2. ASSUME NEW d \in Checks PROVE Remembered(d)'
    <3>1. CASE d = c
      BY <1>4, <3>1
    <3>2. CASE d # c
      <4>1. /\ pc'[d] = pc[d] /\ read'[d] = read[d]
            /\ list'[d] = list[d] /\ since'[d] = since[d]
        BY <1>4, <3>2
      <4> QED
        BY <1>1, <1>4, <4>1
    <3> QED
      BY <3>1, <3>2
  <2> QED
    BY <2>1, <2>2 DEF AgainInv
<1>5. ASSUME UNCHANGED <<saves, found, pc, read, list, since>>, loose \subseteq loose',
             \A a \in db : a \in db' \/ a \in loose'
      PROVE  AgainInv'
  BY <1>1, <1>3, <1>5 DEF AgainInv
<1>6. ASSUME NEW a \in Articles, Post(a) \/ SaveElsewhere(a) \/ Destroy(a) PROVE AgainInv'
  BY <1>5, <1>6
  DEF Post, SaveElsewhere, Destroy, OnlyRows, rowVars, checkVars, items, hiding
<1>7. ASSUME NEW i \in IDs, OtherBoard(i) PROVE AgainInv'
  BY <1>5, <1>7 DEF OtherBoard, OnlyRows, checkVars, items
<1>8. ASSUME NEW c \in Checks, NEW s \in Structs, ReadSaved(c, s) PROVE AgainInv'
  <2>1. /\ pc[c] = "idle" /\ UNCHANGED <<saves, found, db, list, loose>>
        /\ pc'[c] = "fetch" /\ since'[c] = saves
        /\ \A d \in Checks \ {c} : pc'[d] = pc[d] /\ read'[d] = read[d] /\ since'[d] = since[d]
    BY <1>8 DEF ReadSaved, rowVars, hiding, TypeOK
  <2>2. read'[c] = Saved \/ read'[c] = {}
    BY <1>8, <2>1 DEF ReadSaved, AgainInv, Remembered, TypeOK
  <2>3. list'[c][1] = Nil
    BY <2>1 DEF AgainInv, Remembered, Newer
  <2>4. Remembers(c)'
    BY <2>1, <2>2 DEF AgainInv, HaveRows, Remembers, Saved
  <2>5. Remembered(c)'
    BY <1>0, <2>1, <2>3, <2>4 DEF Remembered, Newer
  <2> QED
    BY <1>4, <2>1, <2>5
<1>9. ASSUME NEW c \in Checks, Fetch(c) PROVE AgainInv'
  <2>1. PICK articles \in SUBSET posted, coded \in BOOLEAN :
          list' = [list EXCEPT ![c] = <<New(read[c], articles),
                                        [articles |-> articles, coded |-> coded]>>]
    BY <1>9 DEF Fetch
  <2>2. /\ pc' = [pc EXCEPT ![c] = "assign"]
        /\ UNCHANGED <<saves, found, db, read, since, loose>>
    BY <1>9 DEF Fetch, rowVars, hiding, items
  <2>3. /\ pc'[c] = "assign"
        /\ list'[c][1] = New(read[c], articles) /\ list'[c][2].articles = articles
        /\ \A d \in Checks \ {c} : pc'[d] = pc[d] /\ list'[d] = list[d]
    BY <2>1, <2>2 DEF TypeOK
  <2>4. Newer(c)'
    BY <2>2, <2>3 DEF Newer, New
  <2>5. Remembered(c)'
    BY <2>2, <2>3, <2>4 DEF AgainInv, Remembered, Remembers
  <2> QED
    BY <1>4, <2>2, <2>3, <2>5
<1>10. ASSUME NEW c \in Checks, Assign(c) PROVE AgainInv'
  <2>1. /\ pc'[c] = "test" /\ UNCHANGED <<saves, found, db, read, list, since, loose>>
        /\ \A d \in Checks \ {c} : pc'[d] = pc[d]
    BY <1>10 DEF Assign, rowVars, items, hiding, TypeOK
  <2> QED
    BY <1>1, <1>4, <2>1
<1>11. ASSUME NEW c \in Checks, Test(c) \/ Retest(c) PROVE AgainInv'
  <2>1. pc[c] \in {"test", "retest"} /\ UNCHANGED <<saves, found, db, loose>>
    BY <1>11 DEF Test, Retest, rowVars, items, hiding
  <2>2. PICK s \in ref[c], label \in {"create", "save"} : ToSave(c, s, label) \/ End(c)
    BY <1>11 DEF Test, Retest
  <2>3. CASE End(c)
    <3>1. \A d \in Checks \ {c} : /\ pc'[d] = pc[d] /\ read'[d] = read[d]
                                  /\ list'[d] = list[d] /\ since'[d] = since[d]
      BY <2>3 DEF End, TypeOK
    <3>2. saves' \in Nat
      BY <2>1 DEF TypeOK
    <3> QED
      BY <1>2, <1>4, <2>1, <2>3, <3>1, <3>2
  <2>4. CASE ToSave(c, s, label)
    <3>1. online[s] = list[c][2]
      BY <2>1 DEF StructInv, Assigned
    <3>2. /\ pc'[c] = label /\ UNCHANGED <<read, since>>
          /\ list'[c] = <<list[c][1], online[s]>>
          /\ \A d \in Checks \ {c} : pc'[d] = pc[d] /\ list'[d] = list[d]
      BY <2>4 DEF ToSave, TypeOK
    <3>3. list'[c] = list[c]
      BY <3>1, <3>2 DEF TypeOK
    <3> QED
      BY <1>1, <1>4, <2>1, <3>2, <3>3
  <2> QED
    BY <2>2, <2>3, <2>4
<1>12. ASSUME NEW page, NEW gone, Store(page, gone) PROVE db \subseteq db'
  BY <1>12 DEF Store
<1>13. ASSUME NEW c \in Checks, Create(c) PROVE AgainInv'
  <2>1. /\ pc'[c] = "retest" /\ UNCHANGED <<saves, found, read, list, since, loose>>
        /\ \A d \in Checks \ {c} : pc'[d] = pc[d]
    BY <1>13 DEF Create, items, TypeOK
  <2>2. db \subseteq db'
    BY <1>12, <1>13 DEF Create, rowVars
  <2> QED
    BY <1>1, <1>4, <2>1, <2>2
<1>14. ASSUME NEW c \in Checks, Save(c) PROVE AgainInv'
  <2>1. CASE End(c) /\ UNCHANGED <<saves, found, loose>> /\ db \subseteq db'
    <3>1. \A d \in Checks \ {c} : /\ pc'[d] = pc[d] /\ read'[d] = read[d]
                                  /\ list'[d] = list[d] /\ since'[d] = since[d]
      BY <2>1 DEF End, TypeOK
    <3>2. saves' \in Nat
      BY <2>1 DEF TypeOK
    <3> QED
      BY <1>2, <1>4, <2>1, <3>1, <3>2
  <2>2. CASE /\ Store(list[c][2], {}) /\ Number(c) /\ found' = found \union Finds(c)
             /\ loose' = IF list[c][2].coded THEN loose ELSE loose \union (list[c][1] \ Nil)
             /\ pc' = [pc EXCEPT ![c] = "enqueue"] /\ UNCHANGED <<read, list, since>>
             /\ pc[c] = "save"
    <3>1. db \subseteq db' /\ loose \subseteq loose' /\ saves' = saves + 1
      BY <1>12, <2>2 DEF Number
    <3>2. \A i \in found' : i \in found \/ (i[1] = saves + 1 /\ i[2] \in list[c][1] \ Nil)
      BY <2>2 DEF Finds
    <3>3. ASSUME NEW a \in list[c][1] \ Nil PROVE a \in loose' \/ a \in db'
      <4>1. a \in list[c][2].articles
        BY <3>3 DEF AgainInv, Remembered, Newer
      <4>2. list[c][2].coded => db' = db \union list[c][2].articles
        BY <2>2 DEF Store
      <4> QED
        BY <2>2, <4>1, <4>2
    <3>4. HaveRows'
      BY <1>0, <3>1, <3>2, <3>3 DEF AgainInv, HaveRows
    <3>5. ASSUME NEW d \in Checks PROVE Remembered(d)'
      <4>1. since'[d] <= saves'
        BY <1>0, <2>2, <3>1 DEF AgainInv, Remembered
      <4>2. pc'[d] = "idle" => pc[d] = "idle"
        BY <2>2 DEF TypeOK
      <4>3. \A i \in found' : i[1] <= since'[d] => i \in found
        BY <1>0, <2>2, <3>2 DEF AgainInv, Remembered
      <4>4. Remembers(d)'
        BY <2>2, <3>1, <4>3 DEF AgainInv, Remembered, Remembers
      <4>5. Newer(d)'
        BY <2>2 DEF AgainInv, Remembered, Newer
      <4> QED
        BY <2>2, <4>1, <4>2, <4>4, <4>5 DEF AgainInv, Remembered
    <3> QED
      BY <3>4, <3>5 DEF AgainInv
  <2> QED
    BY <1>12, <1>14, <2>1, <2>2 DEF Save, rowVars
<1>15. ASSUME NEW c \in Checks, Enqueue(c) PROVE AgainInv'
  <2>1. End(c) /\ UNCHANGED <<saves, found, db, loose>>
    BY <1>15 DEF Enqueue, rowVars, items, hiding
  <2>2. \A d \in Checks \ {c} : /\ pc'[d] = pc[d] /\ read'[d] = read[d]
                                /\ list'[d] = list[d] /\ since'[d] = since[d]
    BY <2>1 DEF End, TypeOK
  <2>3. saves' \in Nat
    BY <2>1 DEF TypeOK
  <2> QED
    BY <1>2, <1>4, <2>1, <2>2, <2>3
<1>16. ASSUME NEW s \in Structs, NEW w \in Watches, Match(s, w) PROVE AgainInv'
  BY <1>5, <1>16 DEF Match, rowVars, checkVars, items, hiding
<1>17. ASSUME NEW l \in Loops, Work(l) \/ Stop(l) \/ Run(l) PROVE AgainInv'
  BY <1>5, <1>17 DEF Work, Dispatch, Receive, Deliver, Stop, Run, rowVars, checkVars,
                     items, hiding
<1>18. CASE Restart
  <2>1. UNCHANGED <<saves, found, db, loose>>
    BY <1>18 DEF Restart, rowVars, hiding
  <2>2. HaveRows'
    BY <1>3, <2>1
  <2>3. ASSUME NEW c \in Checks PROVE Remembered(c)'
    <3>1. pc'[c] = "idle" /\ read'[c] = {} /\ list'[c] = <<Nil, NoPage>> /\ since'[c] = 0
      BY <1>18 DEF Restart
    <3>2. 0 <= saves'
      BY <2>1 DEF TypeOK
    <3> QED
      BY <3>1, <3>2 DEF Remembered, Remembers, Newer
  <2> QED
    BY <2>2, <2>3 DEF AgainInv
<1>19. CASE UNCHANGED vars
  BY <1>5, <1>19 DEF vars, rowVars, checkVars, items, hiding
<1> QED
  BY <1>6, <1>7, <1>8, <1>9, <1>10, <1>11, <1>13, <1>14, <1>15, <1>16, <1>17, <1>18, <1>19
  DEF Next, Check

\* The invariant, from the first state on.
LEMMA FoundOnceInv == ASSUME High = {} PROVE Spec => []AgainInv
<1>1. Init => AgainInv
  <2> SUFFICES ASSUME Init PROVE AgainInv
    OBVIOUS
  <2>1. found = {} /\ saves = 0
    BY DEF Init
  <2>2. ASSUME NEW c \in Checks PROVE Remembered(c)
    <3>1. since[c] = 0 /\ read[c] = {} /\ list[c] = <<Nil, NoPage>>
      BY DEF Init
    <3> QED
      BY <2>1, <3>1 DEF Remembered, Remembers, Newer
  <2> QED
    BY <2>1, <2>2 DEF AgainInv, HaveRows
<1>2. TypeOK /\ StructInv /\ SilentInv /\ AgainInv /\ [Next]_vars => AgainInv'
  BY AgainKept
<1> QED
  BY <1>1, <1>2, TypeCorrect, StructsAndKnown, NothingHidden, PTL DEF Spec

\* What a check declares found, no check had found that saved before this one read,
\* but for articles found on a page without codes and those whose row was deleted,
\* if no two checks share a struct.
THEOREM FoundOnce == High = {} => (Spec => []FoundAgain)
<1> SUFFICES ASSUME High = {} PROVE Spec => []FoundAgain
  OBVIOUS
<1>1. TypeOK /\ SilentInv /\ AgainInv => FoundAgain
  <2> SUFFICES ASSUME TypeOK, SilentInv, AgainInv,
                      NEW c \in Checks, pc[c] = "save",
                      NEW i \in found, i[1] <= since[c], i[2] \in list[c][1]
               PROVE  i[2] \in loose
    BY DEF FoundAgain
  <2>1. list[c][1] # Nil
    BY DEF SilentInv, CheckFits, Some
  <2>2. Remembers(c) /\ Newer(c)
    BY DEF AgainInv, Remembered
  <2>3. i[2] \in loose \/ Id[i[2]] \in read[c]
    BY <2>1, <2>2 DEF Remembers, Newer
  <2>4. Id[i[2]] \in read[c] => Id[i[2]] > Id[i[2]]
    BY <2>1, <2>2 DEF Newer
  <2>5. Id[i[2]] \in Nat
    BY ArticleAlertsAssumption DEF TypeOK, Items
  <2> QED
    BY <2>3, <2>4, <2>5
<1> QED
  BY <1>1, TypeCorrect, NothingHidden, FoundOnceInv, PTL

-----------------------------------------------------------------------------
(***************************************************************************)
(* A finding is in one place only on its way to a subscription: in one     *)
(* struct that waits to be matched, in one alert, or alerted.  Overlapping *)
(* checks can find an article twice, but each save has a number of its     *)
(* own.                                                                    *)
(***************************************************************************)
\* The struct waits for the subscription to be matched with it.
Waiting(s, w) ==
  \/ \E c \in Checks : pc[c] = "enqueue" /\ s \in ref[c]
  \/ InQueue(s)
  \/ match[<<s, w>>] > 0

\* The alert waits for a loop, or for the worker of one.
Out(x) == sending[x] > 0 \/ \E l \in Loops : x \in held[l]

\* No struct waits twice, and no alert.
OneCopy ==
  /\ \A i, j \in 1..Len(queue) : queue[i] = queue[j] => i = j
  /\ \A s \in Structs, w \in Watches :
       match[<<s, w>>] <= 1 /\ (InQueue(s) => match[<<s, w>>] = 0)
  /\ \A x \in Alert : /\ sending[x] <= 1
                      /\ sending[x] > 0 => \A l \in Loops : x \notin held[l]
                      /\ \A k, l \in Loops : x \in held[k] /\ x \in held[l] => k = l

\* No two of the places on the way to the subscription hold the same article.
OnePlace(w) ==
  /\ \A s, t \in Structs :
       Waiting(s, w) /\ Waiting(t, w) /\ s # t => FreshOf(s) \intersect FreshOf(t) = {}
  /\ \A s \in Structs, x \in Alert :
       Waiting(s, w) /\ Out(x) /\ x[1] = w => FreshOf(s) \intersect Carried(x) = {}
  /\ \A x, y \in Alert :
       Out(x) /\ Out(y) /\ x[1] = w /\ y[1] = w /\ x # y => Carried(x) \intersect Carried(y) = {}
  /\ \A i \in Items :
       /\ alerts[<<w, i>>] <= 1
       /\ alerts[<<w, i>>] > 0 => /\ \A s \in Structs : Waiting(s, w) => i \notin FreshOf(s)
                                  /\ \A x \in Alert : Out(x) /\ x[1] = w => i \notin Carried(x)

\* No step makes a second copy of a struct or an alert.
LEMMA OneCopyKept ==
  ASSUME TypeOK, StructInv, OneCopy, \A w \in Watches : OnePlace(w),
         [Next]_vars
  PROVE  OneCopy'
<1>1. ASSUME queue' = queue \/ queue' = <<>>,
             UNCHANGED match \/ \A s \in Structs, w \in Watches : match'[<<s, w>>] = 0,
             UNCHANGED <<sending, held>>
               \/ (/\ \A x \in Alert : sending'[x] = 0
                   /\ \A l \in Loops : held'[l] = {})
      PROVE  OneCopy'
  <2>1. Len(<<>>) = 0
    OBVIOUS
  <2>2. \A s : InQueue(s)' => InQueue(s)
    BY <1>1, <2>1 DEF InQueue
  <2>3. \A i, j \in 1..Len(queue') : queue'[i] = queue'[j] => i = j
    BY <1>1, <2>1 DEF OneCopy
  <2>4. ASSUME NEW s \in Structs, NEW w \in Watches
        PROVE  match'[<<s, w>>] <= 1 /\ (InQueue(s)' => match'[<<s, w>>] = 0)
    <3>1. CASE UNCHANGED match
      BY <2>2, <3>1 DEF OneCopy
    <3>2. CASE match'[<<s, w>>] = 0
      BY <3>2
    <3> QED
      BY <1>1, <3>1, <3>2
  <2>5. ASSUME NEW x \in Alert
        PROVE  /\ sending'[x] <= 1
               /\ sending'[x] > 0 => \A l \in Loops : x \notin held'[l]
               /\ \A k, l \in Loops : x \in held'[k] /\ x \in held'[l] => k = l
    <3>1. CASE UNCHANGED <<sending, held>>
      BY <3>1 DEF OneCopy
    <3>2. CASE sending'[x] = 0 /\ \A l \in Loops : held'[l] = {}
      BY <3>2
    <3> QED
      BY <1>1, <3>1, <3>2
  <2> QED
    BY <2>3, <2>4, <2>5 DEF OneCopy
<1>2. ASSUME NEW c \in Checks, Enqueue(c) PROVE OneCopy'
  <2>1. PICK s \in ref[c] : queue' = Append(queue, s)
    BY <1>2 DEF Enqueue
  <2>2. s \in Structs /\ queue \in Seq(Structs) /\ UNCHANGED <<match, sending, held>>
    BY <1>2, <2>1 DEF Enqueue, TypeOK
  <2>3. ~InQueue(s) /\ \A w \in Watches : ~(match[<<s, w>>] > 0)
    BY <2>1 DEF StructInv, Owned, Passed
  <2>4. ASSUME NEW t \in Structs PROVE InQueue(t)' <=> (t = s \/ InQueue(t))
    BY <2>1, <2>2, SentToQueue DEF InQueue
  <2>5. \A i, j \in 1..Len(queue') : queue'[i] = queue'[j] => i = j
    <3>1. /\ Len(queue') = Len(queue) + 1 /\ Len(queue) \in Nat
          /\ queue'[Len(queue) + 1] = s
          /\ \A i \in 1..Len(queue) : queue'[i] = queue[i]
      BY <2>1, <2>2
    <3>2. \A i \in 1..Len(queue) : queue'[i] # s
      BY <2>3, <3>1 DEF InQueue
    <3>3. \A i \in 1..Len(queue') : i \in 1..Len(queue) \/ i = Len(queue) + 1
      BY <3>1
    <3> QED
      BY <3>1, <3>2, <3>3 DEF OneCopy
  <2>6. ASSUME NEW t \in Structs, NEW w \in Watches
        PROVE  match[<<t, w>>] <= 1 /\ (InQueue(t)' => match[<<t, w>>] = 0)
    <3>1. match[<<t, w>>] \in Nat
      BY DEF TypeOK
    <3> QED
      BY <2>3, <2>4, <3>1 DEF OneCopy
  <2> QED
    BY <2>2, <2>5, <2>6 DEF OneCopy
<1>3. ASSUME NEW l \in Loops, Dispatch(l) PROVE OneCopy'
  <2>1. queue # <<>> /\ queue' = Tail(queue) /\ queue \in Seq(Structs) /\ UNCHANGED <<sending, held>>
    BY <1>3 DEF Dispatch, TypeOK
  <2>2. \A s \in Structs, w \in Watches :
          match'[<<s, w>>] = IF s = Head(queue) THEN match[<<s, w>>] + 1 ELSE match[<<s, w>>]
    BY <1>3 DEF Dispatch
  <2>3. /\ Len(queue') = Len(queue) - 1 /\ Len(queue) \in Nat \ {0} /\ Head(queue) = queue[1]
        /\ \A i \in 1..Len(queue') : queue'[i] = queue[i + 1]
    BY <2>1
  <2>4. \A i \in 1..Len(queue') : i + 1 \in 1..Len(queue) /\ i + 1 # 1
    BY <2>3
  <2>5. 1 \in 1..Len(queue)
    BY <2>3
  <2>6. \A i, j \in 1..Len(queue') : queue'[i] = queue'[j] => i = j
    <3>1. \A i, j \in 1..Len(queue') : queue'[i] = queue'[j] => i + 1 = j + 1
      BY <2>3, <2>4 DEF OneCopy
    <3> QED
      BY <3>1
  <2>7. \A i \in 1..Len(queue') : queue'[i] # Head(queue)
    BY <2>3, <2>4, <2>5 DEF OneCopy
  <2>8. ASSUME NEW s \in Structs, NEW w \in Watches
        PROVE  match'[<<s, w>>] <= 1 /\ (InQueue(s)' => match'[<<s, w>>] = 0)
    <3>1. CASE s = Head(queue)
      <4>1. match[<<s, w>>] = 0
        BY <2>3, <2>5, <3>1 DEF OneCopy, InQueue
      <4>2. ~InQueue(s)'
        BY <2>7, <3>1 DEF InQueue
      <4> QED
        BY <2>2, <3>1, <4>1, <4>2
    <3>2. CASE s # Head(queue)
      <4>1. InQueue(s)' => InQueue(s)
        BY <2>3, <2>4 DEF InQueue
      <4> QED
        BY <2>2, <3>2, <4>1 DEF OneCopy
    <3> QED
      BY <3>1, <3>2
  <2> QED
    BY <2>1, <2>6, <2>8 DEF OneCopy
<1>4. ASSUME NEW s \in Structs, NEW w \in Watches, Match(s, w) PROVE OneCopy'
  <2> DEFINE hits == fresh[s] \intersect Matches[w]
  <2>1. match[<<s, w>>] > 0 /\ UNCHANGED <<queue, held>>
    BY <1>4 DEF Match
  <2>2. \A t \in Structs, v \in Watches :
          match'[<<t, v>>] = match[<<t, v>>] \/ (match[<<t, v>>] = 1 /\ match'[<<t, v>>] = 0)
    <3>1. match[<<s, w>>] = 1
      <4>1. match[<<s, w>>] \in Nat /\ match[<<s, w>>] <= 1
        BY DEF OneCopy, TypeOK
      <4> QED
        BY <2>1, <4>1
    <3>2. \A m \in Structs \X Watches :
            match'[m] = IF m = <<s, w>> THEN match[<<s, w>>] - 1 ELSE match[m]
      BY <1>4 DEF Match, TypeOK
    <3> QED
      BY <3>1, <3>2
  <2>3. ASSUME NEW t \in Structs, NEW v \in Watches
        PROVE  match'[<<t, v>>] <= 1 /\ (InQueue(t)' => match'[<<t, v>>] = 0)
    <3>1. match[<<t, v>>] <= 1 /\ (InQueue(t) => match[<<t, v>>] = 0)
      BY DEF OneCopy
    <3>2. InQueue(t)' <=> InQueue(t)
      BY <2>1 DEF InQueue
    <3>3. \/ match'[<<t, v>>] = match[<<t, v>>]
          \/ match[<<t, v>>] = 1 /\ match'[<<t, v>>] = 0
      BY <2>2
    <3> QED
      BY <3>1, <3>2, <3>3
  <2>4. ASSUME NEW x \in Alert
        PROVE  /\ sending'[x] <= 1
               /\ sending'[x] > 0 => \A l \in Loops : x \notin held[l]
    <3>1. CASE sending'[x] = sending[x]
      BY <3>1 DEF OneCopy
    <3>2. CASE hits # {} /\ x = <<w, hits, tag[s]>> /\ sending'[x] = sending[x] + 1
      <4>1. Waiting(s, w) /\ x[1] = w
        BY <2>1, <3>2 DEF Waiting
      <4>2. NoArticle \notin hits
        BY ArticleAlertsAssumption
      <4>3. FreshOf(s) \intersect Carried(x) # {}
        <5> HIDE DEF hits
        <5>1. PICK a : a \in hits
          BY <3>2
        <5>2. <<tag[s], a>> \in FreshOf(s)
          BY <4>2, <5>1 DEF FreshOf, Nil, hits
        <5>3. <<tag[s], a>> \in Carried(x)
          BY <3>2, <5>1 DEF Carried
        <5> QED
          BY <5>2, <5>3
      <4>4. ~Out(x)
        BY <4>1, <4>3 DEF OnePlace
      <4>5. ~(sending[x] > 0) /\ \A l \in Loops : x \notin held[l]
        BY <4>4 DEF Out
      <4>6. sending[x] \in Nat
        BY DEF TypeOK
      <4>7. sending'[x] <= 1
        <5> HIDE DEF hits
        <5> QED
          BY <3>2, <4>5, <4>6
      <4> QED
        BY <4>5, <4>7
    <3>3. \/ sending' = sending
          \/ hits # {} /\ sending' = [sending EXCEPT ![<<w, hits, tag[s]>>] = @ + 1]
      BY <1>4 DEF Match
    <3> HIDE DEF hits
    <3>4. \/ sending'[x] = sending[x]
          \/ hits # {} /\ x = <<w, hits, tag[s]>> /\ sending'[x] = sending[x] + 1
      BY <3>3 DEF TypeOK
    <3> QED
      BY <3>1, <3>2, <3>4
  <2> QED
    BY <2>1, <2>3, <2>4 DEF OneCopy
<1>5. ASSUME NEW l \in Loops, NEW x \in Alert, Receive(l, x) PROVE OneCopy'
  <2>1. /\ sending[x] > 0 /\ sending' = [sending EXCEPT ![x] = @ - 1]
        /\ held' = [held EXCEPT ![l] = {x}] /\ UNCHANGED <<queue, match>>
    BY <1>5 DEF Receive
  <2>2. sending[x] = 1 /\ \A k \in Loops : x \notin held[k]
    <3>1. sending[x] \in Nat /\ sending[x] <= 1
      BY DEF OneCopy, TypeOK
    <3> QED
      BY <2>1, <3>1 DEF OneCopy
  <2>3. sending'[x] = 0 /\ \A y \in Alert : y # x => sending'[y] = sending[y]
    BY <2>1, <2>2 DEF TypeOK
  <2>4. held'[l] = {x} /\ \A k \in Loops : k # l => held'[k] = held[k]
    BY <2>1 DEF TypeOK
  <2>5. ASSUME NEW y \in Alert
        PROVE  /\ sending'[y] <= 1
               /\ sending'[y] > 0 => \A k \in Loops : y \notin held'[k]
               /\ \A k, m \in Loops : y \in held'[k] /\ y \in held'[m] => k = m
    <3>1. CASE y = x
      BY <2>2, <2>3, <2>4, <3>1
    <3>2. CASE y # x
      <4>1. \A k \in Loops : y \in held'[k] => y \in held[k]
        BY <2>4, <3>2
      <4>2. sending'[y] = sending[y]
        BY <2>3, <3>2
      <4> QED
        BY <4>1, <4>2 DEF OneCopy
    <3> QED
      BY <3>1, <3>2
  <2>6. \A t \in Structs, v \in Watches :
          match'[<<t, v>>] <= 1 /\ (InQueue(t)' => match'[<<t, v>>] = 0)
    BY <2>1 DEF OneCopy, InQueue
  <2> QED
    BY <2>1, <2>5, <2>6 DEF OneCopy
<1>6. ASSUME NEW l \in Loops, Deliver(l) PROVE OneCopy'
  <2>1. held' = [held EXCEPT ![l] = {}] /\ UNCHANGED <<queue, match, sending>>
    BY <1>6 DEF Deliver
  <2>2. \A k \in Loops : held'[k] \subseteq held[k]
    BY <2>1 DEF TypeOK
  <2> QED
    BY <2>1, <2>2 DEF OneCopy, InQueue
<1>7. ASSUME NEW l \in Loops, Stop(l) \/ Run(l) PROVE OneCopy'
  BY <1>1, <1>7 DEF Stop, Run
<1>8. ASSUME NEW a \in Articles, Post(a) \/ SaveElsewhere(a) \/ Destroy(a) PROVE OneCopy'
  BY <1>1, <1>8 DEF Post, SaveElsewhere, Destroy, OnlyRows, loopVars
<1>12. ASSUME NEW i \in IDs, OtherBoard(i) PROVE OneCopy'
  BY <1>1, <1>12 DEF OtherBoard, OnlyRows, loopVars
<1>9. ASSUME NEW c \in Checks,
             \/ \E s \in Structs : ReadSaved(c, s)
             \/ Fetch(c) \/ Assign(c) \/ Test(c) \/ Create(c) \/ Retest(c) \/ Save(c)
      PROVE  OneCopy'
  <2>1. UNCHANGED <<queue, match, sending, held>>
    BY <1>9 DEF ReadSaved, Fetch, Assign, Test, Create, Retest, Save, loopVars
  <2> QED
    BY <1>1, <2>1
<1>10. CASE Restart
  <2>1. queue' = <<>>
    BY <1>10 DEF Restart
  <2>2. \A s \in Structs, w \in Watches : match'[<<s, w>>] = 0
    BY <1>10 DEF Restart
  <2>3. /\ \A x \in Alert : sending'[x] = 0
        /\ \A l \in Loops : held'[l] = {}
    BY <1>10 DEF Restart
  <2> QED
    BY <1>1, <2>1, <2>2, <2>3
<1>11. CASE UNCHANGED vars
  BY <1>1, <1>11 DEF vars, loopVars
<1> QED
  BY <1>2, <1>3, <1>4, <1>5, <1>6, <1>7, <1>8, <1>9, <1>10, <1>11, <1>12
  DEF Next, Check, Work

\* No step puts an article into a second place.
LEMMA OnePlaceKept ==
  ASSUME High = {}, TypeOK, StructInv, Known, HaveRows, OneCopy, [Next]_vars,
         NEW w \in Watches, OnePlace(w)
  PROVE  OnePlace(w)'
\* Nothing new waits.
<1>1. ASSUME UNCHANGED alerts,
             \A s \in Structs : Waiting(s, w)' => Waiting(s, w) /\ FreshOf(s)' = FreshOf(s),
             \A x \in Alert : x[1] = w => (Out(x)' => Out(x))
      PROVE  OnePlace(w)'
  BY <1>1 DEF OnePlace
<1>2. ASSUME UNCHANGED <<queue, match, sending, held, alerts>>,
             \A d \in Checks : pc'[d] = "enqueue" => pc[d] = "enqueue" /\ ref'[d] = ref[d],
             \A s \in Structs : Waiting(s, w) => FreshOf(s)' = FreshOf(s)
      PROVE  OnePlace(w)'
  <2>1. \A s \in Structs : Waiting(s, w)' => Waiting(s, w)
    BY <1>2 DEF Waiting, InQueue
  <2>2. \A x : Out(x)' => Out(x)
    BY <1>2 DEF Out
  <2> QED
    BY <1>1, <1>2, <2>1, <2>2
<1>3. ASSUME NEW a \in Articles, Post(a) \/ SaveElsewhere(a) \/ Destroy(a) PROVE OnePlace(w)'
  <2>1. UNCHANGED <<fresh, tag, pc, ref, queue, match, sending, held, alerts>>
    BY <1>3 DEF Post, SaveElsewhere, Destroy, OnlyRows, structVars, checkVars, loopVars, items
  <2> QED
    BY <1>2, <2>1 DEF FreshOf
<1>16. ASSUME NEW i \in IDs, OtherBoard(i) PROVE OnePlace(w)'
  <2>1. UNCHANGED <<fresh, tag, pc, ref, queue, match, sending, held, alerts>>
    BY <1>16 DEF OtherBoard, OnlyRows, structVars, checkVars, loopVars, items
  <2> QED
    BY <1>2, <2>1 DEF FreshOf
<1>17. ASSUME NEW c \in Checks, NEW s \in Structs, ReadSaved(c, s) PROVE OnePlace(w)'
  <2>1. /\ pc[c] = "idle"
        /\ pc' = [pc EXCEPT ![c] = "fetch"] /\ ref' = [ref EXCEPT ![c] = {s}]
        /\ UNCHANGED <<queue, match, sending, held, alerts>>
    BY <1>17 DEF ReadSaved, loopVars
  <2>2. \/ UNCHANGED <<fresh, tag>>
        \/ /\ ~Used(s)
           /\ fresh' = [fresh EXCEPT ![s] = Nil] /\ tag' = [tag EXCEPT ![s] = 0]
    BY <1>17 DEF ReadSaved, structVars
  <2>3. \A d \in Checks : pc'[d] = "enqueue" => pc[d] = "enqueue" /\ ref'[d] = ref[d]
    BY <2>1 DEF TypeOK
  <2>4. ASSUME NEW t \in Structs, Waiting(t, w) PROVE FreshOf(t)' = FreshOf(t)
    <3>1. CASE UNCHANGED <<fresh, tag>>
      BY <3>1 DEF FreshOf
    <3>2. CASE t = s /\ ~Used(s)
      BY <2>4, <3>2 DEF Used, Waiting
    <3>3. CASE t # s /\ fresh' = [fresh EXCEPT ![s] = Nil] /\ tag' = [tag EXCEPT ![s] = 0]
      BY <3>3 DEF FreshOf, TypeOK
    <3> QED
      BY <2>2, <3>1, <3>2, <3>3
  <2> QED
    BY <1>2, <2>1, <2>3, <2>4
<1>4. ASSUME NEW c \in Checks, Fetch(c) \/ Create(c) PROVE OnePlace(w)'
  <2>1. /\ UNCHANGED <<fresh, tag, ref, queue, match, sending, held, alerts>>
        /\ pc' \in {[pc EXCEPT ![c] = "assign"], [pc EXCEPT ![c] = "retest"]}
    BY <1>4 DEF Fetch, Create, structVars, loopVars, items
  <2>2. \A d \in Checks : pc'[d] = "enqueue" => pc[d] = "enqueue"
    BY <2>1 DEF TypeOK
  <2> QED
    BY <1>2, <2>1, <2>2 DEF FreshOf
<1>5. ASSUME NEW c \in Checks, Assign(c) PROVE OnePlace(w)'
  <2>1. PICK s \in ref[c] : fresh' = [fresh EXCEPT ![s] = list[c][1]]
    BY <1>5 DEF Assign
  <2>2. /\ pc[c] = "assign" /\ pc' = [pc EXCEPT ![c] = "test"]
        /\ UNCHANGED <<tag, ref, queue, match, sending, held, alerts>>
    BY <1>5 DEF Assign, loopVars, items
  <2>3. ~Waiting(s, w)
    BY <2>1, <2>2 DEF StructInv, Owned, Passed, Waiting
  <2>4. \A t \in Structs : t = s \/ FreshOf(t)' = FreshOf(t)
    BY <2>1, <2>2 DEF FreshOf, TypeOK
  <2>5. \A d \in Checks : pc'[d] = "enqueue" => pc[d] = "enqueue" /\ ref'[d] = ref[d]
    BY <2>2 DEF TypeOK
  <2> QED
    BY <1>2, <2>2, <2>3, <2>4, <2>5
<1>6. ASSUME NEW c \in Checks, Test(c) \/ Retest(c) PROVE OnePlace(w)'
  <2>1. PICK s \in ref[c], label \in {"create", "save"} : ToSave(c, s, label) \/ End(c)
    BY <1>6 DEF Test, Retest
  <2>2. \A d \in Checks : pc'[d] = "enqueue" => pc[d] = "enqueue" /\ ref'[d] = ref[d]
    BY <2>1 DEF ToSave, End, TypeOK
  <2>3. UNCHANGED <<fresh, tag, queue, match, sending, held, alerts>>
    BY <1>6 DEF Test, Retest, structVars, loopVars, items
  <2> QED
    BY <1>2, <2>2, <2>3 DEF FreshOf
<1>7. ASSUME NEW c \in Checks, Save(c) PROVE OnePlace(w)'
  <2>1. pc[c] = "save" /\ UNCHANGED <<fresh, queue, match, sending, held, alerts>>
    BY <1>7 DEF Save, structVars, loopVars
  <2>2. CASE End(c) /\ UNCHANGED tag
    <3>1. \A d \in Checks : pc'[d] = "enqueue" => pc[d] = "enqueue" /\ ref'[d] = ref[d]
      BY <2>2 DEF End, TypeOK
    <3> QED
      BY <1>2, <2>1, <2>2, <3>1 DEF FreshOf
  <2>3. CASE Number(c) /\ pc' = [pc EXCEPT ![c] = "enqueue"] /\ UNCHANGED ref
    <3>1. PICK s \in ref[c] : tag' = [tag EXCEPT ![s] = saves + 1]
      BY <2>3 DEF Number
    <3>2. s \in Structs /\ \A t \in ref[c] : t = s
      BY <3>1 DEF StructInv, OneEach, TypeOK
    <3>3. FreshOf(s)' = Finds(c)
      BY <2>1, <3>1, <3>2 DEF StructInv, Assigned, FreshOf, Finds, TypeOK
    <3>4. \A t \in Structs \ {s} : FreshOf(t)' = FreshOf(t)
      BY <2>1, <3>1, <3>2 DEF FreshOf, TypeOK
    <3>5. FreshOf(s)' \intersect found = {}
      <4>1. saves \in Int
        BY DEF TypeOK
      <4>2. \A i \in Finds(c) : i[1] = saves + 1
        BY DEF Finds
      <4>3. \A i \in Finds(c) : ~(i[1] <= saves)
        BY <4>1, <4>2
      <4> QED
        BY <3>3, <4>3 DEF HaveRows
    <3>6. ASSUME NEW t \in Structs, Waiting(t, w)' PROVE t = s \/ Waiting(t, w)
      BY <2>1, <2>3, <3>2, <3>6 DEF Waiting, InQueue, TypeOK
    <3>7. \A x : Out(x)' <=> Out(x)
      BY <2>1 DEF Out
    <3>8. \A t \in Structs : Waiting(t, w) => FreshOf(t) \subseteq found
      BY DEF Waiting, Known, Passed
    <3>9. \A x \in Alert : Out(x) => Carried(x) \subseteq found
      BY DEF Out, Known
    <3>10. \A i \in Items : alerts[<<w, i>>] > 0 => i \in found
      BY DEF Known, OnlyFound
    <3> QED
      BY <2>1, <3>4, <3>5, <3>6, <3>7, <3>8, <3>9, <3>10 DEF OnePlace, Carried
  <2> QED
    BY <1>7, <2>2, <2>3 DEF Save
<1>8. ASSUME NEW c \in Checks, Enqueue(c) PROVE OnePlace(w)'
  <2>1. PICK s \in ref[c] : queue' = Append(queue, s)
    BY <1>8 DEF Enqueue
  <2>2. s \in Structs /\ queue \in Seq(Structs) /\ pc[c] = "enqueue"
    BY <1>8, <2>1 DEF Enqueue, TypeOK
  <2>3. ASSUME NEW t \in Structs PROVE InQueue(t)' <=> (t = s \/ InQueue(t))
    BY <2>1, <2>2, SentToQueue DEF InQueue
  <2>4. UNCHANGED <<fresh, tag, match, sending, held, alerts>>
    BY <1>8 DEF Enqueue, structVars, items
  <2>5. \A d \in Checks : pc'[d] = "enqueue" => pc[d] = "enqueue" /\ ref'[d] = ref[d]
    BY <1>8 DEF Enqueue, End, TypeOK
  <2>6. \A t \in Structs : Waiting(t, w)' => Waiting(t, w)
    BY <2>1, <2>2, <2>3, <2>4, <2>5 DEF Waiting
  <2> QED
    BY <1>1, <2>4, <2>6 DEF FreshOf, Out
<1>9. ASSUME NEW l \in Loops, Dispatch(l) PROVE OnePlace(w)'
  <2>1. /\ queue # <<>> /\ queue' = Tail(queue) /\ queue \in Seq(Structs)
        /\ UNCHANGED <<fresh, tag, pc, ref, sending, held, alerts>>
    BY <1>9 DEF Dispatch, structVars, checkVars, items, TypeOK
  <2>2. \A t \in Structs :
          match'[<<t, w>>] = IF t = Head(queue) THEN match[<<t, w>>] + 1 ELSE match[<<t, w>>]
    BY <1>9 DEF Dispatch
  <2>3. ASSUME NEW t \in Structs PROVE InQueue(t)' => InQueue(t)
    BY <2>1, TakenFromQueue DEF InQueue
  <2>4. InQueue(Head(queue))
    BY <2>1, TakenFromQueue DEF InQueue
  <2>5. \A t \in Structs : Waiting(t, w)' => Waiting(t, w)
    BY <2>1, <2>2, <2>3, <2>4 DEF Waiting
  <2> QED
    BY <1>1, <2>1, <2>5 DEF FreshOf, Out
<1>10. ASSUME NEW s \in Structs, NEW v \in Watches, Match(s, v) PROVE OnePlace(w)'
  <2> DEFINE hits == fresh[s] \intersect Matches[v]
  <2>1. match[<<s, v>>] > 0 /\ UNCHANGED <<fresh, tag, pc, ref, queue, held, alerts>>
    BY <1>10 DEF Match, structVars, checkVars, items
  <2>2. \A m \in Structs \X Watches :
          match'[m] = IF m = <<s, v>> THEN match[<<s, v>>] - 1 ELSE match[m]
    BY <1>10 DEF Match, TypeOK
  <2>3. \A t \in Structs : FreshOf(t)' = FreshOf(t)
    BY <2>1 DEF FreshOf
  <2>4. match[<<s, v>>] = 1
    <3>1. match[<<s, v>>] \in Nat /\ match[<<s, v>>] <= 1
      BY DEF OneCopy, TypeOK
    <3> QED
      BY <2>1, <3>1
  <2>5. \A t \in Structs : Waiting(t, w)' => Waiting(t, w)
    <3> SUFFICES ASSUME NEW t \in Structs, match'[<<t, w>>] > 0 PROVE match[<<t, w>>] > 0
      BY <2>1 DEF Waiting, InQueue
    <3> QED
      BY <2>2, <2>4
  <2>6. \/ sending' = sending
        \/ sending' = [sending EXCEPT ![<<v, hits, tag[s]>>] = @ + 1]
    BY <1>10 DEF Match
  <2>7. ASSUME NEW x \in Alert PROVE Out(x)' => Out(x) \/ x = <<v, hits, tag[s]>>
    <3> HIDE DEF hits
    <3> QED
      BY <2>1, <2>6 DEF Out, TypeOK
  <2>8. CASE v # w
    <3>1. \A x \in Alert : x[1] = w => (Out(x)' => Out(x))
      BY <2>7, <2>8
    <3> QED
      BY <1>1, <2>1, <2>3, <2>5, <3>1
  <2>9. CASE v = w
    <3>1. Waiting(s, w)
      BY <2>1, <2>9 DEF Waiting
    <3>2. ~Waiting(s, w)'
      <4>1. Passed(s)
        BY <2>1 DEF Passed
      <4>2. \A c \in Checks : s \notin ref[c]
        BY <4>1 DEF StructInv, Owned
      <4>3. ~InQueue(s)
        BY <2>4 DEF OneCopy
      <4>4. match'[<<s, w>>] = 0
        BY <2>2, <2>4, <2>9
      <4>5. ~(match'[<<s, w>>] > 0)
        BY <4>4
      <4> QED
        BY <2>1, <4>2, <4>3, <4>5 DEF Waiting, InQueue
    <3>3. {tag[s]} \X hits \subseteq FreshOf(s)
      BY ArticleAlertsAssumption DEF FreshOf, Nil
    <3>9. ASSUME NEW x, x = <<v, hits, tag[s]>> PROVE Carried(x) = {tag[s]} \X hits
      BY <3>9 DEF Carried
    <3> HIDE DEF hits
    <3>4. /\ \A t, u \in Structs :
               Waiting(t, w)' /\ Waiting(u, w)' /\ t # u => FreshOf(t)' \intersect FreshOf(u)' = {}
          /\ \A i \in Items :
               /\ alerts'[<<w, i>>] <= 1
               /\ alerts'[<<w, i>>] > 0 => \A t \in Structs : Waiting(t, w)' => i \notin FreshOf(t)'
      BY <2>1, <2>3, <2>5 DEF OnePlace
    <3>5. ASSUME NEW t \in Structs, NEW x \in Alert, Waiting(t, w)', Out(x)', x[1] = w
          PROVE  FreshOf(t)' \intersect Carried(x) = {}
      <4>1. CASE Out(x)
        BY <2>3, <2>5, <3>5, <4>1 DEF OnePlace
      <4>2. CASE x = <<v, hits, tag[s]>>
        <5>1. t # s /\ Carried(x) = {tag[s]} \X hits
          BY <3>2, <3>5, <3>9, <4>2
        <5>2. FreshOf(t) \intersect FreshOf(s) = {}
          BY <2>5, <3>1, <3>5, <5>1 DEF OnePlace
        <5> QED
          BY <2>3, <3>3, <5>1, <5>2
      <4> QED
        BY <2>7, <3>5, <4>1, <4>2
    <3>6. ASSUME NEW x \in Alert, Out(x), x[1] = w PROVE Carried(x) \intersect ({tag[s]} \X hits) = {}
      BY <3>1, <3>3, <3>6 DEF OnePlace
    <3>7. ASSUME NEW x \in Alert, NEW y \in Alert, Out(x)', Out(y)', x[1] = w, y[1] = w, x # y
          PROVE  Carried(x) \intersect Carried(y) = {}
      <4>1. CASE Out(x) /\ Out(y)
        BY <3>7, <4>1 DEF OnePlace
      <4>2. CASE x = <<v, hits, tag[s]>> /\ Out(y)
        BY <3>6, <3>7, <3>9, <4>2
      <4>3. CASE y = <<v, hits, tag[s]>> /\ Out(x)
        BY <3>6, <3>7, <3>9, <4>3
      <4> QED
        BY <2>7, <3>7, <4>1, <4>2, <4>3
    <3>8. ASSUME NEW i \in Items, alerts[<<w, i>>] > 0, NEW x \in Alert, Out(x)', x[1] = w
          PROVE  i \notin Carried(x)
      <4>1. CASE Out(x)
        BY <3>8, <4>1 DEF OnePlace
      <4>2. CASE x = <<v, hits, tag[s]>>
        <5>1. i \notin FreshOf(s)
          BY <3>1, <3>8 DEF OnePlace
        <5> QED
          BY <3>3, <3>9, <4>2, <5>1
      <4> QED
        BY <2>7, <3>8, <4>1, <4>2
    <3> QED
      BY <2>1, <3>4, <3>5, <3>7, <3>8 DEF OnePlace
  <2> QED
    BY <2>8, <2>9
<1>11. ASSUME NEW l \in Loops, NEW x \in Alert, Receive(l, x) PROVE OnePlace(w)'
  <2>1. UNCHANGED <<fresh, tag, pc, ref, queue, match, alerts>>
    BY <1>11 DEF Receive, structVars, checkVars, items
  <2>2. /\ sending[x] > 0 /\ held' = [held EXCEPT ![l] = {x}]
        /\ \A y \in Alert : y # x => sending'[y] = sending[y]
    BY <1>11 DEF Receive, TypeOK
  <2>3. ASSUME NEW y \in Alert PROVE Out(y)' => Out(y)
    BY <2>2 DEF Out, TypeOK
  <2> QED
    BY <1>1, <2>1, <2>3 DEF Waiting, InQueue, FreshOf
<1>12. ASSUME NEW l \in Loops, Deliver(l) PROVE OnePlace(w)'
  <2>1. PICK x \in held[l] :
          alerts' = [k \in Watches \X Items |->
                       IF k[1] = x[1] /\ k[2] \in Carried(x) /\ alerts[k] < 2
                       THEN alerts[k] + 1 ELSE alerts[k]]
    BY <1>12 DEF Deliver
  <2>2. /\ UNCHANGED <<fresh, tag, pc, ref, queue, match, sending>>
        /\ held' = [held EXCEPT ![l] = {}]
    BY <1>12 DEF Deliver, structVars, checkVars, items
  <2>3. x \in Alert /\ Out(x)
    BY <2>1 DEF TypeOK, Out
  <2>4. \A s \in Structs : (Waiting(s, w)' <=> Waiting(s, w)) /\ FreshOf(s)' = FreshOf(s)
    BY <2>2 DEF Waiting, InQueue, FreshOf
  <2>5. ASSUME NEW y \in Alert, Out(y)' PROVE Out(y) /\ y # x
    <3>1. \A k \in Loops : held'[k] = IF k = l THEN {} ELSE held[k]
      BY <2>2 DEF TypeOK
    <3>2. Out(y)
      BY <2>2, <2>5, <3>1 DEF Out
    <3>3. sending[x] \in Nat /\ ~(sending[x] > 0)
      BY <2>1, <2>3 DEF OneCopy, TypeOK
    <3>4. \A k \in Loops : x \in held[k] => k = l
      BY <2>1, <2>3 DEF OneCopy
    <3>5. ~Out(x)'
      BY <2>2, <3>1, <3>3, <3>4 DEF Out
    <3> QED
      BY <2>5, <3>2, <3>5
  <2>6. ASSUME NEW i \in Items
        PROVE  /\ alerts'[<<w, i>>] = IF w = x[1] /\ i \in Carried(x) /\ alerts[<<w, i>>] < 2
                                      THEN alerts[<<w, i>>] + 1 ELSE alerts[<<w, i>>]
               /\ alerts[<<w, i>>] \in 0..2
    BY <2>1 DEF TypeOK
  <2>7. ASSUME NEW i \in Items
        PROVE  /\ alerts'[<<w, i>>] <= 1
               /\ alerts'[<<w, i>>] > 0 => alerts[<<w, i>>] > 0 \/ (w = x[1] /\ i \in Carried(x))
    <3>1. w = x[1] /\ i \in Carried(x) => ~(alerts[<<w, i>>] > 0)
      BY <2>3 DEF OnePlace
    <3>2. alerts[<<w, i>>] <= 1
      BY DEF OnePlace
    <3> QED
      BY <2>6, <3>1, <3>2
  <2>8. ASSUME NEW i \in Items, alerts'[<<w, i>>] > 0
        PROVE  /\ \A s \in Structs : Waiting(s, w)' => i \notin FreshOf(s)'
               /\ \A y \in Alert : Out(y)' /\ y[1] = w => i \notin Carried(y)
    <3>1. CASE alerts[<<w, i>>] > 0
      BY <2>4, <2>5, <3>1 DEF OnePlace
    <3>2. CASE w = x[1] /\ i \in Carried(x)
      <4>1. \A s \in Structs : Waiting(s, w) => i \notin FreshOf(s)
        BY <2>3, <3>2 DEF OnePlace
      <4>2. \A y \in Alert : Out(y) /\ y # x /\ y[1] = w => i \notin Carried(y)
        BY <2>3, <3>2 DEF OnePlace
      <4> QED
        BY <2>4, <2>5, <4>1, <4>2
    <3> QED
      BY <2>7, <2>8, <3>1, <3>2
  <2>9. /\ \A s, t \in Structs :
             Waiting(s, w)' /\ Waiting(t, w)' /\ s # t => FreshOf(s)' \intersect FreshOf(t)' = {}
        /\ \A s \in Structs, y \in Alert :
             Waiting(s, w)' /\ Out(y)' /\ y[1] = w => FreshOf(s)' \intersect Carried(y) = {}
        /\ \A y, z \in Alert :
             Out(y)' /\ Out(z)' /\ y[1] = w /\ z[1] = w /\ y # z => Carried(y) \intersect Carried(z) = {}
    BY <2>4, <2>5 DEF OnePlace
  <2> QED
    BY <2>7, <2>8, <2>9 DEF OnePlace
<1>13. ASSUME NEW l \in Loops, Stop(l) \/ Run(l) PROVE OnePlace(w)'
  <2>1. /\ UNCHANGED <<fresh, tag, pc, ref, match, sending, held, alerts>>
        /\ queue' = queue \/ queue' = <<>>
    BY <1>13 DEF Stop, Run, structVars, checkVars, items
  <2>2. Len(<<>>) = 0
    OBVIOUS
  <2>3. \A s : InQueue(s)' => InQueue(s)
    BY <2>1, <2>2 DEF InQueue
  <2> QED
    BY <1>1, <2>1, <2>3 DEF Waiting, FreshOf, Out
<1>14. CASE Restart
  <2>1. UNCHANGED alerts
    BY <1>14 DEF Restart
  <2>2. ASSUME NEW s \in Structs PROVE ~Waiting(s, w)'
    <3>1. \A c \in Checks : pc'[c] = "idle"
      BY <1>14 DEF Restart
    <3>2. Len(queue') = 0
      BY <1>14 DEF Restart
    <3>3. match'[<<s, w>>] = 0
      BY <1>14 DEF Restart
    <3>4. ~(match'[<<s, w>>] > 0)
      BY <3>3
    <3> QED
      BY <3>1, <3>2, <3>4 DEF Waiting, InQueue
  <2>3. ASSUME NEW x \in Alert PROVE ~Out(x)'
    <3>1. sending'[x] = 0 /\ \A l \in Loops : held'[l] = {}
      BY <1>14 DEF Restart
    <3>2. ~(sending'[x] > 0)
      BY <3>1
    <3> QED
      BY <3>1, <3>2 DEF Out
  <2> QED
    BY <1>1, <2>1, <2>2, <2>3
<1>15. CASE UNCHANGED vars
  <2>1. UNCHANGED <<fresh, tag, pc, ref, queue, match, sending, held, alerts>>
    BY <1>15 DEF vars, structVars, checkVars, loopVars, items
  <2> QED
    BY <1>2, <2>1 DEF FreshOf
<1> QED
  BY <1>3, <1>4, <1>5, <1>6, <1>7, <1>8, <1>9, <1>10, <1>11, <1>12, <1>13, <1>14, <1>15, <1>16, <1>17
  DEF Next, Check, Work

\* Both for every subscription.
Once == OneCopy /\ \A w \in Watches : OnePlace(w)

\* They hold from the first state on.
LEMMA OnceHolds ==
  ASSUME High = {}
  PROVE  Spec => []Once
<1> USE DEF Once
<1>1. Init => Once
  <2> SUFFICES ASSUME Init PROVE Once
    OBVIOUS
  <2>1. Len(queue) = 0
    BY DEF Init
  <2>2. ASSUME NEW s \in Structs, NEW w \in Watches
        PROVE  match[<<s, w>>] = 0 /\ ~(match[<<s, w>>] > 0) /\ match[<<s, w>>] <= 1
    <3>1. match[<<s, w>>] = 0
      BY DEF Init
    <3> QED
      BY <3>1
  <2>3. ASSUME NEW x \in Alert
        PROVE  /\ ~(sending[x] > 0) /\ sending[x] <= 1
               /\ \A l \in Loops : held[l] = {}
    <3>1. sending[x] = 0 /\ \A l \in Loops : held[l] = {}
      BY DEF Init
    <3> QED
      BY <3>1
  <2>4. OneCopy
    BY <2>1, <2>2, <2>3 DEF OneCopy, InQueue
  <2>5. ASSUME NEW w \in Watches PROVE OnePlace(w)
    <3>1. \A s \in Structs : ~Waiting(s, w)
      BY <2>1, <2>2 DEF Waiting, InQueue, Init
    <3>2. \A x \in Alert : ~Out(x)
      BY <2>3 DEF Out
    <3>3. ASSUME NEW i \in Items PROVE alerts[<<w, i>>] <= 1 /\ ~(alerts[<<w, i>>] > 0)
      <4>1. alerts[<<w, i>>] = 0
        BY DEF Init
      <4> QED
        BY <4>1
    <3> QED
      BY <3>1, <3>2, <3>3 DEF OnePlace
  <2> QED
    BY <2>4, <2>5
<1>2. TypeOK /\ StructInv /\ Known /\ AgainInv /\ Once /\ [Next]_vars => Once'
  <2> SUFFICES ASSUME TypeOK, StructInv, Known, AgainInv, Once, [Next]_vars PROVE Once'
    OBVIOUS
  <2>1. OneCopy'
    BY OneCopyKept
  <2>2. ASSUME NEW w \in Watches PROVE OnePlace(w)'
    BY OnePlaceKept DEF AgainInv
  <2> QED
    BY <2>1, <2>2
<1> HIDE DEF Once
<1> QED
  BY <1>1, <1>2, TypeCorrect, StructsAndKnown, FoundOnceInv, PTL DEF Spec


-----------------------------------------------------------------------------
(***************************************************************************)
(* The refinement of AlertOnce.  What is due is what is on its way, so the *)
(* proof says of every step what it does to Way: only i save that succeeds *)
(* starts one, only i delivery ends one with an alert, and only i Stop or  *)
(* i restart ends one without.                                             *)
(***************************************************************************)
\* Due, with Way.
LEMMA DueIsWay ==
  /\ TypeOK => \A w \in Watches, i \in Items :
                 <<w, i>> \in Due <=> i \in found /\ i[2] \in Matches[w] /\ Way(i, w)
  /\ TypeOK' => \A w \in Watches, i \in Items :
                 <<w, i>> \in Due' <=> i \in found' /\ i[2] \in Matches[w] /\ Way(i, w)'
<1>1. ASSUME TypeOK, NEW w \in Watches, NEW i \in Items
      PROVE  <<w, i>> \in Due <=> i \in found /\ i[2] \in Matches[w] /\ Way(i, w)
  BY <1>1, WayIsOnItsWay DEF Due
<1>2. ASSUME TypeOK', NEW w \in Watches, NEW i \in Items
      PROVE  <<w, i>> \in Due' <=> i \in found' /\ i[2] \in Matches[w] /\ Way(i, w)'
  <2>1. (\E k \in 1..Len(queue) : i \in FreshOf(queue[k]))'
          <=> \E s \in Structs : InQueue(s)' /\ i \in FreshOf(s)'
    BY <1>2 DEF InQueue, TypeOK, FreshOf
  <2>2. OnItsWay(i, w)' <=> Way(i, w)'
    BY <2>1 DEF OnItsWay, Way, FreshOf, Carried
  <2> QED
    BY <2>2 DEF Due
<1> QED
  BY <1>1, <1>2

\* What is due is a subscription and an item.
LEMMA DueType ==
  /\ TypeOK => Due \subseteq Watches \X Items
  /\ TypeOK' => Due' \subseteq Watches \X Items
BY DEF Due, TypeOK

\* A step that takes nothing off its way and puts nothing on it changes nothing due.
LEMMA SameDue ==
  ASSUME TypeOK, TypeOK', UNCHANGED <<found, alerts, dropped>>,
         \A w \in Watches, i \in found : i[2] \in Matches[w] => (Way(i, w)' <=> Way(i, w))
  PROVE  UNCHANGED <<found, Due, alerts, dropped>>
<1>1. \A p \in Watches \X Items : p \in Due' <=> p \in Due
  BY DueIsWay
<1> QED
  BY <1>1, DueType

\* A check that starts, fetches, assigns, tests, creates, fails to save or enqueues
\* changes nothing due.
LEMMA CheckDue ==
  ASSUME High = {}, TypeOK, TypeOK', StructInv, NEW c \in Checks,
         \/ \E s \in Structs : ReadSaved(c, s)
         \/ Fetch(c) \/ Assign(c) \/ Test(c) \/ Create(c) \/ Retest(c) \/ Enqueue(c)
         \/ Save(c) /\ ~(pc'[c] = "enqueue")
  PROVE  UNCHANGED <<found, Due, alerts, dropped>>
<1>1. ASSUME UNCHANGED <<queue, match, sending, held, alerts, found, dropped>>,
             \A d \in Checks : pc'[d] = "enqueue" <=> pc[d] = "enqueue",
             \A d \in Checks : pc[d] = "enqueue" => ref'[d] = ref[d],
             \A t \in Structs :
               \/ FreshOf(t)' = FreshOf(t)
               \/ ~Passed(t) /\ \A d \in Checks : pc[d] = "enqueue" => t \notin ref[d]
      PROVE  UNCHANGED <<found, Due, alerts, dropped>>
  <2>1. ASSUME NEW i, NEW w \in Watches PROVE Way(i, w)' <=> Way(i, w)
    <3>1. \A d \in Checks : pc[d] = "enqueue" => \A s \in ref[d] : FreshOf(s)' = FreshOf(s)
      BY <1>1 DEF TypeOK
    <3>2. \A s \in Structs : InQueue(s) \/ match[<<s, w>>] > 0 => FreshOf(s)' = FreshOf(s)
      BY <1>1 DEF Passed
    <3>3. (\E d \in Checks : pc[d] = "enqueue" /\ \E s \in ref[d] : i \in FreshOf(s))'
            <=> \E d \in Checks : pc[d] = "enqueue" /\ \E s \in ref[d] : i \in FreshOf(s)
      BY <1>1, <3>1
    <3>4. (\E s \in Structs : (InQueue(s) \/ match[<<s, w>>] > 0) /\ i \in FreshOf(s))'
            <=> \E s \in Structs : (InQueue(s) \/ match[<<s, w>>] > 0) /\ i \in FreshOf(s)
      BY <1>1, <3>2 DEF InQueue
    <3> QED
      BY <1>1, <3>3, <3>4 DEF Way, Carried
  <2> QED
    BY <1>1, <2>1, SameDue
<1>2. ASSUME NEW s \in Structs, ReadSaved(c, s)
      PROVE  UNCHANGED <<found, Due, alerts, dropped>>
  <2>1. /\ pc[c] = "idle"
        /\ pc' = [pc EXCEPT ![c] = "fetch"] /\ ref' = [ref EXCEPT ![c] = {s}]
        /\ UNCHANGED <<queue, match, sending, held, alerts, found, dropped>>
    BY <1>2 DEF ReadSaved, loopVars
  <2>2. \/ UNCHANGED <<fresh, tag>>
        \/ /\ ~Used(s)
           /\ fresh' = [fresh EXCEPT ![s] = Nil] /\ tag' = [tag EXCEPT ![s] = 0]
    BY <1>2 DEF ReadSaved, structVars
  <2>3. \A d \in Checks : /\ pc'[d] = "enqueue" <=> pc[d] = "enqueue"
                          /\ pc[d] = "enqueue" => ref'[d] = ref[d]
    BY <2>1 DEF TypeOK
  <2>4. ASSUME NEW t \in Structs
        PROVE  \/ FreshOf(t)' = FreshOf(t)
               \/ ~Passed(t) /\ \A d \in Checks : pc[d] = "enqueue" => t \notin ref[d]
    <3>1. CASE UNCHANGED <<fresh, tag>>
      BY <3>1 DEF FreshOf
    <3>2. CASE t = s /\ ~Used(s)
      BY <3>2 DEF Used, Passed
    <3>3. CASE t # s /\ fresh' = [fresh EXCEPT ![s] = Nil] /\ tag' = [tag EXCEPT ![s] = 0]
      BY <3>3 DEF FreshOf, TypeOK
    <3> QED
      BY <2>2, <3>1, <3>2, <3>3
  <2> QED
    BY <1>1, <2>1, <2>3, <2>4
<1>3. CASE Fetch(c) \/ Create(c)
  <2>1. /\ UNCHANGED <<fresh, tag, ref, queue, match, sending, held, alerts, found, dropped>>
        /\ pc[c] \in {"fetch", "create"}
        /\ pc' \in {[pc EXCEPT ![c] = "assign"], [pc EXCEPT ![c] = "retest"]}
    BY <1>3 DEF Fetch, Create, structVars, loopVars, items
  <2>2. \A d \in Checks : pc'[d] = "enqueue" <=> pc[d] = "enqueue"
    BY <2>1 DEF TypeOK
  <2> QED
    BY <1>1, <2>1, <2>2 DEF FreshOf
<1>4. CASE Assign(c)
  <2>1. PICK s \in ref[c] : fresh' = [fresh EXCEPT ![s] = list[c][1]]
    BY <1>4 DEF Assign
  <2>2. /\ pc[c] = "assign" /\ pc' = [pc EXCEPT ![c] = "test"]
        /\ UNCHANGED <<tag, ref, queue, match, sending, held, alerts, found, dropped>>
    BY <1>4 DEF Assign, loopVars, items
  <2>3. ~Passed(s) /\ \A d \in Checks : pc[d] = "enqueue" => s \notin ref[d]
    BY <2>1, <2>2 DEF StructInv, Owned
  <2>4. \A t \in Structs : t = s \/ FreshOf(t)' = FreshOf(t)
    BY <2>1, <2>2 DEF FreshOf, TypeOK
  <2>5. \A d \in Checks : pc'[d] = "enqueue" <=> pc[d] = "enqueue"
    BY <2>2 DEF TypeOK
  <2> QED
    BY <1>1, <2>2, <2>3, <2>4, <2>5
<1>5. CASE Test(c) \/ Retest(c)
  <2>1. PICK s \in ref[c], label \in {"create", "save"} : ToSave(c, s, label) \/ End(c)
    BY <1>5 DEF Test, Retest
  <2>2. pc[c] # "enqueue"
    BY <1>5 DEF Test, Retest
  <2>3. \A d \in Checks : /\ pc'[d] = "enqueue" <=> pc[d] = "enqueue"
                          /\ pc[d] = "enqueue" => ref'[d] = ref[d]
    BY <2>1, <2>2 DEF ToSave, End, TypeOK
  <2>4. UNCHANGED <<fresh, tag, queue, match, sending, held, alerts, found, dropped>>
    BY <1>5 DEF Test, Retest, structVars, loopVars, items
  <2> QED
    BY <1>1, <2>3, <2>4 DEF FreshOf
<1>6. CASE Save(c) /\ ~(pc'[c] = "enqueue")
  <2>1. End(c) /\ UNCHANGED <<tag, found>>
    BY <1>6 DEF Save, TypeOK
  <2>2. pc[c] = "save" /\ UNCHANGED <<fresh, queue, match, sending, held, alerts, dropped>>
    BY <1>6 DEF Save, structVars, loopVars
  <2>3. \A d \in Checks : /\ pc'[d] = "enqueue" <=> pc[d] = "enqueue"
                          /\ pc[d] = "enqueue" => ref'[d] = ref[d]
    BY <2>1, <2>2 DEF End, TypeOK
  <2> QED
    BY <1>1, <2>1, <2>2, <2>3 DEF FreshOf
<1>7. CASE Enqueue(c)
  <2>1. PICK s \in ref[c] : queue' = Append(queue, s)
    BY <1>7 DEF Enqueue
  <2>2. s \in Structs /\ queue \in Seq(Structs)
    BY <2>1 DEF TypeOK
  <2>3. ASSUME NEW t \in Structs PROVE InQueue(t)' <=> (t = s \/ InQueue(t))
    BY <2>1, <2>2, SentToQueue DEF InQueue
  <2>4. UNCHANGED <<fresh, tag, match, sending, held, found, alerts, dropped>>
    BY <1>7 DEF Enqueue, structVars, items
  <2>5. /\ \A d \in Checks : d # c => pc'[d] = pc[d] /\ ref'[d] = ref[d]
        /\ pc[c] = "enqueue" /\ pc'[c] = "idle"
    BY <1>7 DEF Enqueue, End, TypeOK
  <2>6. \A t \in ref[c] : t = s
    BY <2>1 DEF StructInv, OneEach
  <2>7. ASSUME NEW i, NEW w, Way(i, w) PROVE Way(i, w)'
    BY <2>2, <2>3, <2>4, <2>5, <2>6, <2>7 DEF Way, FreshOf, Carried
  <2>8. ASSUME NEW i, NEW w, Way(i, w)' PROVE Way(i, w)
    BY <2>1, <2>2, <2>3, <2>4, <2>5, <2>8 DEF Way, FreshOf, Carried
  <2> QED
    BY <2>4, <2>7, <2>8, SameDue
<1> QED
  BY <1>2, <1>3, <1>4, <1>5, <1>6, <1>7

\* Nor do the loop when it starts goroutines and receives from them, and the
\* goroutines when they match.
LEMMA HandOverDue ==
  ASSUME TypeOK, TypeOK',
         \/ \E l \in Loops : Dispatch(l) \/ (\E x \in Alert : Receive(l, x))
         \/ \E s \in Structs, v \in Watches : Match(s, v)
  PROVE  UNCHANGED <<found, Due, alerts, dropped>>
<1>1. ASSUME NEW l \in Loops, Dispatch(l) PROVE UNCHANGED <<found, Due, alerts, dropped>>
  <2>1. /\ queue # <<>> /\ queue' = Tail(queue)
        /\ UNCHANGED <<fresh, tag, pc, ref, sending, held, found, alerts, dropped>>
    BY <1>1 DEF Dispatch, structVars, checkVars, items
  <2>2. \A t \in Structs, w \in Watches :
          match'[<<t, w>>] = IF t = Head(queue) THEN match[<<t, w>>] + 1 ELSE match[<<t, w>>]
    BY <1>1 DEF Dispatch
  <2>3. ASSUME NEW t \in Structs
        PROVE  /\ InQueue(t) => t = Head(queue) \/ InQueue(t)'
               /\ InQueue(t)' \/ t = Head(queue) => InQueue(t)
    BY <2>1, TakenFromQueue DEF InQueue, TypeOK
  <2>4. ASSUME NEW t \in Structs, NEW w \in Watches
        PROVE  InQueue(t)' \/ match'[<<t, w>>] > 0 <=> InQueue(t) \/ match[<<t, w>>] > 0
    <3>1. match[<<t, w>>] \in Nat
      BY DEF TypeOK
    <3>2. CASE t = Head(queue)
      <4>1. match'[<<t, w>>] > 0
        BY <2>2, <3>1, <3>2
      <4> QED
        BY <2>3, <3>2, <4>1
    <3>3. CASE t # Head(queue)
      <4>1. match'[<<t, w>>] = match[<<t, w>>]
        BY <2>2, <3>3
      <4> QED
        BY <2>3, <3>3, <4>1
    <3> QED
      BY <3>2, <3>3
  <2>5. ASSUME NEW i, NEW w \in Watches PROVE Way(i, w)' <=> Way(i, w)
    BY <2>1, <2>4 DEF Way, FreshOf, Carried
  <2> QED
    BY <2>1, <2>5, SameDue
<1>2. ASSUME NEW s \in Structs, NEW v \in Watches, Match(s, v)
      PROVE  UNCHANGED <<found, Due, alerts, dropped>>
  <2> DEFINE hits == fresh[s] \intersect Matches[v]
             x    == <<v, hits, tag[s]>>
  <2>1. UNCHANGED <<fresh, tag, pc, ref, queue, held, found, alerts, dropped>>
    BY <1>2 DEF Match, structVars, checkVars, items
  <2>2. \A t \in Structs, w \in Watches :
          /\ match[<<t, w>>] > 0 => (t = s /\ w = v) \/ match'[<<t, w>>] > 0
          /\ match'[<<t, w>>] > 0 \/ (t = s /\ w = v) => match[<<t, w>>] > 0
    BY <1>2 DEF Match, TypeOK
  <2>3. x \in Alert /\ x[1] = v
    BY ArticleAlertsAssumption DEF Alert, TypeOK
  <2>4. hits # {} => sending'[x] > 0
    BY <1>2, <2>3 DEF Match, TypeOK
  <2>5. \A y \in Alert : /\ sending[y] > 0 => sending'[y] > 0
                         /\ sending'[y] > 0 => sending[y] > 0 \/ y = x
    BY <1>2, <2>3 DEF Match, TypeOK
  <2>8. \A i \in found : i \in Carried(x) <=> i \in FreshOf(s) /\ i[2] \in Matches[v]
    <3>1. \A i \in found : i = <<i[1], i[2]>> /\ i[2] # NoArticle
      BY ArticleAlertsAssumption DEF TypeOK, Items
    <3> QED
      BY <3>1 DEF Carried, FreshOf, Nil
  <2>9. \A i \in Carried(x) : hits # {}
    BY DEF Carried
  <2> HIDE DEF x, hits
  <2>6. ASSUME NEW i \in found, NEW w \in Watches, i[2] \in Matches[w], Way(i, w)
        PROVE  Way(i, w)'
    <3>1. CASE \E t \in Structs : /\ match[<<t, w>>] > 0 /\ ~(match'[<<t, w>>] > 0)
                                  /\ i \in FreshOf(t)
      <4>1. w = v /\ i \in Carried(x)
        BY <2>2, <2>6, <2>8, <3>1
      <4> QED
        BY <2>3, <2>4, <2>9, <4>1 DEF Way, Carried
    <3>2. CASE \A t \in Structs : match[<<t, w>>] > 0 /\ i \in FreshOf(t)
                                    => match'[<<t, w>>] > 0
      BY <2>1, <2>5, <2>6, <3>2 DEF Way, FreshOf, InQueue, Carried
    <3> QED
      BY <3>1, <3>2
  <2>7. ASSUME NEW i \in found, NEW w \in Watches, Way(i, w)' PROVE Way(i, w)
    <3>1. i \in Carried(x) /\ w = v => match[<<s, w>>] > 0 /\ i \in FreshOf(s)
      BY <2>2, <2>8
    <3>2. CASE \E y \in Alert : y[1] = w /\ i \in Carried(y) /\ sending'[y] > 0 /\ ~(sending[y] > 0)
      <4>1. w = v /\ i \in Carried(x)
        BY <2>3, <2>5, <3>2
      <4> QED
        BY <3>1, <4>1 DEF Way
    <3>3. CASE \A y \in Alert : y[1] = w /\ i \in Carried(y) /\ sending'[y] > 0 => sending[y] > 0
      BY <2>1, <2>2, <2>7, <3>3 DEF Way, FreshOf, InQueue, Carried
    <3> QED
      BY <3>2, <3>3
  <2> QED
    BY <2>1, <2>6, <2>7, SameDue
<1>3. ASSUME NEW l \in Loops, NEW x \in Alert, Receive(l, x)
      PROVE  UNCHANGED <<found, Due, alerts, dropped>>
  <2>1. UNCHANGED <<fresh, tag, pc, ref, queue, match, found, alerts, dropped>>
    BY <1>3 DEF Receive, structVars, checkVars, items
  <2>2. held[l] = {} /\ held' = [held EXCEPT ![l] = {x}] /\ sending[x] > 0
    BY <1>3 DEF Receive, Ready
  <2>3. \A y \in Alert : /\ y # x => sending'[y] = sending[y]
                         /\ sending'[y] > 0 => sending[y] > 0
    BY <1>3 DEF Receive, TypeOK
  <2>4. \A y \in Alert : (sending[y] > 0 \/ \E k \in Loops : y \in held[k])
                           <=> (sending'[y] > 0 \/ \E k \in Loops : y \in held'[k])
    BY <2>2, <2>3 DEF TypeOK
  <2>5. ASSUME NEW i, NEW w PROVE Way(i, w)' <=> Way(i, w)
    BY <2>1, <2>4 DEF Way, FreshOf, InQueue, Carried
  <2> QED
    BY <2>1, <2>5, SameDue
<1> QED
  BY <1>1, <1>2, <1>3

\* A save that succeeds finds what its struct holds.
LEMMA SaveFinds ==
  ASSUME TypeOK, TypeOK', StructInv, HaveRows, NEW c \in Checks,
         Save(c), pc'[c] = "enqueue"
  PROVE  \E articles \in SUBSET Items : Promise!Find(articles)
<1>1. /\ pc[c] = "save"
      /\ UNCHANGED <<fresh, queue, match, sending, held, alerts, dropped>>
  BY DEF Save, structVars, loopVars
<1>2. /\ found' = found \union Finds(c) /\ Number(c)
      /\ pc' = [pc EXCEPT ![c] = "enqueue"] /\ UNCHANGED ref
  BY DEF Save, End, TypeOK
<1>3. PICK s \in ref[c] : tag' = [tag EXCEPT ![s] = saves + 1]
  BY <1>2 DEF Number
<1>10. s \in Structs /\ \A t \in ref[c] : t = s
  BY <1>3 DEF StructInv, OneEach, TypeOK
<1>11. FreshOf(s)' = Finds(c)
  BY <1>1, <1>3, <1>10 DEF StructInv, Assigned, FreshOf, Finds, TypeOK
<1>4. Finds(c) \in SUBSET Items
  BY <1>2, FindsType
<1>5. Finds(c) \intersect found = {}
  <2>1. saves \in Int
    BY DEF TypeOK
  <2>2. \A i \in Finds(c) : i[1] = saves + 1
    BY DEF Finds
  <2>3. \A i \in Finds(c) : ~(i[1] <= saves)
    BY <2>1, <2>2
  <2> QED
    BY <2>3 DEF HaveRows
<1>6. /\ \A t : InQueue(t)' <=> InQueue(t)
      /\ \A t \in Structs \ {s} : FreshOf(t)' = FreshOf(t)
      /\ pc'[c] = "enqueue" /\ \A d \in Checks \ {c} : pc'[d] = pc[d]
      /\ ~Passed(s)
      /\ \A d \in Checks \ {c} : s \notin ref[d] /\ ref[d] \subseteq Structs
  BY <1>1, <1>2, <1>3, <1>10 DEF FreshOf, InQueue, StructInv, Owned, TypeOK
<1>7. ASSUME NEW i, NEW w \in Watches PROVE Way(i, w)' <=> Way(i, w) \/ i \in Finds(c)
  <2>1. (\E d \in Checks : pc'[d] = "enqueue" /\ \E t \in ref'[d] : i \in FreshOf(t)')
          <=> \/ \E d \in Checks : pc[d] = "enqueue" /\ \E t \in ref[d] : i \in FreshOf(t)
              \/ i \in Finds(c)
    <3>1. ASSUME NEW d \in Checks, d # c
          PROVE  (pc'[d] = "enqueue" /\ \E t \in ref'[d] : i \in FreshOf(t)')
                   <=> (pc[d] = "enqueue" /\ \E t \in ref[d] : i \in FreshOf(t))
      BY <1>2, <1>6, <3>1
    <3>2. (pc'[c] = "enqueue" /\ \E t \in ref'[c] : i \in FreshOf(t)') <=> i \in Finds(c)
      BY <1>2, <1>3, <1>6, <1>10, <1>11
    <3>3. pc[c] # "enqueue"
      BY <1>1
    <3> QED
      BY <3>1, <3>2, <3>3
  <2>2. (\E t \in Structs : (InQueue(t)' \/ match'[<<t, w>>] > 0) /\ i \in FreshOf(t)')
          <=> \E t \in Structs : (InQueue(t) \/ match[<<t, w>>] > 0) /\ i \in FreshOf(t)
    <3>1. ASSUME NEW t \in Structs
          PROVE  ((InQueue(t)' \/ match'[<<t, w>>] > 0) /\ i \in FreshOf(t)')
                   <=> ((InQueue(t) \/ match[<<t, w>>] > 0) /\ i \in FreshOf(t))
      BY <1>1, <1>6 DEF Passed
    <3> QED
      BY <3>1
  <2> QED
    BY <1>1, <2>1, <2>2 DEF Way, Carried
<1>8. ASSUME NEW w \in Watches, NEW i \in Items
      PROVE  <<w, i>> \in Due' <=> <<w, i>> \in Due \union Promise!Concerns(Finds(c))
  <2>1. <<w, i>> \in Due' <=> i \in found' /\ i[2] \in Matches[w] /\ Way(i, w)'
    BY DueIsWay
  <2>2. <<w, i>> \in Due <=> i \in found /\ i[2] \in Matches[w] /\ Way(i, w)
    BY DueIsWay
  <2>3. <<w, i>> \in Promise!Concerns(Finds(c)) <=> i \in Finds(c) /\ i[2] \in Matches[w]
    BY DEF Promise!Concerns, Concerned
  <2>4. i \in found' <=> i \in found \/ i \in Finds(c)
    BY <1>2
  <2>5. i \in Finds(c) => i \notin found
    BY <1>5
  <2>6. Way(i, w)' <=> Way(i, w) \/ i \in Finds(c)
    BY <1>7
  <2>7. CASE i \in Finds(c)
    BY <2>1, <2>2, <2>3, <2>4, <2>6, <2>7
  <2>8. CASE i \notin Finds(c)
    BY <2>1, <2>2, <2>3, <2>4, <2>6, <2>8
  <2> QED
    BY <2>7, <2>8
<1>9. Promise!Concerns(Finds(c)) \subseteq Watches \X Items
  BY <1>4 DEF Promise!Concerns, Concerned
<1>12. Due' = Due \union Promise!Concerns(Finds(c))
  BY <1>8, <1>9, DueType
<1>13. Promise!Find(Finds(c))
  BY <1>1, <1>2, <1>5, <1>12 DEF Promise!Find
<1> QED
  BY <1>4, <1>13

\* A delivery sends one alert, of items that were due to the subscription and are
\* on no other way to it.
LEMMA DeliverSends ==
  ASSUME TypeOK, TypeOK', StructInv, Known, OneCopy, \A w \in Watches : OnePlace(w),
         NEW l \in Loops, Deliver(l)
  PROVE  \E w \in Watches, articles \in SUBSET Items : Promise!Send(w, articles)
<1>1. PICK x \in held[l] :
        alerts' = [k \in Watches \X Items |->
                     IF k[1] = x[1] /\ k[2] \in Carried(x) /\ alerts[k] < 2
                     THEN alerts[k] + 1 ELSE alerts[k]]
  BY DEF Deliver
<1>2. /\ UNCHANGED <<fresh, tag, pc, ref, queue, match, sending, found, dropped>>
      /\ held' = [held EXCEPT ![l] = {}]
  BY DEF Deliver, structVars, checkVars, items
<1>3. x \in Alert /\ x[1] \in Watches /\ Carried(x) \in SUBSET Items
  <2>1. x \in Alert
    BY <1>1 DEF TypeOK
  <2>2. Carried(x) \subseteq found
    BY <1>1, <2>1 DEF Known, Out
  <2> QED
    BY <2>1, <2>2 DEF Alert, TypeOK
<1> DEFINE alert == {x[1]} \X Carried(x)
<1>4. /\ Carried(x) \subseteq found /\ Out(x)
      /\ \A i \in Carried(x) : i[2] \in Matches[x[1]]
  BY <1>1, <1>3 DEF Known, Out, Carried
<1>5. /\ \A y \in Alert : y # x => (Out(y)' <=> Out(y))
      /\ ~Out(x)'
  <2>1. \A y \in held[l] : y = x
    BY <1>1 DEF StructInv, OneEach
  <2>2. \A y \in Alert : y # x => (Out(y)' <=> Out(y))
    BY <1>2, <2>1 DEF Out, TypeOK
  <2>3. ~(sending[x] > 0) /\ \A k \in Loops : x \in held[k] => k = l
    BY <1>1, <1>3 DEF OneCopy
  <2>4. ~Out(x)'
    BY <1>2, <2>3 DEF Out, TypeOK
  <2> QED
    BY <2>2, <2>4
<1>6. OnePlace(x[1])
  BY <1>3
<1>7. ASSUME NEW w \in Watches, NEW i \in Items, w = x[1], i \in Carried(x)
      PROVE  Way(i, w) /\ ~Way(i, w)'
  <2>1. Way(i, w)
    BY <1>1, <1>3, <1>7 DEF Way
  <2>2. \A s \in Structs : Waiting(s, w) => i \notin FreshOf(s)
    BY <1>3, <1>4, <1>6, <1>7 DEF OnePlace
  <2>3. \A y \in Alert : Out(y) /\ y # x /\ y[1] = w => i \notin Carried(y)
    BY <1>3, <1>4, <1>6, <1>7 DEF OnePlace
  <2>4. \A y \in Alert : Out(y)' /\ y[1] = w => i \notin Carried(y)
    BY <1>5, <2>3
  <2>5. \A c \in Checks : ref[c] \subseteq Structs
    BY DEF TypeOK
  <2>6. \A s \in Structs : (Waiting(s, w)' <=> Waiting(s, w)) /\ FreshOf(s)' = FreshOf(s)
    BY <1>2 DEF Waiting, InQueue, FreshOf
  <2>7. Way(i, w)' => \/ \E s \in Structs : Waiting(s, w)' /\ i \in FreshOf(s)'
                      \/ \E y \in Alert : Out(y)' /\ y[1] = w /\ i \in Carried(y)
    BY <1>2, <2>5 DEF Way, Waiting, Out, Carried
  <2> QED
    BY <2>1, <2>2, <2>4, <2>6, <2>7
<1>8. ASSUME NEW w \in Watches, NEW i \in Items, ~(w = x[1] /\ i \in Carried(x))
      PROVE  Way(i, w)' <=> Way(i, w)
  <2>1. \A y \in Alert : y[1] = w /\ i \in Carried(y) => (Out(y)' <=> Out(y))
    BY <1>5, <1>8
  <2> QED
    BY <1>2, <2>1 DEF Way, FreshOf, InQueue, Out, Carried
<1>9. alert \subseteq Due
  <2>1. \A i \in Carried(x) : <<x[1], i>> \in Due
    BY <1>3, <1>4, <1>7, DueIsWay
  <2> QED
    BY <2>1
<1>10. Due' = Due \ alert
  <2>1. ASSUME NEW w \in Watches, NEW i \in Items
        PROVE  <<w, i>> \in Due' <=> <<w, i>> \in Due \ alert
    BY <1>2, <1>7, <1>8, DueIsWay
  <2> HIDE DEF alert
  <2> QED
    BY <2>1, DueType
<1>11. alerts' = [p \in Promise!Pairs |-> IF p \in alert THEN alerts[p] + 1 ELSE alerts[p]]
  <2>1. ASSUME NEW p \in Watches \X Items
        PROVE  (p[1] = x[1] /\ p[2] \in Carried(x) /\ alerts[p] < 2) <=> p \in alert
    <3>1. p = <<p[1], p[2]>> /\ p[1] \in Watches /\ p[2] \in Items
      OBVIOUS
    <3>2. p \in alert <=> p[1] = x[1] /\ p[2] \in Carried(x)
      BY <3>1
    <3>3. alerts[<<p[1], p[2]>>] \in 0..2 /\ alerts[<<p[1], p[2]>>] <= 1
      BY <3>1 DEF OnePlace, TypeOK
    <3>4. alerts[p] < 2
      BY <3>1, <3>3
    <3> QED
      BY <3>2, <3>4
  <2> HIDE DEF alert
  <2> QED
    BY <1>1, <2>1 DEF Promise!Pairs
<1>12. Promise!Send(x[1], Carried(x))
  BY <1>2, <1>9, <1>10, <1>11 DEF Promise!Send
<1> QED
  BY <1>3, <1>12

\* A Stop drops what is in boardCh, and nothing of it is due on another way.
LEMMA StopDrops ==
  ASSUME TypeOK, TypeOK', StructInv, Known, OneCopy, \A w \in Watches : OnePlace(w),
         NEW l \in Loops, Stop(l)
  PROVE  \E articles \in SUBSET Items : Promise!Drop(articles)
<1> DEFINE articles == {i \in found : \E k \in 1..Len(queue) : i \in FreshOf(queue[k])}
<1>1. /\ queue' = <<>> /\ dropped' = dropped \union articles
      /\ UNCHANGED <<fresh, tag, pc, ref, match, sending, held, alerts, found>>
  BY DEF Stop, structVars, checkVars
<1>2. \A i : i \in articles <=> \E s \in Structs : InQueue(s) /\ i \in FreshOf(s)
  <2>1. \A s \in Structs : InQueue(s) => FreshOf(s) \subseteq found
    BY DEF Known, Passed
  <2>2. \A k \in 1..Len(queue) : queue[k] \in Structs /\ InQueue(queue[k])
    BY DEF InQueue, TypeOK
  <2>3. \A s : InQueue(s) => \E k \in 1..Len(queue) : queue[k] = s
    BY DEF InQueue
  <2> HIDE DEF FreshOf
  <2> QED
    BY <2>1, <2>2, <2>3
<1> HIDE DEF articles
<1>3. articles \subseteq found
  <2>1. \A s \in Structs : InQueue(s) => FreshOf(s) \subseteq found
    BY DEF Known, Passed
  <2> QED
    BY <1>2, <2>1
<1>4. articles \in SUBSET Items
  BY <1>3 DEF TypeOK
<1>5. ASSUME NEW i \in Items, NEW w \in Watches
      PROVE  Way(i, w)' <=> Way(i, w) /\ i \notin articles
  <2>1. \A s : ~InQueue(s)' /\ FreshOf(s)' = FreshOf(s)
    BY <1>1 DEF InQueue, FreshOf
  <2>2. CASE i \in articles
    <3>1. PICK s \in Structs : InQueue(s) /\ i \in FreshOf(s)
      BY <1>2, <2>2
    <3>2. \A t \in Structs : Waiting(t, w) /\ t # s => i \notin FreshOf(t)
      BY <3>1 DEF OnePlace, Waiting
    <3>3. \A x \in Alert : Out(x) /\ x[1] = w => i \notin Carried(x)
      BY <3>1 DEF OnePlace, Waiting
    <3>4. ~(match[<<s, w>>] > 0)
      BY <3>1 DEF OneCopy
    <3>5. \A c \in Checks : ref[c] \subseteq Structs /\ s \notin ref[c]
      BY <3>1 DEF StructInv, Owned, Passed, TypeOK
    <3>6. Way(i, w)' => \/ \E t \in Structs : t # s /\ Waiting(t, w) /\ i \in FreshOf(t)
                        \/ \E x \in Alert : Out(x) /\ x[1] = w /\ i \in Carried(x)
      BY <1>1, <2>1, <3>4, <3>5 DEF Way, Waiting, Out, Carried
    <3> QED
      BY <2>2, <3>2, <3>3, <3>6
  <2>3. CASE i \notin articles
    <3>1. \A t \in Structs : InQueue(t) => i \notin FreshOf(t)
      BY <1>2, <2>3
    <3> QED
      BY <1>1, <2>1, <2>3, <3>1 DEF Way, Carried
  <2> QED
    BY <2>2, <2>3
<1>6. ASSUME NEW w \in Watches, NEW i \in Items
      PROVE  <<w, i>> \in Due' <=> <<w, i>> \in {p \in Due : p[2] \notin articles}
  <2>1. <<w, i>> \in Due' <=> <<w, i>> \in Due /\ i \notin articles
    BY <1>1, <1>5, DueIsWay
  <2> QED
    BY <2>1
<1>7. Due' = {p \in Due : p[2] \notin articles}
  BY <1>6, DueType
<1>8. Promise!Drop(articles)
  BY <1>1, <1>3, <1>7 DEF Promise!Drop
<1> QED
  BY <1>4, <1>8

\* A restart drops all that is on its way.
LEMMA RestartDrops ==
  ASSUME TypeOK, TypeOK', Restart
  PROVE  \E articles \in SUBSET Items : Promise!Drop(articles)
<1> DEFINE articles == {i \in found : \E w \in Watches : OnItsWay(i, w)}
<1>1. dropped' = dropped \union articles /\ UNCHANGED <<alerts, found>>
  BY DEF Restart
<1>2. articles \in SUBSET Items /\ articles \subseteq found
  BY DEF TypeOK
<1>3. {p \in Due : p[2] \notin articles} = {}
  BY DEF Due
<1>4. ASSUME NEW i, NEW w \in Watches PROVE ~Way(i, w)'
  <2>1. /\ queue' = <<>> /\ \A c \in Checks : pc'[c] # "enqueue"
        /\ \A s \in Structs : match'[<<s, w>>] = 0
        /\ \A x \in Alert : sending'[x] = 0
        /\ \A k \in Loops : held'[k] = {}
    BY DEF Restart
  <2>2. /\ \A s \in Structs : ~(match'[<<s, w>>] > 0)
        /\ \A x \in Alert : ~(sending'[x] > 0)
    <3>1. ~(0 > 0)
      OBVIOUS
    <3> QED
      BY <2>1, <3>1
  <2>3. \A s : ~InQueue(s)'
    BY <2>1 DEF InQueue
  <2> QED
    BY <2>1, <2>2, <2>3 DEF Way
<1>5. ASSUME NEW w \in Watches, NEW i \in Items PROVE <<w, i>> \notin Due'
  BY <1>4, DueIsWay
<1>6. Due' = {}
  BY <1>5, DueType
<1> HIDE DEF articles
<1>7. Promise!Drop(articles)
  BY <1>1, <1>2, <1>3, <1>6 DEF Promise!Drop
<1> QED
  BY <1>2, <1>7

\* Every step is one of AlertOnce or changes nothing that AlertOnce is about.
LEMMA PromiseStep ==
  ASSUME High = {}, TypeOK, TypeOK', StructInv, Known, HaveRows, OneCopy,
         \A w \in Watches : OnePlace(w), [Next]_vars
  PROVE  [Promise!Next]_<<found, Due, alerts, dropped>>
<1>1. ASSUME NEW c \in Checks, Check(c) PROVE [Promise!Next]_<<found, Due, alerts, dropped>>
  <2>1. CASE Save(c) /\ pc'[c] = "enqueue"
    BY <2>1, SaveFinds DEF Promise!Next
  <2>2. CASE ~(Save(c) /\ pc'[c] = "enqueue")
    BY <1>1, <2>2, CheckDue DEF Check
  <2> QED
    BY <2>1, <2>2
<1>2. ASSUME NEW l \in Loops, Deliver(l) PROVE Promise!Next
  BY <1>2, DeliverSends DEF Promise!Next
<1>3. ASSUME NEW l \in Loops, Stop(l) PROVE Promise!Next
  BY <1>3, StopDrops DEF Promise!Next
<1>4. CASE Restart
  BY <1>4, RestartDrops DEF Promise!Next
<1>5. ASSUME UNCHANGED <<fresh, tag, pc, ref, queue, match, sending, held, alerts, found, dropped>>
      PROVE  UNCHANGED <<found, Due, alerts, dropped>>
  <2>1. ASSUME NEW i, NEW w PROVE Way(i, w)' <=> Way(i, w)
    BY <1>5 DEF Way, InQueue, FreshOf, Carried
  <2> QED
    BY <1>5, <2>1, SameDue
<1>6. ASSUME \/ \E a \in Articles : Post(a) \/ SaveElsewhere(a) \/ Destroy(a)
             \/ \E i \in IDs : OtherBoard(i)
             \/ \E l \in Loops : Run(l)
             \/ UNCHANGED vars
      PROVE  UNCHANGED <<fresh, tag, pc, ref, queue, match, sending, held, alerts, found, dropped>>
  BY <1>6 DEF Post, SaveElsewhere, Destroy, OtherBoard, OnlyRows, Run, vars, structVars,
              checkVars, loopVars, items
<1> QED
  BY <1>1, <1>2, <1>3, <1>4, <1>5, <1>6, HandOverDue DEF Next, Work

\* Checks implement AlertOnce, also when they overlap, for any number of articles,
\* subscriptions, checks, loops, other writers, Stops, restarts and failures, if no
\* two checks share a struct.
THEOREM ImplementsAlertOnce == High = {} => (Spec => AlertsAsPromised)
<1> SUFFICES ASSUME High = {} PROVE Spec => AlertsAsPromised
  OBVIOUS
<1>1. Init => Promise!Init
  BY DEF Init, Due, Promise!Init, Promise!Pairs
<1>2. /\ TypeOK /\ TypeOK' /\ StructInv /\ Known /\ AgainInv /\ Once
      /\ [Next]_vars
      => [Promise!Next]_<<found, Due, alerts, dropped>>
  BY PromiseStep DEF Once, AgainInv
<1> QED
  BY <1>1, <1>2, OnceHolds, TypeCorrect, StructsAndKnown, FoundOnceInv, PTL
  DEF Spec, AlertsAsPromised, Promise!Spec

\* The steps of AlertOnce keep its invariants.
LEMMA KeptByPromise ==
  ASSUME TypeOK, Promise!NeverTwice, Promise!Accounted,
         [Promise!Next]_<<found, Due, alerts, dropped>>
  PROVE  Promise!NeverTwice' /\ Promise!Accounted'
<1>1. Due \subseteq Promise!Concerns(found) /\ found \subseteq Items
  BY DEF Due, Promise!Concerns, Concerned, TypeOK
<1>2. \A p \in Watches \X Items : alerts[p] \in Nat
  <2>1. alerts \in [Watches \X Items -> 0..2]
    BY DEF TypeOK
  <2> QED
    BY <2>1
<1>3. ASSUME NEW articles \in SUBSET Items, Promise!Find(articles)
      PROVE  Promise!NeverTwice' /\ Promise!Accounted'
  <2>1. /\ articles \intersect found = {} /\ found' = found \union articles
        /\ Due' = Due \union Promise!Concerns(articles)
        /\ UNCHANGED <<alerts, dropped>>
    BY <1>3 DEF Promise!Find
  <2>2. Promise!Concerns(found') = Promise!Concerns(found) \union Promise!Concerns(articles)
    BY <2>1 DEF Promise!Concerns
  <2>3. Promise!Concerns(found) \intersect Promise!Concerns(articles) = {}
    BY <2>1 DEF Promise!Concerns
  <2> QED
    BY <2>1, <2>2, <2>3 DEF Promise!NeverTwice, Promise!Accounted, Promise!Concerns
<1>4. ASSUME NEW articles \in SUBSET Items, NEW w \in Watches, Promise!Send(w, articles)
      PROVE  Promise!NeverTwice' /\ Promise!Accounted'
  <2> DEFINE alert == {w} \X articles
  <2>1. /\ alert \subseteq Due /\ Due' = Due \ alert
        /\ alerts' = [p \in Watches \X Items |->
                        IF p \in alert THEN alerts[p] + 1 ELSE alerts[p]]
        /\ UNCHANGED <<found, dropped>>
    BY <1>4 DEF Promise!Send, Promise!Pairs
  <2> HIDE DEF alert
  <2>2. ASSUME NEW p \in Watches \X Items, p \in alert
        PROVE  alerts'[p] = 1 /\ p \in Promise!Concerns(found) /\ p \notin Due'
    <3>1. alerts[p] \in Nat /\ ~(alerts[p] > 0)
      BY <1>2, <2>1, <2>2 DEF Promise!NeverTwice, Promise!Pairs
    <3>2. alerts[p] = 0
      BY <3>1
    <3>3. alerts'[p] = alerts[p] + 1
      BY <2>1, <2>2
    <3> QED
      BY <1>1, <2>1, <2>2, <3>2, <3>3
  <2>3. ASSUME NEW p \in Watches \X Items, p \notin alert
        PROVE  alerts'[p] = alerts[p] /\ (p \in Due' <=> p \in Due)
    BY <2>1, <2>3
  <2>4. ASSUME NEW p \in Watches \X Items
        PROVE  alerts'[p] <= 1 /\ (alerts'[p] > 0 => p \in Promise!Concerns(found) \ Due')
    <3>1. CASE p \in alert
      BY <2>2, <3>1
    <3>2. CASE p \notin alert
      BY <2>3, <3>2 DEF Promise!NeverTwice, Promise!Pairs
    <3> QED
      BY <3>1, <3>2
  <2>5. ASSUME NEW p \in Promise!Concerns(found)
        PROVE  alerts'[p] > 0 \/ p \in Due' \/ p[2] \in dropped
    <3>1. p \in Watches \X Items
      BY <1>1 DEF Promise!Concerns
    <3>2. CASE p \in alert
      BY <2>2, <3>1, <3>2
    <3>3. CASE p \notin alert
      BY <2>3, <3>1, <3>3 DEF Promise!Accounted
    <3> QED
      BY <3>2, <3>3
  <2> QED
    BY <2>1, <2>4, <2>5 DEF Promise!NeverTwice, Promise!Accounted, Promise!Pairs,
                            Promise!Concerns
<1>5. ASSUME NEW articles \in SUBSET Items, Promise!Drop(articles)
      PROVE  Promise!NeverTwice' /\ Promise!Accounted'
  BY <1>5 DEF Promise!Drop, Promise!NeverTwice, Promise!Accounted, Promise!Pairs,
              Promise!Concerns
<1>6. CASE UNCHANGED <<found, Due, alerts, dropped>>
  BY <1>6 DEF Promise!NeverTwice, Promise!Accounted, Promise!Pairs, Promise!Concerns
<1> QED
  BY <1>3, <1>4, <1>5, <1>6 DEF Promise!Next

\* What the abstraction is for: however the goroutines are interleaved, no alert is sent
\* twice or beside what is due, and each that was found is sent, due or dropped.
THEOREM PromiseIsKept ==
  High = {} => (Spec => [](Promise!NeverTwice /\ Promise!Accounted))
<1> SUFFICES ASSUME High = {}
             PROVE  Spec => [](Promise!NeverTwice /\ Promise!Accounted)
  OBVIOUS
<1> DEFINE Kept == Promise!NeverTwice /\ Promise!Accounted
<1>1. Init => Kept
  <2> SUFFICES ASSUME Init PROVE Kept
    OBVIOUS
  <2>1. \A p \in Watches \X Items : alerts[p] <= 1 /\ ~(alerts[p] > 0)
    <3>1. ASSUME NEW p \in Watches \X Items PROVE alerts[p] = 0
      BY DEF Init
    <3> QED
      BY <3>1
  <2> QED
    BY <2>1 DEF Init, Promise!NeverTwice, Promise!Accounted, Promise!Pairs, Promise!Concerns
<1>2. /\ TypeOK /\ Kept /\ [Promise!Next]_<<found, Due, alerts, dropped>>
      => Kept'
  BY KeptByPromise
<1>3. /\ TypeOK /\ TypeOK' /\ StructInv /\ Known /\ AgainInv /\ Once
      /\ [Next]_vars
      => [Promise!Next]_<<found, Due, alerts, dropped>>
  BY PromiseStep DEF Once, AgainInv
<1>4. Kept => Promise!NeverTwice /\ Promise!Accounted
  OBVIOUS
<1> HIDE DEF Kept
<1> QED
  BY <1>1, <1>2, <1>3, <1>4, OnceHolds, TypeCorrect, StructsAndKnown, FoundOnceInv, PTL DEF Spec
=============================================================================
