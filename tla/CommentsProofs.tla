---------------------------- MODULE CommentsProofs ----------------------------
(***************************************************************************)
(* Proofs about Comments: for any number of comments, of minutes they      *)
(* share, of overlapping checks, of other writers and of failures, what    *)
(* TLC checks on a small instance of the article's row and its alerts.     *)
(***************************************************************************)
EXTENDS Comments, FiniteSetTheorems, TLAPS

Times == {0} \union {At[c] : c \in Comments}
CheckSteps == {"idle", "listed", "fetch", "subscribers", "delete", "del", "compare", "send"}
Reads == {0} \union {ReadBack(At[c]) : c \in Comments}
Record == [pc : CheckSteps, then : {"idle", "subscribers", "compare"}, last : Reads,
           got : 0..MaxComments, lost : BOOLEAN]
WRecord == [pc : {"idle", "fetch", "save"}, got : 0..MaxComments]

\* The time of a page is a time a row may hold.
LEMMA MinuteType == ASSUME NEW n \in 0..MaxComments PROVE Minute(n) \in Times /\ Minute(n) \in Nat
<1>1. CASE n = 0
  BY <1>1 DEF Minute, Times
<1>2. CASE n # 0
  BY <1>2, CommentsAssumption DEF Minute, Times, Comments
<1> QED
  BY <1>1, <1>2

\* Times are numbers, as they are saved and as they are read back.
LEMMA TimesNat == (\A t \in Times : t \in Nat) /\ (\A t \in Reads : t \in Nat)
<1>1. \A t \in Times : t \in Nat
  BY CommentsAssumption DEF Times, Comments
<1>2. \A c \in Comments : ReadBack(At[c]) \in Nat
  BY CommentsAssumption DEF ReadBack, Comments
<1> QED
  BY <1>1, <1>2 DEF Reads

\* What is read of a saved time, which is not earlier than it.
LEMMA ReadType == ASSUME NEW t \in Times PROVE ReadBack(t) \in Reads /\ ReadBack(t) \in Nat /\ ReadBack(t) >= t
<1>1. t \in Nat /\ Shift \in Nat
  BY TimesNat, CommentsAssumption
<1>2. ReadBack(t) \in Nat /\ ReadBack(t) >= t
  BY <1>1 DEF ReadBack
<1>3. ReadBack(t) \in Reads
  <2>1. CASE t = 0
    BY <2>1 DEF ReadBack, Reads
  <2>2. CASE t # 0
    BY <2>2 DEF Times, Reads
  <2> QED
    BY <2>1, <2>2
<1> QED
  BY <1>2, <1>3

\* What a save leaves is one time.
LEMMA SaveType ==
  ASSUME TypeOK, NEW t \in Times, Save(t)
  PROVE  row' \subseteq Times /\ Cardinality(row') <= 1 /\ rewinds' \in Nat
<1>1. row' = {t}
  BY DEF Save
<1>2. Cardinality(row') = 1
  BY <1>1, FS_Singleton
<1> QED
  BY <1>1, <1>2 DEF Save, TypeOK

\* The type invariant, in parts: the row, the checks, the writers, and the histories.
RowOK == row \subseteq Times /\ Cardinality(row) <= 1
ChecksOK == check \in [Checks -> Record]
WritersOK == writer \in [Writers -> WRecord]
HistoryOK == /\ alerts \in [Comments -> Nat] /\ hidden \subseteq Comments
             /\ rewinds \in Nat /\ overlaps \in Nat /\ faults \subseteq Faults /\ writes \in Nat

\* They are the type invariant.
LEMMA TypeParts ==
  TypeOK <=> /\ posted \in 0..MaxComments /\ gone \in BOOLEAN /\ tracked \in BOOLEAN
             /\ RowOK /\ ChecksOK /\ WritersOK /\ HistoryOK
BY DEF TypeOK, RowOK, ChecksOK, WritersOK, HistoryOK, Record, WRecord, CheckSteps, Times, Reads

\* The failures that happen are of the kinds that may.
LEMMA FaultType ==
  ASSUME TypeOK, NoFault \/ \E f \in Faults : Fault(f)
  PROVE  faults' \subseteq Faults
BY DEF TypeOK, NoFault, Fault

\* A failure that happens is of a kind that may.
LEMMA FaultKind == \A f : Fault(f) => f \in Faults
BY DEF Fault

\* What the steps of a check assign to its fields.
LEMMA PcType ==
  ASSUME NEW x \in Record, NEW s \in CheckSteps
  PROVE  [x EXCEPT !.pc = s] \in Record
BY DEF Record

\* What destroyComments is to go on with.
LEMMA ThenType ==
  ASSUME NEW x \in Record, NEW s \in CheckSteps, NEW th \in {"subscribers", "compare"}
  PROVE  [[x EXCEPT !.pc = s] EXCEPT !.then = th] \in Record
BY DEF Record

\* What Find reads.
LEMMA LastType ==
  ASSUME NEW x \in Record, NEW s \in CheckSteps, NEW t \in Reads
  PROVE  [[x EXCEPT !.last = t] EXCEPT !.pc = s] \in Record
BY DEF Record

\* What a fetch returns.
LEMMA GotType ==
  ASSUME NEW x \in Record, NEW s \in CheckSteps, NEW n \in 0..MaxComments
  PROVE  [[x EXCEPT !.got = n] EXCEPT !.pc = s] \in Record
BY DEF Record

\* The fields of a check.
LEMMA FieldTypes ==
  ASSUME NEW x \in Record
  PROVE  x.pc \in CheckSteps /\ x.then \in CheckSteps /\ x.last \in Reads /\ x.got \in 0..MaxComments
BY DEF Record, CheckSteps

\* A check at rest is well typed.
LEMMA IdleType == Idle \in Record /\ WIdle \in WRecord
BY CommentsAssumption DEF Record, CheckSteps, Reads, Idle, WIdle, WRecord

\* A comparison ends the check, or leads to its last step.
LEMMA CompareEnds ==
  ASSUME NEW k \in Checks, check \in [Checks -> Record], Compare(k)
  PROVE  \/ check' = [check EXCEPT ![k] = Idle] /\ (Minute(check[k].got) > check[k].last => check[k].lost)
         \/ /\ check' = [check EXCEPT ![k] = [check[k] EXCEPT !.pc = "send"]]
            /\ Minute(check[k].got) > check[k].last
BY DEF Compare

\* The step of a check changes that check only, and its failures are those of Faults.
LEMMA CheckStep ==
  ASSUME TypeOK, NEW k \in Checks, Step(k)
  PROVE  /\ \E x \in Record : check' = [check EXCEPT ![k] = x]
         /\ faults' \subseteq Faults
<1> DEFINE Changed == \E x \in Record : check' = [check EXCEPT ![k] = x]
           Failed == faults' \subseteq Faults
<1>0. check \in [Checks -> Record]
  BY TypeParts DEF ChecksOK
<1>1. check[k] \in Record
  BY <1>0
<1>2. {"idle", "listed", "fetch", "subscribers", "delete", "del", "compare", "send"} = CheckSteps
  BY DEF CheckSteps
<1>3. ASSUME NEW x \in Record, check' = [check EXCEPT ![k] = x] PROVE Changed
  BY <1>3
<1>4. ASSUME NoFault \/ \E f : Fault(f) PROVE Failed
  BY <1>4, FaultType, FaultKind
<1>5. ASSUME NEW s \in CheckSteps, check' = [check EXCEPT ![k].pc = s] PROVE Changed
  BY <1>1, <1>3, <1>5, PcType
<1>6. CASE List(k)
  BY <1>2, <1>4, <1>5, <1>6 DEF List, counts, NoFault
<1>7. CASE FindNothing(k)
  BY <1>3, <1>4, <1>7, IdleType DEF FindNothing, counts, NoFault
<1>8. CASE Find(k)
  <2>1. PICK t \in row : check' = [check EXCEPT ![k].last = ReadBack(t), ![k].pc = "fetch"]
    BY <1>8 DEF Find
  <2>2. ReadBack(t) \in Reads
    BY TypeParts, ReadType DEF RowOK
  <2>3. Changed
    <3>1. check' = [check EXCEPT ![k] = [[check[k] EXCEPT !.last = ReadBack(t)] EXCEPT !.pc = "fetch"]]
      BY <1>0, <2>1
    <3>2. "fetch" \in CheckSteps
      BY <1>2
    <3> QED
      BY <1>1, <1>3, <2>2, <3>1, <3>2, LastType
  <2> QED
    BY <1>4, <1>8, <2>3 DEF Find, NoFault
<1>9. CASE Fetch(k)
  <2>1. Failed
    BY <1>4, <1>9 DEF Fetch, Page
  <2>2. Changed
    <3>1. ASSUME NEW n \in 0..MaxComments,
                 check' = [check EXCEPT ![k].got = n, ![k].pc = "subscribers"]
          PROVE  Changed
      <4>1. check' = [check EXCEPT ![k] = [[check[k] EXCEPT !.got = n] EXCEPT !.pc = "subscribers"]]
        BY <1>0, <3>1
      <4>2. "subscribers" \in CheckSteps
        BY <1>2
      <4> QED
        BY <1>1, <1>3, <4>1, <4>2, GotType
    <3>2. ASSUME check' = [check EXCEPT ![k].pc = "delete", ![k].then = "subscribers"]
          PROVE  Changed
      <4>1. check' = [check EXCEPT ![k] = [[check[k] EXCEPT !.pc = "delete"] EXCEPT !.then = "subscribers"]]
        BY <1>0, <3>2
      <4>2. "delete" \in CheckSteps
        BY <1>2
      <4> QED
        BY <1>1, <1>3, <4>1, <4>2, ThenType
    <3> QED
      BY <1>9, <3>1, <3>2 DEF Fetch
  <2> QED
    BY <2>1, <2>2
<1>10. CASE CountSubscribers(k)
  <2>1. Failed
    BY <1>4, <1>10 DEF CountSubscribers, Nobody
  <2>2. Changed
    <3>1. ASSUME check' = [check EXCEPT ![k].pc = "delete", ![k].then = "compare"]
          PROVE  Changed
      <4>1. check' = [check EXCEPT ![k] = [[check[k] EXCEPT !.pc = "delete"] EXCEPT !.then = "compare"]]
        BY <1>0, <3>1
      <4>2. "delete" \in CheckSteps
        BY <1>2
      <4> QED
        BY <1>1, <1>3, <4>1, <4>2, ThenType
    <3> QED
      BY <1>2, <1>5, <1>10, <3>1 DEF CountSubscribers
  <2> QED
    BY <2>1, <2>2
<1>11. CASE Delete(k)
  BY <1>1, <1>2, <1>4, <1>5, <1>11, FieldTypes DEF Delete
<1>12. CASE Del(k)
  BY <1>1, <1>2, <1>4, <1>5, <1>12, FieldTypes DEF Del
<1>13. CASE Compare(k)
  <2>1. Failed
    BY <1>4, <1>13 DEF Compare
  <2>2. /\ "send" \in CheckSteps
        /\ \/ check' = [check EXCEPT ![k] = Idle]
           \/ check' = [check EXCEPT ![k] = [check[k] EXCEPT !.pc = "send"]]
    BY <1>0, <1>2, <1>13, CompareEnds
  <2>3. Changed
    BY <1>1, <1>3, <2>2, IdleType, PcType
  <2> QED
    BY <2>1, <2>3
<1>14. CASE Send(k)
  BY <1>3, <1>4, <1>14, IdleType DEF Send, Nobody
<1> QED
  BY <1>6, <1>7, <1>8, <1>9, <1>10, <1>11, <1>12, <1>13, <1>14 DEF Step

\* What each step assigns has its type.
THEOREM TypeCorrect == Spec => []TypeOK
<1>1. Init => TypeOK
  <2> SUFFICES ASSUME Init PROVE TypeOK
    OBVIOUS
  <2>1. row \subseteq Times /\ Cardinality(row) <= 1
    <3>1. row = {0} /\ Cardinality({0}) = 1
      BY FS_Singleton DEF Init
    <3> QED
      BY <3>1 DEF Times
  <2>2. ChecksOK /\ WritersOK
    BY IdleType DEF Init, ChecksOK, WritersOK
  <2>3. posted \in 0..MaxComments
    BY CommentsAssumption DEF Init
  <2>5. gone \in BOOLEAN /\ tracked \in BOOLEAN
    BY DEF Init
  <2>4. HistoryOK
    BY DEF Init, HistoryOK
  <2> QED
    BY <2>1, <2>2, <2>3, <2>4, <2>5, TypeParts DEF RowOK
<1>2. TypeOK /\ [Next]_vars => TypeOK'
  <2> SUFFICES ASSUME TypeOK, [Next]_vars PROVE TypeOK'
    OBVIOUS
  <2> DEFINE Page1 == posted' \in 0..MaxComments /\ gone' \in BOOLEAN /\ tracked' \in BOOLEAN
  <2>0. ASSUME Page1, RowOK', ChecksOK', WritersOK', HistoryOK' PROVE TypeOK'
    BY <2>0, TypeParts DEF TypeOK, RowOK, ChecksOK, WritersOK, HistoryOK, Record, WRecord,
                           CheckSteps, Times, Reads
  <2>10. /\ posted \in 0..MaxComments /\ gone \in BOOLEAN /\ tracked \in BOOLEAN
        /\ RowOK /\ ChecksOK /\ WritersOK /\ HistoryOK
    BY TypeParts
  <2> USE DEF RowOK, ChecksOK, WritersOK, HistoryOK
  <2>1. CASE Post
    BY <2>0, <2>1, <2>10, CommentsAssumption DEF Post, told, counts
  <2>2. CASE Remove
    BY <2>0, <2>2, <2>10 DEF Remove, told, counts
  <2>3. CASE SaveFeed
    <3>1. 0 \in Times
      BY DEF Times
    <3>2. RowOK' /\ rewinds' \in Nat
      BY <2>3, <3>1, SaveType DEF SaveFeed
    <3> QED
      BY <2>0, <2>3, <3>2, <2>10 DEF SaveFeed, told
  <2>4. CASE Restart
    <3>1. Unsent \subseteq Comments
      <4>1. \A k \in Checks : check[k].got \in 0..MaxComments
        BY <2>10, FieldTypes DEF ChecksOK
      <4> QED
        BY <4>1, CommentsAssumption DEF Unsent, New, Comments
    <3>2. ChecksOK' /\ WritersOK'
      BY <2>4, IdleType DEF Restart
    <3>3. faults' \subseteq Faults
      BY <2>4, FaultType, FaultKind DEF Restart
    <3> QED
      BY <2>0, <2>4, <3>1, <3>2, <3>3, <2>10 DEF Restart
  <2>11. CASE Stop
    <3>1. Unsent \subseteq Comments
      <4>1. \A k \in Checks : check[k].got \in 0..MaxComments
        BY <2>10, FieldTypes DEF ChecksOK
      <4> QED
        BY <4>1, CommentsAssumption DEF Unsent, New, Comments
    <3>2. ChecksOK'
      <4>1. \A k \in Checks : [check[k] EXCEPT !.lost = TRUE] \in Record
        BY <2>10 DEF Record
      <4> QED
        BY <2>11, <4>1, IdleType DEF Stop
    <3>3. faults' \subseteq Faults
      BY <2>11, FaultType, FaultKind DEF Stop
    <3> QED
      BY <2>0, <2>11, <3>1, <3>2, <3>3, <2>10 DEF Stop
  <2>5. ASSUME NEW k \in Checks, Step(k) PROVE TypeOK'
    <3> DEFINE Rest == /\ RowOK' /\ tracked' \in BOOLEAN
                       /\ alerts' \in [Comments -> Nat] /\ hidden' \subseteq Comments
                       /\ rewinds' \in Nat /\ overlaps' \in Nat
    <3>1. faults' \subseteq Faults /\ ChecksOK'
      BY <2>5, CheckStep, <2>10
    <3>2. UNCHANGED <<posted, gone, writer, writes>>
      BY <2>5 DEF Step, List, FindNothing, Find, Fetch, CountSubscribers, Delete,
                  Del, Compare, Send, counts
    <3>3. ASSUME UNCHANGED <<row, tracked, told, rewinds, overlaps>> PROVE Rest
      BY <3>3, <2>10 DEF told
    <3>4. ASSUME List(k) \/ FindNothing(k) \/ Fetch(k) \/ CountSubscribers(k) PROVE Rest
      BY <3>3, <3>4 DEF List, FindNothing, Fetch, CountSubscribers, counts
    <3>5. ASSUME Find(k) PROVE Rest
      BY <3>5, <2>10 DEF Find, told
    <3>6. ASSUME Delete(k) PROVE Rest
      <4>1. ASSUME row' = {} PROVE RowOK'
        BY <4>1, FS_EmptySet
      <4>2. ASSUME row' = row PROVE RowOK'
        BY <4>2, <2>10
      <4>3. RowOK'
        BY <3>6, <4>1, <4>2 DEF Delete
      <4> QED
        BY <3>6, <4>3, <2>10 DEF Delete, told
    <3>7. ASSUME Del(k) PROVE Rest
      BY <3>7, <2>10 DEF Del, told
    <3>8. ASSUME Compare(k) PROVE Rest
      <4>1. check[k].got \in 0..MaxComments
        BY <2>10, FieldTypes DEF ChecksOK
      <4>2. Minute(check[k].got) \in Times
        BY <4>1, MinuteType
      <4>3. RowOK' /\ rewinds' \in Nat
        BY <3>8, <4>2, SaveType, <2>10 DEF Compare
      <4>4. hidden' \subseteq Comments
        <5>1. New(check[k].got, check[k].last) \subseteq Comments
          BY <4>1, CommentsAssumption DEF New, Comments
        <5> QED
          BY <3>8, <2>10, <5>1 DEF Compare, Shadowed
      <4> QED
        BY <3>8, <4>3, <4>4, <2>10 DEF Compare
    <3>9. ASSUME Send(k) PROVE Rest
      <4>1. New(check[k].got, check[k].last) \subseteq Comments
        <5>1. check[k].got \in 0..MaxComments
          BY <2>10, FieldTypes DEF ChecksOK
        <5> QED
          BY <5>1, CommentsAssumption DEF New, Comments
      <4>2. alerts' \in [Comments -> Nat] /\ hidden' \subseteq Comments
        BY <3>9, <4>1, <2>10 DEF Send
      <4> QED
        BY <3>9, <4>2, <2>10 DEF Send
    <3>10. Rest
      BY <2>5, <3>4, <3>5, <3>6, <3>7, <3>8, <3>9 DEF Step
    <3> QED
      BY <2>0, <3>1, <3>2, <3>10, <2>10
  <2>6. ASSUME NEW w \in Writers, Begin(w) PROVE TypeOK'
    <3>1. WritersOK'
      BY <2>6, <2>10 DEF Begin, WRecord
    <3> QED
      BY <2>0, <2>6, <3>1, <2>10 DEF Begin, told
  <2>7. ASSUME NEW w \in Writers, FetchAll(w) PROVE TypeOK'
    <3>1. faults' \subseteq Faults
      BY <2>7, FaultType, FaultKind DEF FetchAll, Page
    <3>2. WritersOK'
      BY <2>7, IdleType, <2>10 DEF FetchAll, WRecord
    <3> QED
      BY <2>0, <2>7, <3>1, <3>2, <2>10 DEF FetchAll, told
  <2>8. ASSUME NEW w \in Writers, SaveAll(w) PROVE TypeOK'
    <3>1. writer[w].got \in 0..MaxComments
      BY <2>10 DEF WRecord
    <3>2. RowOK' /\ rewinds' \in Nat
      BY <2>8, <3>1, MinuteType, SaveType, <2>10 DEF SaveAll
    <3>3. hidden' \subseteq Comments
      <4>1. 1..writer[w].got \subseteq Comments
        BY <3>1, CommentsAssumption DEF Comments
      <4>2. Shadowed(writer[w].got) \subseteq Comments
        BY DEF Shadowed
      <4> QED
        BY <2>8, <2>10, <4>1, <4>2 DEF SaveAll
    <3>4. faults' \subseteq Faults
      BY <2>8, FaultType, FaultKind DEF SaveAll
    <3>5. WritersOK'
      BY <2>8, IdleType, <2>10 DEF SaveAll
    <3> QED
      BY <2>0, <2>8, <3>2, <3>3, <3>4, <3>5, <2>10 DEF SaveAll
  <2>9. CASE UNCHANGED vars
    BY <2>0, <2>9, <2>10 DEF vars, told, counts
  <2> QED
    BY <2>1, <2>2, <2>3, <2>4, <2>5, <2>6, <2>7, <2>8, <2>9, <2>11 DEF Next
<1> QED
  BY <1>1, <1>2, PTL DEF Spec

-----------------------------------------------------------------------------
\* destroyComments runs only for an article that PTT has deleted, or whose
\* subscribers Redis could not, or can no longer, name.
Destroys ==
  \A k \in Checks : check[k].pc \in {"delete", "del"} => gone \/ "subscribers" \in faults

\* Failures are remembered, and what is gone stays gone.
LEMMA FaultsGrow ==
  ASSUME TypeOK, [Next]_vars
  PROVE  faults \subseteq faults' /\ (gone => gone')
<1>1. ASSUME NoFault \/ (\E f : Fault(f)) \/ UNCHANGED faults PROVE faults \subseteq faults'
  BY <1>1 DEF NoFault, Fault
<1>2. CASE Post \/ Remove \/ SaveFeed \/ Stop \/ Restart \/ UNCHANGED vars
  BY <1>1, <1>2 DEF Post, Remove, SaveFeed, Stop, Restart, vars, counts
<1>3. ASSUME NEW k \in Checks, Step(k) PROVE faults \subseteq faults' /\ UNCHANGED gone
  <2>1. CASE List(k) \/ FindNothing(k) \/ Find(k)
    BY <2>1 DEF List, FindNothing, Find, counts
  <2>2. CASE Fetch(k) \/ CountSubscribers(k)
    BY <1>1, <2>2 DEF Fetch, CountSubscribers, Page, Nobody
  <2>3. CASE Delete(k) \/ Del(k)
    BY <1>1, <2>3 DEF Delete, Del
  <2>4. CASE Compare(k) \/ Send(k)
    BY <1>1, <2>4 DEF Compare, Send, Nobody
  <2> QED
    BY <1>3, <2>1, <2>2, <2>3, <2>4 DEF Step
<1>4. ASSUME NEW w \in Writers, Begin(w) \/ FetchAll(w) \/ SaveAll(w)
      PROVE  faults \subseteq faults' /\ UNCHANGED gone
  BY <1>1, <1>4 DEF Begin, FetchAll, SaveAll, Page
<1> QED
  BY <1>2, <1>3, <1>4 DEF Next

\* What the steps of a check do to the article's key, and what leads to a deletion.
LEMMA DestroyKept ==
  ASSUME TypeOK, TrackedUntilGone, Destroys, [Next]_vars
  PROVE  TrackedUntilGone' /\ Destroys'
<1> USE DEF TrackedUntilGone, Destroys
<1>1. faults \subseteq faults' /\ (gone => gone')
  BY FaultsGrow
<1>2. check \in [Checks -> Record]
  BY TypeParts DEF ChecksOK
<1>3. ASSUME UNCHANGED tracked,
             \A j \in Checks : check'[j].pc \in {"delete", "del"} => check[j].pc \in {"delete", "del"}
      PROVE  TrackedUntilGone' /\ Destroys'
  BY <1>1, <1>3
<1>4. ASSUME NEW k \in Checks, Step(k) PROVE TrackedUntilGone' /\ Destroys'
  <2>1. PICK x \in Record : check' = [check EXCEPT ![k] = x]
    BY <1>4, CheckStep
  <2>2. check'[k] = x /\ \A j \in Checks \ {k} : check'[j] = check[j]
    BY <1>2, <2>1
  <2>3. ASSUME UNCHANGED tracked, x.pc \notin {"delete", "del"}
        PROVE  TrackedUntilGone' /\ Destroys'
    BY <1>3, <2>2, <2>3
  <2>4. CASE List(k) \/ FindNothing(k) \/ Find(k) \/ Compare(k) \/ Send(k)
    <3>1. ASSUME NEW s, check' = [check EXCEPT ![k].pc = s] PROVE x.pc = s
      BY <1>2, <2>2, <3>1 DEF Record
    <3>2. ASSUME check' = [check EXCEPT ![k] = Idle] PROVE x.pc = "idle"
      BY <1>2, <2>2, <3>2 DEF Idle
    <3>3. ASSUME NEW t, check' = [check EXCEPT ![k].last = t, ![k].pc = "fetch"]
          PROVE  x.pc = "fetch"
      BY <1>2, <2>2, <3>3 DEF Record
    <3>6. ASSUME check' = [check EXCEPT ![k] = [check[k] EXCEPT !.pc = "send"]]
          PROVE  x.pc = "send"
      BY <1>2, <2>2, <3>6 DEF Record
    <3>4. UNCHANGED tracked
      BY <2>4 DEF List, FindNothing, Find, Compare, Send
    <3>5. x.pc \in {"idle", "listed", "fetch", "send"}
      BY <1>2, <2>4, <3>1, <3>2, <3>3, <3>6, CompareEnds DEF List, FindNothing, Find, Send
    <3> QED
      BY <2>3, <3>4, <3>5
  <2>5. CASE Fetch(k)
    <3>1. ASSUME NEW n, check' = [check EXCEPT ![k].got = n, ![k].pc = "subscribers"]
          PROVE  x.pc = "subscribers"
      BY <1>2, <2>2, <3>1 DEF Record
    <3>2. UNCHANGED tracked /\ (gone \/ x.pc = "subscribers")
      BY <2>5, <3>1 DEF Fetch
    <3>3. CASE gone
      BY <1>1, <3>3
    <3>4. CASE x.pc = "subscribers"
      BY <2>3, <3>2, <3>4
    <3> QED
      BY <3>2, <3>3, <3>4
  <2>6. CASE CountSubscribers(k)
    <3>1. UNCHANGED tracked /\ (x.pc \in {"delete", "del"} => Nobody)
      BY <1>2, <2>2, <2>6 DEF CountSubscribers, Record
    <3>2. Nobody => gone \/ "subscribers" \in faults'
      BY <1>1 DEF Nobody, Fault
    <3> QED
      BY <1>1, <2>2, <3>1, <3>2
  <2>7. CASE Delete(k) \/ Del(k)
    <3>1. gone \/ "subscribers" \in faults
      BY <2>7 DEF Delete, Del
    <3> QED
      BY <1>1, <3>1
  <2> QED
    BY <1>4, <2>4, <2>5, <2>6, <2>7 DEF Step
<1>5. CASE Restart \/ Stop
  <2>1. \A j \in Checks : check'[j] = Idle \/ check'[j].pc = check[j].pc
    BY <1>2, <1>5 DEF Restart, Stop, Record
  <2> QED
    BY <1>3, <1>5, <2>1 DEF Restart, Stop, Idle
<1>6. CASE Post \/ Remove \/ SaveFeed \/ UNCHANGED vars
  BY <1>3, <1>6 DEF Post, Remove, SaveFeed, vars
<1>7. ASSUME NEW w \in Writers, Begin(w) \/ FetchAll(w) \/ SaveAll(w)
      PROVE  TrackedUntilGone' /\ Destroys'
  BY <1>3, <1>7 DEF Begin, FetchAll, SaveAll
<1> QED
  BY <1>4, <1>5, <1>6, <1>7 DEF Next

\* Whatever checks, writers and failures interleave, an article loses its subscriber
\* set only when it is gone or Redis has failed to list its subscribers.
THEOREM NoEarlyDestroy == Spec => []TrackedUntilGone
<1>1. Init => TrackedUntilGone /\ Destroys
  BY DEF Init, TrackedUntilGone, Destroys, Idle
<1> QED
  BY <1>1, DestroyKept, TypeCorrect, PTL DEF Spec

-----------------------------------------------------------------------------
\* The reasons NoneMissed knows for a comment that is not new any more.
Explained(c) == alerts[c] > 0 \/ c \in Unsent \/ c \in hidden

\* A comment that the row, or what a check has read of it, makes old is explained.
\* NoneMissed is the first part, for the comments that are posted; a check that
\* has read the row before others wrote it needs the second.
OldByRow(c) == (\E t \in row : At[c] <= ReadBack(t)) => Explained(c)
OldByCheck(c) ==
  \A k \in Checks : Going(k) /\ At[c] <= check[k].last => Explained(c)

MissInv == \A c \in Comments : OldByRow(c) /\ OldByCheck(c)

\* A comment is unsent when a check at its last step has it.
LEMMA UnsentBy ==
  ASSUME NEW c
  PROVE  c \in Unsent <=>
           \E k \in Checks : check[k].pc = "send" /\ c \in New(check[k].got, check[k].last)
BY DEF Unsent

\* No step takes a reason away.
LEMMA StaysExplained ==
  ASSUME TypeOK, [Next]_vars, NEW c \in Comments, Explained(c)
  PROVE  Explained(c)'
<1>1. check \in [Checks -> Record] /\ alerts \in [Comments -> Nat]
  BY TypeParts DEF ChecksOK, HistoryOK
<1>2. ASSUME UNCHANGED <<check, told>> PROVE Explained(c)'
  BY <1>2 DEF Explained, Unsent, New, told
<1>3. CASE Restart \/ Stop
  BY <1>3 DEF Restart, Stop, Explained
<1>4. ASSUME NEW k \in Checks, Step(k) PROVE Explained(c)'
  <2>1. PICK x \in Record : check' = [check EXCEPT ![k] = x]
    BY <1>4, CheckStep
  <2>2. check'[k] = x /\ \A j \in Checks \ {k} : check'[j] = check[j]
    BY <1>1, <2>1
  <2>3. alerts'[c] >= alerts[c] /\ hidden \subseteq hidden'
    BY <1>1, <1>4 DEF Step, List, FindNothing, Find, Fetch, CountSubscribers, Delete, Del,
                      Compare, Send, told
  <2>4. ASSUME NEW j \in Checks \ {k}, check[j].pc = "send",
               c \in New(check[j].got, check[j].last)
        PROVE  Explained(c)'
    <3>1. check'[j].pc = "send" /\ c \in New(check'[j].got, check'[j].last)
      BY <2>2, <2>4
    <3> QED
      BY <3>1 DEF Explained, Unsent, New
  <2>5. ASSUME check[k].pc = "send", c \in New(check[k].got, check[k].last)
        PROVE  Explained(c)'
    <3>1. Send(k)
      BY <1>4, <2>5 DEF Step, List, FindNothing, Find, Fetch, CountSubscribers, Delete, Del,
                        Compare
    <3> QED
      BY <1>1, <2>5, <3>1 DEF Send, Explained
  <2>6. ASSUME c \in Unsent PROVE Explained(c)'
    BY <2>4, <2>5, <2>6, UnsentBy
  <2>7. ASSUME alerts[c] > 0 \/ c \in hidden PROVE Explained(c)'
    <3>1. alerts'[c] > 0 \/ c \in hidden'
      BY <1>1, <1>4, <2>7 DEF Step, List, FindNothing, Find, Fetch, CountSubscribers,
                              Delete, Del, Compare, Send, told
    <3> QED
      BY <3>1 DEF Explained
  <2> QED
    BY <2>6, <2>7 DEF Explained
<1>5. CASE Post \/ Remove \/ SaveFeed \/ UNCHANGED vars
  BY <1>2, <1>5 DEF Post, Remove, SaveFeed, vars
<1>6. ASSUME NEW w \in Writers, Begin(w) \/ FetchAll(w) PROVE Explained(c)'
  BY <1>2, <1>6 DEF Begin, FetchAll
<1>7. ASSUME NEW w \in Writers, SaveAll(w) PROVE Explained(c)'
  <2>1. hidden \subseteq hidden' /\ UNCHANGED <<check, alerts>>
    BY <1>7 DEF SaveAll
  <2> QED
    BY <2>1 DEF Explained, Unsent, New
<1> QED
  BY <1>3, <1>4, <1>5, <1>6, <1>7 DEF Next

\* A comment that the time of a page, read back, makes old is on the page or among
\* those it shadows.
LEMMA OnPage ==
  ASSUME NEW n \in 0..MaxComments, NEW c \in Comments, At[c] <= ReadBack(Minute(n))
  PROVE  c \in 1..n \/ c \in Shadowed(n)
<1>1. n # 0
  BY CommentsAssumption DEF Minute, ReadBack
<1>2. n \in Comments /\ At[c] <= ReadBack(At[n])
  BY <1>1, CommentsAssumption DEF Minute, Comments
<1> QED
  BY <1>1, <1>2 DEF Shadowed, Comments

\* Between Find and Compare a check keeps what it has read of the row.
LEMMA SameLast ==
  ASSUME TypeOK, NEW k \in Checks, Fetch(k) \/ CountSubscribers(k) \/ Delete(k) \/ Del(k)
  PROVE  check'[k].last = check[k].last /\ Going(k)
<1>1. check \in [Checks -> Record]
  BY TypeParts DEF ChecksOK
<1>2. Going(k)
  BY DEF Fetch, CountSubscribers, Delete, Del, Going
<1>3. ASSUME NEW s, check' = [check EXCEPT ![k].pc = s] PROVE check'[k].last = check[k].last
  BY <1>1, <1>3 DEF Record
<1>4. ASSUME NEW s, NEW th, check' = [check EXCEPT ![k].pc = s, ![k].then = th]
      PROVE  check'[k].last = check[k].last
  BY <1>1, <1>4 DEF Record
<1>5. ASSUME NEW s, NEW n, check' = [check EXCEPT ![k].got = n, ![k].pc = s]
      PROVE  check'[k].last = check[k].last
  BY <1>1, <1>5 DEF Record
<1> QED
  BY <1>2, <1>3, <1>4, <1>5 DEF Fetch, CountSubscribers, Delete, Del

\* The saves make old only what is sent next, or hidden.
LEMMA MissKept ==
  ASSUME TypeOK, MissInv, [Next]_vars
  PROVE  MissInv'
<1> SUFFICES ASSUME NEW c \in Comments PROVE OldByRow(c)' /\ OldByCheck(c)'
  BY DEF MissInv
<1>1. OldByRow(c) /\ OldByCheck(c) /\ (Explained(c) => Explained(c)')
  BY StaysExplained DEF MissInv
<1>2. check \in [Checks -> Record]
  BY TypeParts DEF ChecksOK
<1>3. ASSUME row' \subseteq row PROVE OldByRow(c)'
  BY <1>1, <1>3 DEF OldByRow
<1>4. ASSUME UNCHANGED check PROVE OldByCheck(c)'
  BY <1>1, <1>4 DEF OldByCheck, Going
<1>5. ASSUME NEW k \in Checks, Step(k) PROVE OldByRow(c)' /\ OldByCheck(c)'
  <2>1. PICK x \in Record : check' = [check EXCEPT ![k] = x]
    BY <1>5, CheckStep
  <2>2. check'[k] = x /\ \A j \in Checks \ {k} : check'[j] = check[j]
    BY <1>2, <2>1
  <2>3. ASSUME x.pc \notin {"idle", "listed"} /\ At[c] <= x.last => Explained(c)'
        PROVE  OldByCheck(c)'
    BY <1>1, <2>2, <2>3 DEF OldByCheck, Going
  <2>4. CASE List(k) \/ FindNothing(k) \/ Send(k)
    <3>1. UNCHANGED row /\ x.pc \in {"idle", "listed"}
      BY <1>2, <2>2, <2>4 DEF List, FindNothing, Send, Idle, Record
    <3> QED
      BY <1>3, <2>3, <3>1
  <2>5. CASE Find(k)
    <3>1. UNCHANGED row
      BY <2>5 DEF Find
    <3>2. PICK t \in row : check' = [check EXCEPT ![k].last = ReadBack(t), ![k].pc = "fetch"]
      BY <2>5 DEF Find
    <3>3. x.last = ReadBack(t)
      BY <1>2, <2>2, <3>2 DEF Record
    <3>4. At[c] <= x.last => Explained(c)
      BY <1>1, <3>3 DEF OldByRow
    <3> QED
      BY <1>1, <1>3, <2>3, <3>1, <3>4
  <2>6. CASE Fetch(k) \/ CountSubscribers(k) \/ Delete(k) \/ Del(k)
    <3>1. row' \subseteq row
      BY <2>6 DEF Fetch, CountSubscribers, Delete, Del
    <3>2. x.last = check[k].last /\ Going(k)
      BY <2>2, <2>6, SameLast
    <3>3. At[c] <= x.last => Explained(c)
      BY <1>1, <3>2 DEF OldByCheck
    <3> QED
      BY <1>1, <1>3, <2>3, <3>1, <3>3
  <2>7. CASE Compare(k)
    <3> DEFINE n == check[k].got
               last == check[k].last
    <3>1. Going(k) /\ n \in 0..MaxComments /\ last \in Nat /\ Minute(n) \in Nat
      BY <1>2, <2>7, FieldTypes, TimesNat, MinuteType DEF Compare, Going
    <3>2. At[c] <= last => Explained(c)
      BY <1>1, <3>1 DEF OldByCheck
    <3>3. CASE Minute(n) > last
      <4>1. \/ row' = row
            \/ /\ row' = {Minute(n)}
               /\ hidden' = hidden \union Shadowed(n)
                              \union (IF check[k].lost THEN New(n, last) ELSE {})
        BY <2>7, <3>3 DEF Compare, Save
      <4>2. \/ x.pc = "idle" /\ check[k].lost
            \/ x.pc = "send" /\ x.last = last /\ x.got = n
        BY <1>2, <2>2, <2>7, <3>3, CompareEnds DEF Idle, Record
      <4>3. ASSUME At[c] <= ReadBack(Minute(n)), row' = {Minute(n)}, row' # row
            PROVE  Explained(c)'
        <5>1. CASE At[c] <= last
          BY <1>1, <3>2, <5>1
        <5>2. CASE c \in Shadowed(n)
          BY <4>1, <4>3, <5>2 DEF Explained
        <5>3. CASE ~(At[c] <= last) /\ c \in 1..n
          <6>1. At[c] > last
            BY <3>1, <5>3, CommentsAssumption
          <6>2. c \in New(n, last)
            BY <5>3, <6>1 DEF New
          <6>3. CASE x.pc = "idle" /\ check[k].lost
            <7>1. c \in hidden'
              BY <4>1, <4>3, <6>2, <6>3
            <7> QED
              BY <7>1 DEF Explained
          <6>4. CASE x.pc = "send" /\ x.last = last /\ x.got = n
            <7>1. check'[k].pc = "send" /\ c \in New(check'[k].got, check'[k].last)
              BY <2>2, <6>2, <6>4
            <7> QED
              BY <7>1 DEF Explained, Unsent, New
          <6> QED
            BY <4>2, <6>3, <6>4
        <5> QED
          BY <3>1, <4>3, <5>1, <5>2, <5>3, OnPage
      <4>4. OldByRow(c)'
        <5>1. CASE row' = row
          BY <1>3, <5>1
        <5>2. CASE row' = {Minute(n)} /\ row' # row
          BY <4>3, <5>2 DEF OldByRow
        <5> QED
          BY <4>1, <5>1, <5>2
      <4>5. x.pc \notin {"idle", "listed"} => x.last = last
        BY <4>2
      <4> QED
        BY <1>1, <2>3, <3>2, <4>4, <4>5
    <3>4. CASE ~(Minute(n) > last)
      <4>1. UNCHANGED row /\ x.pc = "idle"
        BY <1>2, <2>2, <2>7, <3>4 DEF Compare, Idle
      <4> QED
        BY <1>3, <2>3, <4>1
    <3> QED
      BY <3>3, <3>4
  <2> QED
    BY <1>5, <2>4, <2>5, <2>6, <2>7 DEF Step
<1>6. ASSUME NEW w \in Writers, SaveAll(w) PROVE OldByRow(c)' /\ OldByCheck(c)'
  <2> DEFINE n == writer[w].got
  <2>1. n \in 0..MaxComments
    BY TypeParts DEF WritersOK, WRecord
  <2>2. CASE row' = row
    BY <1>3, <1>4, <1>6, <2>2 DEF SaveAll
  <2>3. CASE row' # row
    <3>1. row' = {Minute(n)} /\ hidden' = hidden \union (1..n) \union Shadowed(n)
      BY <1>6, <2>3 DEF SaveAll, Save
    <3>2. At[c] <= ReadBack(Minute(n)) => c \in hidden'
      BY <2>1, <3>1, OnPage
    <3>3. OldByRow(c)'
      BY <3>1, <3>2 DEF OldByRow, Explained
    <3> QED
      BY <1>4, <1>6, <3>3 DEF SaveAll
  <2> QED
    BY <2>2, <2>3
<1>7. CASE SaveFeed
  <2>1. row' = {0} /\ UNCHANGED check
    BY <1>7 DEF SaveFeed, Save
  <2>2. ~(At[c] <= 0)
    BY CommentsAssumption
  <2> QED
    BY <1>4, <2>1, <2>2 DEF OldByRow, ReadBack
<1>8. CASE Restart
  <2>1. \A k \in Checks : ~Going(k)'
    BY <1>8 DEF Restart, Going, Idle
  <2>2. OldByCheck(c)'
    BY <2>1 DEF OldByCheck
  <2> QED
    BY <1>3, <1>8, <2>2 DEF Restart
<1>9. CASE Post \/ Remove \/ UNCHANGED vars
  BY <1>3, <1>4, <1>9 DEF Post, Remove, vars
<1>11. CASE Stop
  <2>1. \A k \in Checks : Going(k)' => Going(k) /\ check'[k].last = check[k].last
    BY <1>2, <1>11 DEF Stop, Going, Idle, Record
  <2>2. OldByCheck(c)'
    BY <1>1, <2>1 DEF OldByCheck
  <2> QED
    BY <1>3, <1>11, <2>2 DEF Stop
<1>10. ASSUME NEW w \in Writers, Begin(w) \/ FetchAll(w) PROVE OldByRow(c)' /\ OldByCheck(c)'
  BY <1>3, <1>4, <1>10 DEF Begin, FetchAll
<1> QED
  BY <1>5, <1>6, <1>7, <1>8, <1>9, <1>10, <1>11 DEF Next

\* No interleaving of checks with the other writers of the row, and no failure,
\* loses a comment for a reason that NoneMissed does not name.
THEOREM NoOtherMiss == Spec => []NoneMissed
<1>1. Init => MissInv
  <2> SUFFICES ASSUME Init, NEW c \in Comments PROVE OldByRow(c) /\ OldByCheck(c)
    BY DEF MissInv
  <2>1. ~(At[c] <= 0) /\ row = {0} /\ \A k \in Checks : ~Going(k)
    BY CommentsAssumption DEF Init, Going, Idle
  <2> QED
    BY <2>1 DEF OldByRow, OldByCheck, ReadBack
<1>2. TypeOK /\ MissInv => NoneMissed
  <2>1. TypeOK => 1..posted \subseteq Comments
    BY CommentsAssumption DEF TypeOK, Comments
  <2> QED
    BY <2>1 DEF MissInv, OldByRow, NoneMissed, Explained
<1> QED
  BY <1>1, <1>2, MissKept, TypeCorrect, PTL DEF Spec

-----------------------------------------------------------------------------
\* A check that has read a time before a comment may still alert to it; one at its
\* last step, with the comment on its page, will.
IsReady(x, c) == x.pc \in {"fetch", "subscribers", "delete", "del", "compare"} /\ At[c] > x.last
IsSending(x, c) == x.pc = "send" /\ c \in New(x.got, x.last)
Ready(c) == {k \in Checks : IsReady(check[k], c)}
Sending(c) == {k \in Checks : IsSending(check[k], c)}

\* 1 when the next check to read the row will take a comment for new.
Open(c) == IF \E t \in row : At[c] > t THEN 1 ELSE 0

\* What may make a comment new again.
Total == rewinds + overlaps + Cardinality(faults \intersect {"save"})

\* The alerts given, those on their way, and those a check may still decide on, or
\* the row makes the next check decide on, are one and one more for each cause.
Balance(c) ==
  /\ alerts[c] + Cardinality(Sending(c)) + Cardinality(Ready(c)) <= 1 + Total
  /\ alerts[c] + Cardinality(Sending(c)) + Open(c) <= 1 + Total

\* The checks can be counted.
LEMMA CountTypes ==
  ASSUME NEW c
  PROVE  /\ IsFiniteSet(Ready(c)) /\ Cardinality(Ready(c)) \in Nat
         /\ IsFiniteSet(Sending(c)) /\ Cardinality(Sending(c)) \in Nat
BY CommentsAssumption, FS_Subset, FS_CardinalityType DEF Ready, Sending

\* So can the failed saves, of which there is one at most.
LEMMA SavesType ==
  ASSUME NEW S
  PROVE  Cardinality(S \intersect {"save"}) = IF "save" \in S THEN 1 ELSE 0
<1>1. CASE "save" \in S
  <2>1. S \intersect {"save"} = {"save"}
    BY <1>1
  <2> QED
    BY <1>1, <2>1, FS_Singleton
<1>2. CASE "save" \notin S
  <2>1. S \intersect {"save"} = {}
    BY <1>2
  <2> QED
    BY <1>2, <2>1, FS_EmptySet
<1> QED
  BY <1>1, <1>2

\* The causes are counted by numbers.
LEMMA TotalType == TypeOK => Total \in Nat
<1>1. Cardinality(faults \intersect {"save"}) \in Nat
  BY SavesType
<1> QED
  BY <1>1 DEF Total, TypeOK

\* A save makes no comment new, or counts as a rewind.
LEMMA SaveOpens ==
  ASSUME TypeOK, NEW t \in Times, Save(t), NEW c \in Comments
  PROVE  rewinds' >= rewinds /\ (Open(c)' <= Open(c) \/ rewinds' = rewinds + 1)
<1>1. row \subseteq Nat /\ t \in Nat /\ At[c] \in Nat /\ rewinds \in Nat
  BY TypeParts, TimesNat, CommentsAssumption DEF RowOK, HistoryOK
<1>2. CASE \E r \in row : r <= t
  <2>1. (At[c] > t) => \E r \in row : At[c] > r
    BY <1>1, <1>2
  <2>2. Open(c)' = IF At[c] > t THEN 1 ELSE 0
    BY DEF Save, Open
  <2> QED
    BY <1>1, <1>2, <2>1, <2>2 DEF Save, Open
<1>3. CASE ~\E r \in row : r <= t
  BY <1>1, <1>3 DEF Save
<1> QED
  BY <1>2, <1>3

\* No step takes a cause back.
LEMMA TotalGrows ==
  ASSUME TypeOK, TypeOK', faults \subseteq faults', rewinds' >= rewinds, overlaps' >= overlaps
  PROVE  Total' >= Total /\ (rewinds' = rewinds + 1 \/ overlaps' = overlaps + 1 => Total' >= Total + 1)
<1>1. Cardinality(faults' \intersect {"save"}) >= Cardinality(faults \intersect {"save"})
  BY SavesType
<1>2. /\ Cardinality(faults' \intersect {"save"}) \in Nat
      /\ Cardinality(faults \intersect {"save"}) \in Nat
  BY SavesType
<1> QED
  BY <1>1, <1>2 DEF Total, TypeOK

\* Nothing that may make a comment new again goes on.
LEMMA BalanceQuiet ==
  ASSUME TypeOK, TypeOK', NEW c \in Comments, Balance(c),
         Total' >= Total, alerts'[c] = alerts[c],
         Cardinality(Ready(c))' <= Cardinality(Ready(c)),
         Cardinality(Sending(c))' <= Cardinality(Sending(c)),
         Open(c)' <= Open(c) \/ Total' >= Total + 1
  PROVE  Balance(c)'
<1>0. Cardinality(faults' \intersect {"save"}) \in Nat
  BY SavesType
<1>1. Total \in Nat /\ Total' \in Nat
  BY <1>0, TotalType DEF Total, TypeOK
<1>2. alerts[c] \in Nat
  BY DEF TypeOK
<1>3. Cardinality(Ready(c))' \in Nat /\ Cardinality(Sending(c))' \in Nat
  <2>1. Ready(c)' \in SUBSET Checks /\ Sending(c)' \in SUBSET Checks
    BY DEF Ready, Sending
  <2>2. IsFiniteSet(Checks)
    BY CommentsAssumption
  <2>3. IsFiniteSet(Ready(c)') /\ IsFiniteSet(Sending(c)')
    BY <2>1, <2>2, FS_Subset
  <2> QED
    BY <2>3, FS_CardinalityType
<1>4. Open(c) \in 0..1 /\ Open(c)' \in 0..1
  BY DEF Open
<1> QED
  BY <1>1, <1>2, <1>3, <1>4, CountTypes DEF Balance

\* What the step of one check does to the two counts.
LEMMA CountStep ==
  ASSUME TypeOK, NEW c \in Comments, NEW k \in Checks, NEW x \in Record,
         check' = [check EXCEPT ![k] = x]
  PROVE  /\ Cardinality(Ready(c))' = Cardinality(Ready(c))
                - (IF IsReady(check[k], c) THEN 1 ELSE 0) + (IF IsReady(x, c) THEN 1 ELSE 0)
         /\ Cardinality(Sending(c))' = Cardinality(Sending(c))
                - (IF IsSending(check[k], c) THEN 1 ELSE 0) + (IF IsSending(x, c) THEN 1 ELSE 0)
<1>1. check'[k] = x /\ \A j \in Checks \ {k} : check'[j] = check[j]
  BY TypeParts DEF ChecksOK
<1>2. Ready(c)' = {j \in Checks : IsReady(check'[j], c)}
  BY DEF Ready, IsReady
<1>3. Sending(c)' = {j \in Checks : IsSending(check'[j], c)}
  BY DEF Sending, IsSending, New
<1>4. Ready(c)' = IF IsReady(x, c) THEN Ready(c) \union {k} ELSE Ready(c) \ {k}
  BY <1>1, <1>2 DEF Ready
<1>5. Sending(c)' = IF IsSending(x, c) THEN Sending(c) \union {k} ELSE Sending(c) \ {k}
  BY <1>1, <1>3 DEF Sending
<1>6. (k \in Ready(c) <=> IsReady(check[k], c)) /\ (k \in Sending(c) <=> IsSending(check[k], c))
  BY DEF Ready, Sending
<1>7. Cardinality(Ready(c) \union {k}) =
        IF IsReady(check[k], c) THEN Cardinality(Ready(c)) ELSE Cardinality(Ready(c)) + 1
  BY <1>6, CountTypes, FS_AddElement
<1>8. Cardinality(Ready(c) \ {k}) =
        IF IsReady(check[k], c) THEN Cardinality(Ready(c)) - 1 ELSE Cardinality(Ready(c))
  BY <1>6, CountTypes, FS_RemoveElement
<1>9. Cardinality(Sending(c) \union {k}) =
        IF IsSending(check[k], c) THEN Cardinality(Sending(c)) ELSE Cardinality(Sending(c)) + 1
  BY <1>6, CountTypes, FS_AddElement
<1>10. Cardinality(Sending(c) \ {k}) =
        IF IsSending(check[k], c) THEN Cardinality(Sending(c)) - 1 ELSE Cardinality(Sending(c))
  BY <1>6, CountTypes, FS_RemoveElement
<1>11. Cardinality(Ready(c)) \in Nat /\ Cardinality(Sending(c)) \in Nat
  BY CountTypes
<1>12. Cardinality(Ready(c))' = Cardinality(Ready(c)')
  OBVIOUS
<1>13. Cardinality(Sending(c))' = Cardinality(Sending(c)')
  OBVIOUS
<1>14. Cardinality(Ready(c)') = Cardinality(Ready(c))
                - (IF IsReady(check[k], c) THEN 1 ELSE 0) + (IF IsReady(x, c) THEN 1 ELSE 0)
  BY <1>4, <1>7, <1>8, <1>11
<1>15. Cardinality(Sending(c)') = Cardinality(Sending(c))
                - (IF IsSending(check[k], c) THEN 1 ELSE 0) + (IF IsSending(x, c) THEN 1 ELSE 0)
  BY <1>5, <1>9, <1>10, <1>11
<1> QED
  BY <1>12, <1>13, <1>14, <1>15

\* The step of one check that may alert to no more than before.
LEMMA CountLess ==
  ASSUME TypeOK, NEW c \in Comments, NEW k \in Checks, NEW x \in Record,
         check' = [check EXCEPT ![k] = x],
         IsReady(x, c) => IsReady(check[k], c),
         IsSending(x, c) => IsSending(check[k], c)
  PROVE  /\ Cardinality(Ready(c))' <= Cardinality(Ready(c))
         /\ Cardinality(Sending(c))' <= Cardinality(Sending(c))
<1>1. /\ Cardinality(Ready(c)) \in Nat /\ Cardinality(Sending(c)) \in Nat
  BY CountTypes
<1>2. Cardinality(Ready(c))' = Cardinality(Ready(c))
              - (IF IsReady(check[k], c) THEN 1 ELSE 0) + (IF IsReady(x, c) THEN 1 ELSE 0)
  BY CountStep
<1>3. Cardinality(Sending(c))' = Cardinality(Sending(c))
              - (IF IsSending(check[k], c) THEN 1 ELSE 0) + (IF IsSending(x, c) THEN 1 ELSE 0)
  BY CountStep
<1> QED
  BY <1>1, <1>2, <1>3

\* The step of a check that leaves the row and the causes: Fetch to Del.
LEMMA CheckOnly ==
  ASSUME TypeOK, TypeOK', NEW c \in Comments, Balance(c), faults \subseteq faults',
         NEW k \in Checks, NEW x \in Record, check' = [check EXCEPT ![k] = x],
         row' \subseteq row, UNCHANGED <<alerts, rewinds, overlaps>>,
         IsReady(x, c) => IsReady(check[k], c),
         IsSending(x, c) => IsSending(check[k], c)
  PROVE  Balance(c)'
<1>1. Total' >= Total
  BY TotalGrows DEF TypeOK
<1>2. Open(c)' <= Open(c)
  BY DEF Open
<1>3. /\ Cardinality(Ready(c))' <= Cardinality(Ready(c))
      /\ Cardinality(Sending(c))' <= Cardinality(Sending(c))
  BY CountLess
<1> QED
  BY <1>1, <1>2, <1>3, BalanceQuiet

\* The end of a check puts it at rest.
LEMMA AtRest ==
  ASSUME TypeOK, NEW k \in Checks, NEW x, check' = [check EXCEPT ![k] = x],
         check' = [check EXCEPT ![k] = Idle]
  PROVE  x.pc = "idle"
<1>1. check \in [Checks -> Record] /\ check'[k] = x
  BY TypeParts DEF ChecksOK
<1> QED
  BY <1>1 DEF Idle

\* Find begins a check that may alert to what the row makes new; if no other is on
\* its way, that one alert is all there can be.
LEMMA BalanceFind ==
  ASSUME TypeOK, TypeOK', NEW c \in Comments, Balance(c), NEW k \in Checks, Find(k)
  PROVE  Balance(c)'
<1>1. PICK t \in row : check' = [check EXCEPT ![k].last = ReadBack(t), ![k].pc = "fetch"]
  BY DEF Find
<1>2. PICK x \in Record : check' = [check EXCEPT ![k] = x]
  BY CheckStep DEF Step
<1>3. x.pc = "fetch" /\ x.last = ReadBack(t)
  <2>1. check \in [Checks -> Record] /\ check'[k] = x
    BY <1>2, TypeParts DEF ChecksOK
  <2> QED
    BY <1>1, <2>1 DEF Record
<1>4. /\ check[k].pc = "listed" /\ UNCHANGED <<row, alerts, rewinds, faults>>
      /\ IF \E j \in Checks : Going(j) THEN overlaps' = overlaps + 1 ELSE UNCHANGED overlaps
  BY DEF Find, told
<1>5. ~IsReady(check[k], c) /\ ~IsSending(check[k], c) /\ ~IsSending(x, c)
  BY <1>3, <1>4 DEF IsReady, IsSending
<1>6. Open(c)' = Open(c) /\ (IsReady(x, c) => Open(c) = 1) /\ Open(c) \in 0..1
  <2>1. t \in Nat /\ ReadBack(t) \in Nat /\ ReadBack(t) >= t /\ At[c] \in Nat
    BY <1>1, TypeParts, TimesNat, ReadType, CommentsAssumption DEF RowOK
  <2>2. IsReady(x, c) => At[c] > t
    BY <1>3, <2>1 DEF IsReady
  <2> QED
    BY <1>1, <1>4, <2>2 DEF Open
<1>7. /\ Cardinality(Sending(c))' = Cardinality(Sending(c))
      /\ Cardinality(Ready(c))' = Cardinality(Ready(c)) + (IF IsReady(x, c) THEN 1 ELSE 0)
  <2>1. /\ Cardinality(Ready(c)) \in Nat /\ Cardinality(Sending(c)) \in Nat
    BY CountTypes
  <2>2. Cardinality(Ready(c))' = Cardinality(Ready(c))
                - (IF IsReady(check[k], c) THEN 1 ELSE 0) + (IF IsReady(x, c) THEN 1 ELSE 0)
    BY <1>2, CountStep
  <2>3. Cardinality(Sending(c))' = Cardinality(Sending(c))
                - (IF IsSending(check[k], c) THEN 1 ELSE 0) + (IF IsSending(x, c) THEN 1 ELSE 0)
    BY <1>2, CountStep
  <2> QED
    BY <1>2, <1>5, <2>1, <2>2, <2>3
<1>8. alerts[c] \in Nat /\ Total \in Nat /\ alerts' = alerts
  BY <1>4, TotalType DEF TypeOK
<1>9. CASE \E j \in Checks : Going(j)
  <2>1. Total' >= Total + 1
    BY <1>4, <1>9, TotalGrows DEF TypeOK
  <2>2. Total' \in Nat
    <3>1. Cardinality(faults' \intersect {"save"}) \in Nat
      BY SavesType
    <3> QED
      BY <3>1 DEF Total, TypeOK
  <2> QED
    BY <1>6, <1>7, <1>8, <2>1, <2>2, CountTypes DEF Balance
<1>10. CASE ~\E j \in Checks : Going(j)
  <2>1. Ready(c) = {} /\ Sending(c) = {}
    BY <1>10 DEF Ready, Sending, IsReady, IsSending, Going
  <2>2. Cardinality(Ready(c)) = 0 /\ Cardinality(Sending(c)) = 0
    BY <2>1, FS_EmptySet
  <2>3. Total' = Total
    BY <1>4, <1>10 DEF Total
  <2> QED
    BY <1>6, <1>7, <1>8, <2>2, <2>3 DEF Balance
<1> QED
  BY <1>9, <1>10

\* Compare turns a possible alert into a certain one, and makes the row say so, or
\* counts the save that failed.
LEMMA BalanceCompare ==
  ASSUME TypeOK, TypeOK', NEW c \in Comments, Balance(c), NEW k \in Checks, Compare(k),
         faults \subseteq faults'
  PROVE  Balance(c)'
<1> DEFINE n == check[k].got
           last == check[k].last
<1>1. PICK x \in Record : check' = [check EXCEPT ![k] = x]
  BY CheckStep DEF Step
<1>2. n \in 0..MaxComments /\ last \in Nat /\ Minute(n) \in Times /\ Minute(n) \in Nat
  BY TypeParts, FieldTypes, TimesNat, MinuteType DEF ChecksOK
<1>3. check[k].pc = "compare" /\ UNCHANGED <<alerts, overlaps>>
  BY DEF Compare
<1>4. ~IsSending(check[k], c)
  BY <1>3 DEF IsSending
<1>5. CASE ~(Minute(n) > last)
  <2>1. check' = [check EXCEPT ![k] = Idle] /\ UNCHANGED <<row, rewinds>>
    BY <1>5 DEF Compare
  <2>2. x.pc = "idle"
    BY <1>1, <2>1, AtRest
  <2> QED
    BY <1>1, <1>3, <2>1, <2>2, CheckOnly DEF IsReady, IsSending
<1>6. CASE Minute(n) > last /\ ~check[k].lost
  <2>1. \/ NoFault /\ Save(Minute(n))
        \/ Fault("save") /\ UNCHANGED <<row, rewinds>>
    BY <1>6 DEF Compare
  <2>2. x.pc = "send" /\ x.last = last /\ x.got = n
    <3>1. check \in [Checks -> Record] /\ check[k].lost \in BOOLEAN /\ check'[k] = x
      BY <1>1, TypeParts DEF ChecksOK, Record
    <3>2. x = [check[k] EXCEPT !.pc = "send"]
      BY <1>6, <3>1, CompareEnds
    <3> QED
      BY <3>1, <3>2 DEF Record
  <2>3. ~IsReady(x, c) /\ (IsSending(x, c) <=> c \in New(n, last))
    BY <2>2 DEF IsReady, IsSending
  <2>4. c \in New(n, last) => IsReady(check[k], c)
    BY <1>3 DEF New, IsReady
  <2>5. /\ Cardinality(Ready(c))' = Cardinality(Ready(c)) - (IF IsReady(check[k], c) THEN 1 ELSE 0)
        /\ Cardinality(Sending(c))' = Cardinality(Sending(c)) + (IF c \in New(n, last) THEN 1 ELSE 0)
    <3>1. /\ Cardinality(Ready(c)) \in Nat /\ Cardinality(Sending(c)) \in Nat
      BY CountTypes
    <3>2. Cardinality(Ready(c))' = Cardinality(Ready(c))
                  - (IF IsReady(check[k], c) THEN 1 ELSE 0) + (IF IsReady(x, c) THEN 1 ELSE 0)
      BY <1>1, CountStep
    <3>3. Cardinality(Sending(c))' = Cardinality(Sending(c))
                  - (IF IsSending(check[k], c) THEN 1 ELSE 0) + (IF IsSending(x, c) THEN 1 ELSE 0)
      BY <1>1, CountStep
    <3> QED
      BY <1>1, <1>4, <2>3, <3>1, <3>2, <3>3
  <2>6. rewinds' >= rewinds /\ rewinds \in Nat /\ overlaps' >= overlaps
    BY <1>2, <1>3, <2>1, SaveOpens DEF TypeOK
  <2>7. Total' >= Total /\ (rewinds' = rewinds + 1 => Total' >= Total + 1)
    BY <2>6, TotalGrows
  <2>8. Open(c)' <= Open(c) \/ Total' >= Total + 1
    <3>1. CASE NoFault /\ Save(Minute(n))
      BY <1>2, <2>7, <3>1, SaveOpens
    <3>2. CASE UNCHANGED <<row, rewinds>>
      BY <3>2 DEF Open
    <3> QED
      BY <2>1, <3>1, <3>2
  <2>9. c \in New(n, last) => Open(c)' = 0 \/ Total' >= Total + 1
    <3>1. CASE NoFault /\ Save(Minute(n))
      <4>1. c \in New(n, last) => ~(At[c] > Minute(n))
        <5>1. SUFFICES ASSUME c \in New(n, last) PROVE ~(At[c] > Minute(n))
          OBVIOUS
        <5>2. c \in 1..n /\ n # 0 /\ n \in Comments /\ Minute(n) = At[n]
          BY <1>2, <5>1, CommentsAssumption DEF New, Minute, Comments
        <5>3. At[c] <= At[n] /\ At[c] \in Nat /\ At[n] \in Nat
          BY <5>2, CommentsAssumption DEF Comments
        <5> QED
          BY <5>2, <5>3
      <4> QED
        BY <3>1, <4>1 DEF Save, Open
    <3>2. CASE Fault("save") /\ UNCHANGED <<row, rewinds>>
      <4>1. "save" \notin faults /\ "save" \in faults'
        BY <3>2 DEF Fault
      <4>2. /\ Cardinality(faults \intersect {"save"}) = 0
            /\ Cardinality(faults' \intersect {"save"}) = 1
        BY <4>1, SavesType
      <4>3. Total' >= Total + 1
        BY <1>3, <3>2, <4>2 DEF Total, TypeOK
      <4> QED
        BY <4>3
    <3> QED
      BY <2>1, <3>1, <3>2
  <2>10. alerts[c] \in Nat /\ Total \in Nat /\ Total' \in Nat /\ alerts' = alerts
    <3>1. Cardinality(faults' \intersect {"save"}) \in Nat
      BY SavesType
    <3> QED
      BY <1>3, <3>1, TotalType DEF Total, TypeOK
  <2>11. Open(c) \in 0..1 /\ Open(c)' \in 0..1
    BY DEF Open
  <2>12. IsReady(check[k], c) => Cardinality(Ready(c)) >= 1
    <3>1. k \in Ready(c) <=> IsReady(check[k], c)
      BY DEF Ready
    <3>2. Cardinality(Ready(c)) = 0 => Ready(c) = {}
      BY CountTypes, FS_EmptySet
    <3> QED
      BY <3>1, <3>2, CountTypes
  <2>13. CASE c \in New(n, last)
    BY <2>4, <2>5, <2>7, <2>9, <2>10, <2>11, <2>12, <2>13, CountTypes DEF Balance
  <2>14. CASE c \notin New(n, last)
    BY <2>5, <2>7, <2>8, <2>10, <2>11, <2>12, <2>14, CountTypes DEF Balance
  <2> QED
    BY <2>13, <2>14
<1>7. CASE Minute(n) > last /\ check[k].lost
  <2>1. \/ NoFault /\ Save(Minute(n))
        \/ Fault("save") /\ UNCHANGED <<row, rewinds>>
    BY <1>7 DEF Compare
  <2>2. x.pc = "idle"
    <3>1. check' = [check EXCEPT ![k] = Idle]
      BY <1>7 DEF Compare
    <3> QED
      BY <1>1, <3>1, AtRest
  <2>3. ~IsReady(x, c) /\ ~IsSending(x, c)
    BY <2>2 DEF IsReady, IsSending
  <2>4. /\ Cardinality(Ready(c))' <= Cardinality(Ready(c))
        /\ Cardinality(Sending(c))' <= Cardinality(Sending(c))
    BY <1>1, <2>3, CountLess
  <2>5. rewinds' >= rewinds /\ (Open(c)' <= Open(c) \/ rewinds' = rewinds + 1)
    <3>1. CASE Save(Minute(n))
      BY <1>2, <3>1, SaveOpens
    <3>2. CASE UNCHANGED <<row, rewinds>>
      BY <3>2 DEF Open, TypeOK
    <3> QED
      BY <2>1, <3>1, <3>2
  <2>6. overlaps' >= overlaps
    BY <1>3 DEF TypeOK
  <2>7. Total' >= Total /\ (rewinds' = rewinds + 1 => Total' >= Total + 1)
    BY <2>5, <2>6, TotalGrows
  <2> QED
    BY <1>3, <2>4, <2>5, <2>7, BalanceQuiet
<1> QED
  BY <1>5, <1>6, <1>7

\* Send makes a certain alert a given one.
LEMMA BalanceSend ==
  ASSUME TypeOK, TypeOK', NEW c \in Comments, Balance(c), NEW k \in Checks, Send(k),
         faults \subseteq faults'
  PROVE  Balance(c)'
<1>1. PICK x \in Record : check' = [check EXCEPT ![k] = x]
  BY CheckStep DEF Step
<1>2. x.pc = "idle"
  BY <1>1, AtRest DEF Send
<1>3. check[k].pc = "send" /\ UNCHANGED <<row, rewinds, overlaps>>
  BY DEF Send
<1>4. ~IsReady(x, c) /\ ~IsSending(x, c) /\ ~IsReady(check[k], c)
  BY <1>2, <1>3 DEF IsReady, IsSending
<1>5. IsSending(check[k], c) <=> c \in New(check[k].got, check[k].last)
  BY <1>3 DEF IsSending
<1>6. alerts'[c] \in {alerts[c], alerts[c] + 1} /\ (alerts'[c] # alerts[c] => IsSending(check[k], c))
  BY <1>5 DEF Send, TypeOK
<1>7. /\ Cardinality(Ready(c))' = Cardinality(Ready(c))
      /\ Cardinality(Sending(c))' = Cardinality(Sending(c)) - (IF IsSending(check[k], c) THEN 1 ELSE 0)
  <2>1. /\ Cardinality(Ready(c)) \in Nat /\ Cardinality(Sending(c)) \in Nat
    BY CountTypes
  <2>2. Cardinality(Ready(c))' = Cardinality(Ready(c))
                - (IF IsReady(check[k], c) THEN 1 ELSE 0) + (IF IsReady(x, c) THEN 1 ELSE 0)
    BY <1>1, CountStep
  <2>3. Cardinality(Sending(c))' = Cardinality(Sending(c))
                - (IF IsSending(check[k], c) THEN 1 ELSE 0) + (IF IsSending(x, c) THEN 1 ELSE 0)
    BY <1>1, CountStep
  <2> QED
    BY <1>1, <1>4, <2>1, <2>2, <2>3
<1>8. Total' >= Total /\ Total \in Nat /\ Total' \in Nat
  <2>1. Cardinality(faults' \intersect {"save"}) \in Nat
    BY SavesType
  <2> QED
    BY <1>3, <2>1, TotalGrows, TotalType DEF Total, TypeOK
<1>9. alerts[c] \in Nat /\ Open(c)' = Open(c) /\ Open(c) \in 0..1
  BY <1>3 DEF TypeOK, Open
<1> QED
  BY <1>6, <1>7, <1>8, <1>9, CountTypes DEF Balance

\* No step makes more alerts than there are causes.
LEMMA BalanceKept ==
  ASSUME TypeOK, TypeOK', NEW c \in Comments, Balance(c), [Next]_vars
  PROVE  Balance(c)'
<1>1. faults \subseteq faults'
  BY FaultsGrow
<1>2. ASSUME UNCHANGED <<check, alerts>>, rewinds' >= rewinds, UNCHANGED overlaps,
             Open(c)' <= Open(c) \/ rewinds' = rewinds + 1
      PROVE  Balance(c)'
  <2>1. overlaps' >= overlaps
    BY <1>2 DEF TypeOK
  <2>2. Total' >= Total /\ (rewinds' = rewinds + 1 => Total' >= Total + 1)
    BY <1>1, <1>2, <2>1, TotalGrows
  <2>3. Ready(c)' = Ready(c) /\ Sending(c)' = Sending(c)
    BY <1>2 DEF Ready, Sending, IsReady, IsSending, New
  <2>4. /\ Cardinality(Ready(c))' <= Cardinality(Ready(c))
        /\ Cardinality(Sending(c))' <= Cardinality(Sending(c))
    BY <2>3, CountTypes
  <2> QED
    BY <1>2, <2>2, <2>4, BalanceQuiet
<1>3. ASSUME UNCHANGED <<check, alerts, row, rewinds, overlaps>> PROVE Balance(c)'
  <2>1. rewinds' >= rewinds /\ Open(c)' <= Open(c)
    BY <1>3 DEF TypeOK, Open
  <2> QED
    BY <1>2, <1>3, <2>1
<1>4. CASE Post \/ Remove \/ UNCHANGED vars
  BY <1>3, <1>4 DEF Post, Remove, vars, told, counts
<1>5. ASSUME NEW w \in Writers, Begin(w) \/ FetchAll(w) PROVE Balance(c)'
  BY <1>3, <1>5 DEF Begin, FetchAll, told
<1>6. CASE SaveFeed
  <2>1. 0 \in Times
    BY DEF Times
  <2> QED
    BY <1>2, <1>6, <2>1, SaveOpens DEF SaveFeed, told
<1>7. ASSUME NEW w \in Writers, SaveAll(w) PROVE Balance(c)'
  <2>1. Minute(writer[w].got) \in Times
    BY TypeParts, MinuteType DEF WritersOK, WRecord
  <2>2. CASE Save(Minute(writer[w].got))
    BY <1>2, <1>7, <2>1, <2>2, SaveOpens DEF SaveAll
  <2>3. CASE UNCHANGED <<row, rewinds>>
    BY <1>3, <1>7, <2>3 DEF SaveAll
  <2> QED
    BY <1>7, <2>2, <2>3 DEF SaveAll
<1>8. CASE Restart
  <2>1. Ready(c)' = {} /\ Sending(c)' = {}
    BY <1>8 DEF Restart, Ready, Sending, IsReady, IsSending, Idle
  <2>2. Cardinality(Ready(c))' = 0 /\ Cardinality(Sending(c))' = 0
    BY <2>1, FS_EmptySet
  <2>3. Total' >= Total /\ UNCHANGED <<row, alerts>>
    BY <1>1, <1>8, TotalGrows DEF Restart, TypeOK
  <2>4. Open(c)' <= Open(c)
    BY <2>3 DEF Open
  <2> QED
    BY <2>2, <2>3, <2>4, BalanceQuiet, CountTypes
<1>10. CASE Stop
  <2>1. check \in [Checks -> Record]
    BY TypeParts DEF ChecksOK
  <2>2. \A k \in Checks : /\ ~IsSending(check'[k], c)
                          /\ IsReady(check'[k], c) => IsReady(check[k], c)
    BY <1>10, <2>1 DEF Stop, IsSending, IsReady, Idle, Record
  <2>3. Ready(c)' \subseteq Ready(c) /\ Sending(c)' \subseteq Sending(c)
    <3>1. Ready(c)' = {k \in Checks : IsReady(check'[k], c)}
      BY DEF Ready, IsReady
    <3>2. Sending(c)' = {k \in Checks : IsSending(check'[k], c)}
      BY DEF Sending, IsSending, New
    <3> QED
      BY <2>2, <3>1, <3>2 DEF Ready, Sending
  <2>4. /\ Cardinality(Ready(c))' <= Cardinality(Ready(c))
        /\ Cardinality(Sending(c))' <= Cardinality(Sending(c))
    BY <2>3, CountTypes, FS_Subset
  <2>5. Total' >= Total /\ UNCHANGED <<row, alerts>>
    BY <1>1, <1>10, TotalGrows DEF Stop, TypeOK
  <2>6. Open(c)' <= Open(c)
    BY <2>5 DEF Open
  <2> QED
    BY <2>4, <2>5, <2>6, BalanceQuiet
<1>9. ASSUME NEW k \in Checks, Step(k) PROVE Balance(c)'
  <2>1. PICK x \in Record : check' = [check EXCEPT ![k] = x]
    BY <1>9, CheckStep
  <2>2. check \in [Checks -> Record] /\ check'[k] = x
    BY <2>1, TypeParts DEF ChecksOK
  <2>3. CASE Find(k) \/ Compare(k) \/ Send(k)
    BY <1>1, <2>3, BalanceFind, BalanceCompare, BalanceSend
  <2>4. ASSUME NEW s, check' = [check EXCEPT ![k].pc = s]
        PROVE  x.pc = s /\ x.last = check[k].last
    BY <2>4, <2>2 DEF Record
  <2>5. ASSUME NEW s, NEW th, check' = [check EXCEPT ![k].pc = s, ![k].then = th]
        PROVE  x.pc = s /\ x.last = check[k].last
    BY <2>5, <2>2 DEF Record
  <2>6. CASE List(k) \/ FindNothing(k)
    <3>1. UNCHANGED <<row, alerts, rewinds, overlaps>>
      BY <2>6 DEF List, FindNothing, told, counts
    <3>2. x.pc \in {"idle", "listed"}
      BY <2>1, <2>6, <2>4, AtRest DEF List, FindNothing
    <3> QED
      BY <1>1, <2>1, <3>1, <3>2, CheckOnly DEF IsReady, IsSending
  <2>7. CASE Fetch(k) \/ CountSubscribers(k) \/ Delete(k) \/ Del(k)
    <3>1. row' \subseteq row /\ UNCHANGED <<alerts, rewinds, overlaps>>
      BY <2>7 DEF Fetch, CountSubscribers, Delete, Del, told
    <3>2. check[k].pc \in {"fetch", "subscribers", "delete", "del"}
      BY <2>7 DEF Fetch, CountSubscribers, Delete, Del
    <3>3. check[k].then # "send"
      BY TypeParts DEF ChecksOK, Record
    <3>4. x.last = check[k].last /\ x.pc # "send"
      <4>1. CASE Fetch(k)
        <5>1. CASE \E n \in 0..MaxComments :
                      Page(n) /\ check' = [check EXCEPT ![k].got = n, ![k].pc = "subscribers"]
          <6>1. PICK n \in 0..MaxComments :
                  check' = [check EXCEPT ![k].got = n, ![k].pc = "subscribers"]
            BY <5>1
          <6>2. x.pc = "subscribers" /\ x.last = check[k].last
            BY <2>2, <6>1 DEF Record
          <6> QED
            BY <6>2
        <5>2. CASE check' = [check EXCEPT ![k].pc = "delete", ![k].then = "subscribers"]
          <6>1. x.pc = "delete" /\ x.last = check[k].last
            BY <2>2, <5>2 DEF Record
          <6> QED
            BY <6>1
        <5> QED
          BY <4>1, <5>1, <5>2 DEF Fetch
      <4>2. CASE CountSubscribers(k)
        BY <2>4, <2>5, <4>2 DEF CountSubscribers
      <4>3. CASE Delete(k)
        BY <2>4, <3>3, <4>3 DEF Delete
      <4>4. CASE Del(k)
        BY <2>4, <3>3, <4>4 DEF Del
      <4> QED
        BY <2>7, <4>1, <4>2, <4>3, <4>4
    <3>5. (IsReady(x, c) => IsReady(check[k], c)) /\ ~IsSending(x, c)
      BY <3>2, <3>4 DEF IsReady, IsSending
    <3> QED
      BY <1>1, <2>1, <3>1, <3>5, CheckOnly
  <2> QED
    BY <1>9, <2>3, <2>6, <2>7 DEF Step
<1> QED
  BY <1>4, <1>5, <1>6, <1>7, <1>8, <1>9, <1>10 DEF Next

\* The same comment is alerted once more at most for each rewind of the row, each
\* failed save and each check that began before the one before it had ended.
THEOREM NoOtherRepeat == Spec => []RepeatExplained
<1> DEFINE Balanced == \A c \in Comments : Balance(c)
<1>1. Init => Balanced
  <2> SUFFICES ASSUME Init, NEW c \in Comments PROVE Balance(c)
    OBVIOUS
  <2>1. Ready(c) = {} /\ Sending(c) = {}
    BY DEF Init, Ready, Sending, IsReady, IsSending, Idle
  <2>2. Cardinality(Ready(c)) = 0 /\ Cardinality(Sending(c)) = 0
    BY <2>1, FS_EmptySet
  <2>3. Total = 0
    BY SavesType DEF Init, Total
  <2>4. alerts[c] = 0 /\ Open(c) \in 0..1
    BY DEF Init, Open
  <2> QED
    BY <2>2, <2>3, <2>4 DEF Balance
<1>2. TypeOK /\ TypeOK' /\ Balanced /\ [Next]_vars => Balanced'
  BY BalanceKept
<1>3. TypeOK /\ Balanced => RepeatExplained
  <2>1. ASSUME TypeOK, NEW c \in Comments, Balance(c) PROVE alerts[c] <= 1 + Total
    <3>1. alerts[c] \in Nat /\ Total \in Nat
      BY <2>1, TotalType DEF TypeOK
    <3> QED
      BY <2>1, <3>1, CountTypes DEF Balance
  <2>2. Cardinality(faults \intersect {"save"}) \in Nat
    BY SavesType
  <2>3. TypeOK => 1 + Total = 1 + rewinds + overlaps + Cardinality(faults \intersect {"save"})
    BY <2>2 DEF Total, TypeOK
  <2> QED
    BY <2>1, <2>3 DEF RepeatExplained
<1> HIDE DEF Balanced
<1> QED
  BY <1>1, <1>2, <1>3, TypeCorrect, PTL DEF Spec
=============================================================================
