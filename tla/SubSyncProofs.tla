---------------------------- MODULE SubSyncProofs ----------------------------
(***************************************************************************)
(* What holds of SubSync for any number of users, boards, slots, failures. *)
(***************************************************************************)
EXTENDS SubSync, TLAPS

-----------------------------------------------------------------------------
(***************************************************************************)
(* Types.                                                                  *)
(***************************************************************************)
\* The local variables of a slot after an assignment to some of them.
LEMMA JobUpdates ==
  ASSUME NEW j \in Job
  PROVE  /\ \A S \in SUBSET Row : [j EXCEPT !.sub = S] \in Job
         /\ \A S \in SUBSET Row : [j EXCEPT !.list = S] \in Job
         /\ \A c \in Chats \union {NoChat} : [j EXCEPT !.chat = c] \in Job
         /\ \A b \in BOOLEAN : [j EXCEPT !.on = b] \in Job
         /\ \A b \in BOOLEAN, S \in SUBSET Row : [j EXCEPT !.on = b, !.todo = S] \in Job
         /\ \A S, T \in SUBSET Row : [j EXCEPT !.sub = S, !.todo = T] \in Job
         /\ [j EXCEPT !.chat = NoChat, !.sub = {}, !.list = {}] \in Job
  BY DEF Job

\* The variables of a slot that is free.
LEMMA NoJobType == NoJob \in Job
  BY DEF Job, NoJob

SlotsOK == pc \in [Procs -> PC] /\ job \in [Procs -> Job]

\* A slot that starts or goes on with new variables,
LEMMA BeginType ==
  ASSUME SlotsOK, NEW p \in Procs, NEW j \in Job, NEW l \in PC, Begin(p, j, l)
  PROVE  SlotsOK'
  BY DEF Begin, SlotsOK

\* that ends,
LEMMA StopType ==
  ASSUME SlotsOK, NEW p \in Procs, Stop(p)
  PROVE  SlotsOK'
  <1>1. "idle" \in PC
    BY DEF PC
  <1> QED
    BY <1>1, NoJobType, BeginType DEF Stop

\* that goes on with the same variables,
LEMMA GotoType ==
  ASSUME SlotsOK, NEW p \in Procs, NEW l \in PC, Goto(p, l)
  PROVE  SlotsOK'
  BY DEF Goto, SlotsOK

\* or that ends one sync of several keeps the types.
LEMMA FinishType ==
  ASSUME SlotsOK, NEW p \in Procs, Finish(p)
  PROVE  SlotsOK'
  <1>1. job[p] \in Job /\ "next" \in PC
    BY DEF SlotsOK, PC
  <1>2. [job[p] EXCEPT !.chat = NoChat, !.sub = {}, !.list = {}] \in Job
    BY <1>1, JobUpdates
  <1> QED
    BY <1>1, <1>2, StopType, BeginType DEF Finish

\* The tables, the Redis keys and the history variables.
StoresOK ==
  /\ acct \in [Users -> {"on", "off", "gone"}]
  /\ chat \in [Users -> Chats \union {NoChat}]
  /\ rows \subseteq Row
  /\ nextId \in Nat
  /\ scanned \subseteq Boards
  /\ members \in [Keys -> SUBSET Users]
  /\ udata \in [Users -> UserData \union {NoData}]
  /\ faults \in Nat
  /\ torn \subseteq Users \X Keys
  /\ behind \subseteq Users
  /\ stale \subseteq Users

\* TypeOK is these two, so that each can be shown apart.
LEMMA TypeParts == TypeOK <=> StoresOK /\ SlotsOK
  BY DEF TypeOK, StoresOK, SlotsOK

\* Every step of a slot keeps the types of the local variables.
LEMMA StepSlots ==
  ASSUME TypeOK, NEW p \in Procs, Step(p)
  PROVE  SlotsOK'
<1> USE SubSyncAssumption
<1>0. /\ SlotsOK /\ StoresOK /\ job[p] \in Job
      /\ job[p].user \subseteq Users /\ job[p].sub \subseteq Row
      /\ job[p].todo \subseteq Row /\ job[p].chat \in Chats \union {NoChat}
  BY TypeParts DEF SlotsOK, Job
<1>a. PC = {"idle", "insert", "update", "updacc", "delete", "others", "srem",
            "confirm", "all", "next", "binding", "addboard", "sadd", "chat",
            "list", "set", "del"}
  BY DEF PC
<1>b. \A u : RowsOf(u) \in SUBSET Row
  BY <1>0 DEF RowsOf, StoresOK
<1>1. CASE Insert(p)
  <2>1. PICK s \in job[p].sub :
          \/ Begin(p, [job[p] EXCEPT !.sub = {[s EXCEPT !.id = nextId]}], "binding")
          \/ Stop(p)
    BY <1>1 DEF Insert
  <2>2. [s EXCEPT !.id = nextId] \in Row
    BY <1>0 DEF Row, StoresOK
  <2>3. [job[p] EXCEPT !.sub = {[s EXCEPT !.id = nextId]}] \in Job
    BY <1>0, <2>2, JobUpdates
  <2> QED
    BY <1>0, <1>a, <2>1, <2>3, BeginType, StopType
<1>2. CASE UpdateInDB(p)
  BY <1>2, <1>0, <1>a, StopType, GotoType DEF UpdateInDB
<1>3. CASE ReadAcc(p)
  <2>1. PICK u \in job[p].user :
          Stop(p) \/ Begin(p, [job[p] EXCEPT !.on = (acct[u] = "on")], "binding")
    BY <1>3 DEF ReadAcc
  <2>2. [job[p] EXCEPT !.on = (acct[u] = "on")] \in Job
    BY <1>0, JobUpdates
  <2> QED
    BY <1>0, <1>a, <2>1, <2>2, BeginType, StopType
<1>4. CASE DeleteInDB(p)
  BY <1>4, <1>0, <1>a, StopType, GotoType DEF DeleteInDB
<1>5. CASE ListOthers(p)
  <2>1. PICK s \in job[p].sub :
          Goto(p, "chat") \/ Begin(p, [job[p] EXCEPT !.list = RowsOf(s.user)], "srem")
    BY <1>5 DEF ListOthers
  <2>2. [job[p] EXCEPT !.list = RowsOf(s.user)] \in Job
    BY <1>0, <1>b, JobUpdates
  <2> QED
    BY <1>0, <1>a, <2>1, <2>2, BeginType, GotoType
<1>6. CASE Srem(p)
  <2>1. Begin(p, [job[p] EXCEPT !.list = {}], "chat")
    BY <1>6 DEF Srem
  <2>2. [job[p] EXCEPT !.list = {}] \in Job
    BY <1>0, JobUpdates
  <2> QED
    BY <1>0, <1>a, <2>1, <2>2, BeginType
<1>7. CASE CheckBinding(p)
  BY <1>7, <1>0, <1>a, GotoType, FinishType DEF CheckBinding
<1>8. CASE AddBoard(p)
  BY <1>8, <1>0, <1>a, GotoType DEF AddBoard
<1>9. CASE Sadd(p)
  BY <1>9, <1>0, <1>a, GotoType DEF Sadd
<1>10. CASE ReadChat(p)
  <2>1. PICK u \in job[p].user :
          Finish(p) \/ Begin(p, [job[p] EXCEPT !.chat = chat[u]], "list")
    BY <1>10 DEF ReadChat
  <2>2. [job[p] EXCEPT !.chat = chat[u]] \in Job
    BY <1>0, JobUpdates DEF StoresOK
  <2> QED
    BY <1>0, <1>a, <2>1, <2>2, BeginType, FinishType
<1>11. CASE ReadList(p)
  <2>1. PICK u \in job[p].user : Begin(p, [job[p] EXCEPT !.list = RowsOf(u)], "set")
    BY <1>11 DEF ReadList
  <2>2. [job[p] EXCEPT !.list = RowsOf(u)] \in Job
    BY <1>0, <1>b, JobUpdates
  <2> QED
    BY <1>0, <1>a, <2>1, <2>2, BeginType
<1>12. CASE SetUser(p)
  BY <1>12, <1>0, FinishType DEF SetUser
<1>13. CASE Confirm(p)
  <2>1. Stop(p) \/ Begin(p, [job[p] EXCEPT !.chat = NoChat], "all")
    BY <1>13 DEF Confirm
  <2>2. [job[p] EXCEPT !.chat = NoChat] \in Job
    BY <1>0, JobUpdates
  <2> QED
    BY <1>0, <1>a, <2>1, <2>2, BeginType, StopType
<1>14. CASE ListAll(p)
  <2>1. PICK u \in job[p].user :
          \/ Stop(p)
          \/ Begin(p, [job[p] EXCEPT !.on = (acct[u] = "on"), !.todo = RowsOf(u)], "next")
    BY <1>14 DEF ListAll
  <2>2. [job[p] EXCEPT !.on = (acct[u] = "on"), !.todo = RowsOf(u)] \in Job
    BY <1>0, <1>b, JobUpdates
  <2> QED
    BY <1>0, <1>a, <2>1, <2>2, BeginType, StopType
<1>15. CASE SyncNext(p)
  <2>1. PICK s \in job[p].todo :
          Begin(p, [job[p] EXCEPT !.sub = {s}, !.todo = job[p].todo \ {s}], "binding")
    BY <1>15 DEF SyncNext
  <2>2. [job[p] EXCEPT !.sub = {s}, !.todo = job[p].todo \ {s}] \in Job
    BY <1>0, JobUpdates
  <2> QED
    BY <1>0, <1>a, <2>1, <2>2, BeginType
<1>16. CASE DelUser(p)
  BY <1>16, <1>0, StopType DEF DelUser
<1> QED
  BY <1>1, <1>2, <1>3, <1>4, <1>5, <1>6, <1>7, <1>8, <1>9, <1>10,
     <1>11, <1>12, <1>13, <1>14, <1>15, <1>16 DEF Step

\* Every step of a slot keeps the types of the stores.
LEMMA StepStores ==
  ASSUME TypeOK, NEW p \in Procs, Step(p)
  PROVE  StoresOK'
<1> USE SubSyncAssumption
<1>0. /\ StoresOK /\ job[p] \in Job /\ Keys = SubTypes \X Boards
      /\ job[p].user \subseteq Users /\ job[p].sub \subseteq Row
      /\ job[p].list \subseteq Row
      /\ job[p].on \in BOOLEAN /\ job[p].chat \in Chats \union {NoChat}
  BY TypeParts DEF SlotsOK, Job, Keys
<1>a. ASSUME NEW s \in Row
      PROVE  /\ s.user \in Users /\ s.board \in Boards /\ Key(s) \in Keys
             /\ \A i \in Nat : [s EXCEPT !.id = i] \in Row
             /\ \A u \in Users : [s EXCEPT !.user = u] \in Row
  BY DEF Row, Key, Keys
<1>1. CASE Insert(p)
  <2>1. PICK s \in job[p].sub :
          \/ rows' = rows \union {[s EXCEPT !.id = nextId]} /\ nextId' = nextId + 1
          \/ UNCHANGED <<rows, nextId>>
    BY <1>1 DEF Insert
  <2>2. rows' \subseteq Row /\ nextId' \in Nat
    BY <1>0, <1>a, <2>1 DEF StoresOK
  <2> QED
    BY <1>1, <1>0, <2>2 DEF Insert, StoresOK, redisVars, lateVars
<1>2. CASE UpdateInDB(p)
  <2>1. PICK s \in job[p].sub :
          \/ rows' = rows
          \/ rows' = {IF r.id = s.id THEN [s EXCEPT !.user = r.user] ELSE r : r \in rows}
    BY <1>2 DEF UpdateInDB
  <2>2. \A r \in rows : r \in Row /\ [s EXCEPT !.user = r.user] \in Row
    BY <1>0, <1>a DEF StoresOK
  <2>3. rows' \subseteq Row
    <3>1. CASE rows' = rows
      BY <3>1, <2>2
    <3>2. CASE rows' = {IF r.id = s.id THEN [s EXCEPT !.user = r.user] ELSE r : r \in rows}
      BY <3>2, <2>2
    <3> QED
      BY <3>1, <3>2, <2>1
  <2> QED
    BY <1>2, <1>0, <2>3 DEF UpdateInDB, StoresOK, redisVars, lateVars
<1>3. CASE ReadAcc(p)
  BY <1>3, <1>0 DEF ReadAcc, StoresOK, dbVars, redisVars, lateVars
<1>4. CASE DeleteInDB(p)
  BY <1>4, <1>0 DEF DeleteInDB, StoresOK, redisVars, lateVars
<1>5. CASE ListOthers(p)
  BY <1>5, <1>0 DEF ListOthers, StoresOK, dbVars, redisVars, lateVars
<1>6. CASE Srem(p)
  <2>1. PICK s \in job[p].sub :
          /\ members' = [members EXCEPT ![Key(s)] = @ \ {s.user}]
          /\ torn' \subseteq torn \union {<<s.user, Key(s)>>}
    BY <1>6 DEF Srem
  <2>2. members' \in [Keys -> SUBSET Users]
    BY <1>0, <1>a, <2>1 DEF StoresOK
  <2>3. torn' \subseteq Users \X Keys
    BY <1>0, <1>a, <2>1 DEF StoresOK
  <2> QED
    BY <1>6, <1>0, <2>2, <2>3 DEF Srem, StoresOK, dbVars, lateVars
<1>7. CASE CheckBinding(p)
  BY <1>7, <1>0 DEF CheckBinding, StoresOK, dbVars, redisVars, lateVars
<1>8. CASE AddBoard(p)
  BY <1>8, <1>0, <1>a DEF AddBoard, StoresOK, dbVars, lateVars
<1>9. CASE Sadd(p)
  <2>1. members' \in [Keys -> SUBSET Users] /\ torn' \subseteq Users \X Keys
    BY <1>9, <1>0, <1>a DEF Sadd, StoresOK
  <2> QED
    BY <1>9, <1>0, <2>1 DEF Sadd, StoresOK, dbVars, lateVars
<1>10. CASE ReadChat(p)
  BY <1>10, <1>0 DEF ReadChat, StoresOK, dbVars, redisVars, lateVars
<1>11. CASE ReadList(p)
  BY <1>11, <1>0 DEF ReadList, StoresOK, dbVars, redisVars, lateVars
<1>12. CASE SetUser(p)
  <2>1. \A subs \in Builds(job[p].list) : subs \in SUBSET (SubTypes \X Boards \X Values)
    BY <1>0 DEF Builds, Winners, Entry, Row
  <2>2. PICK u \in job[p].user, subs \in Builds(job[p].list) :
          /\ udata' = [udata EXCEPT ![u] = [on |-> job[p].on, chat |-> job[p].chat, subs |-> subs]]
          /\ behind' \subseteq behind \union {u}
    BY <1>12 DEF SetUser
  <2>3. [on |-> job[p].on, chat |-> job[p].chat, subs |-> subs] \in UserData
    BY <1>0, <2>1, <2>2 DEF UserData
  <2>4. udata' \in [Users -> UserData \union {NoData}] /\ behind' \subseteq Users
    BY <1>0, <2>2, <2>3 DEF StoresOK
  <2> QED
    BY <1>12, <1>0, <2>4 DEF SetUser, StoresOK, dbVars, lateVars
<1>13. CASE Confirm(p)
  BY <1>13, <1>0 DEF Confirm, StoresOK, redisVars, lateVars
<1>14. CASE ListAll(p)
  BY <1>14, <1>0 DEF ListAll, StoresOK, dbVars, redisVars, lateVars
<1>15. CASE SyncNext(p)
  BY <1>15, <1>0 DEF SyncNext, StoresOK, dbVars, redisVars, lateVars
<1>16. CASE DelUser(p)
  BY <1>16, <1>0 DEF DelUser, StoresOK, dbVars, lateVars
<1> QED
  BY <1>1, <1>2, <1>3, <1>4, <1>5, <1>6, <1>7, <1>8, <1>9, <1>10,
     <1>11, <1>12, <1>13, <1>14, <1>15, <1>16 DEF Step

\* So does a request that starts,
LEMMA RequestTypes ==
  ASSUME TypeOK, NEW p \in Procs, Request(p)
  PROVE  TypeOK'
<1> USE SubSyncAssumption
<1>0. StoresOK /\ SlotsOK
  BY TypeParts
<1>a. {"insert", "update", "delete", "confirm", "del"} \subseteq PC
  BY DEF PC
<1>1. ASSUME NEW u \in Users, NEW b \in Boards, NEW t \in SubTypes, NEW v \in Values,
             StartCreate(p, u, b, t, v)
      PROVE  TypeOK'
  <2> DEFINE r == [id |-> 0, user |-> u, board |-> b, type |-> t, value |-> v, on |-> TRUE]
  <2>1. {r} \in SUBSET Row /\ (acct[u] = "on") \in BOOLEAN
    BY DEF Row
  <2>2. [NoJob EXCEPT !.user = {u}, !.on = (acct[u] = "on"), !.sub = {r}] \in Job
    BY <2>1 DEF NoJob, Job
  <2>3. Begin(p, [NoJob EXCEPT !.user = {u}, !.on = (acct[u] = "on"), !.sub = {r}], "insert")
    BY <1>1 DEF StartCreate
  <2>4. SlotsOK'
    BY <1>0, <1>a, <2>2, <2>3, BeginType
  <2>5. StoresOK'
    BY <1>0, <1>1 DEF StartCreate, StoresOK, dbVars, redisVars, lateVars
  <2> QED
    BY <2>4, <2>5 DEF TypeOK, StoresOK, SlotsOK
<1>2. ASSUME NEW r \in rows, NEW b \in Boards, NEW t \in SubTypes, NEW v \in Values,
             NEW on \in BOOLEAN, StartUpdate(p, r, b, t, v, on)
      PROVE  TypeOK'
  <2> DEFINE s == [r EXCEPT !.board = b, !.type = t, !.value = v, !.on = on]
  <2>1. r.user \in Users /\ {s} \in SUBSET Row
    BY <1>0 DEF Row, StoresOK
  <2>2. [NoJob EXCEPT !.user = {r.user}, !.sub = {s}] \in Job
    BY <2>1 DEF NoJob, Job
  <2>3. Begin(p, [NoJob EXCEPT !.user = {r.user}, !.sub = {s}], "update")
    BY <1>2 DEF StartUpdate
  <2>4. SlotsOK'
    BY <1>0, <1>a, <2>2, <2>3, BeginType
  <2>5. StoresOK'
    BY <1>0, <1>2 DEF StartUpdate, StoresOK, dbVars, redisVars, lateVars
  <2> QED
    BY <2>4, <2>5 DEF TypeOK, StoresOK, SlotsOK
<1>3. ASSUME NEW r \in rows, StartDelete(p, r)
      PROVE  TypeOK'
  <2>1. r.user \in Users /\ {r} \in SUBSET Row
    BY <1>0 DEF Row, StoresOK
  <2>2. [NoJob EXCEPT !.user = {r.user}, !.sub = {r}, !.on = (acct[r.user] = "on")] \in Job
    BY <2>1 DEF NoJob, Job
  <2>3. Begin(p, [NoJob EXCEPT !.user = {r.user}, !.sub = {r},
                    !.on = (acct[r.user] = "on")], "delete")
    BY <1>3 DEF StartDelete
  <2>4. SlotsOK'
    BY <1>0, <1>a, <2>2, <2>3, BeginType
  <2>5. StoresOK'
    BY <1>0, <1>3 DEF StartDelete, StoresOK, dbVars, redisVars, lateVars
  <2> QED
    BY <2>4, <2>5 DEF TypeOK, StoresOK, SlotsOK
<1>4. ASSUME NEW u \in Users, NEW c \in Chats, StartBind(p, u, c)
      PROVE  TypeOK'
  <2>1. [NoJob EXCEPT !.user = {u}, !.chat = c] \in Job
    BY DEF NoJob, Job
  <2>2. SlotsOK'
    BY <1>0, <1>a, <1>4, <2>1, BeginType DEF StartBind
  <2>3. StoresOK'
    BY <1>0, <1>4 DEF StartBind, StoresOK, dbVars, redisVars, lateVars
  <2> QED
    BY <2>2, <2>3 DEF TypeOK, StoresOK, SlotsOK
<1>5. ASSUME NEW u \in Users, AdminDelete(p, u)
      PROVE  TypeOK'
  <2>1. [NoJob EXCEPT !.user = {u}] \in Job
    BY DEF NoJob, Job
  <2>2. SlotsOK'
    BY <1>0, <1>a, <1>5, <2>1, BeginType DEF AdminDelete
  <2>3. StoresOK'
    BY <1>0, <1>5 DEF AdminDelete, StoresOK, redisVars, lateVars
  <2> QED
    BY <2>2, <2>3 DEF TypeOK, StoresOK, SlotsOK
<1> QED
  BY <1>1, <1>2, <1>3, <1>4, <1>5 DEF Request

\* and a failure.
LEMMA FailureTypes ==
  ASSUME TypeOK, Failure
  PROVE  TypeOK'
<1> USE SubSyncAssumption
<1>0. StoresOK /\ SlotsOK /\ Keys = SubTypes \X Boards
  BY TypeParts DEF Keys
<1>a. ASSUME NEW p \in Procs
      PROVE  job[p].user \subseteq Users /\ Pending(p) \subseteq Keys
  BY <1>0 DEF SlotsOK, Job, Row, Pending, KeysOf, Key
<1>1. ASSUME NEW p \in Procs, Abort(p) PROVE TypeOK'
  <2>1. SlotsOK'
    BY <1>0, <1>1, FinishType DEF Abort
  <2>2. torn' \subseteq Users \X Keys
    BY <1>0, <1>a, <1>1 DEF Abort, StoresOK
  <2>3. behind' \subseteq Users /\ stale' \subseteq Users
    <3>1. ASSUME NEW labels PROVE UsersOf({p}, labels) \subseteq Users
      <4>1. \A u \in UsersOf({p}, labels) : u \in job[p].user
        BY DEF UsersOf
      <4> QED
        BY <1>a, <4>1
    <3>2. behind' = behind \union UsersOf({p}, ToSet) /\ stale' = stale \union UsersOf({p}, {"del"})
      BY <1>1 DEF Abort
    <3> QED
      BY <1>0, <3>1, <3>2 DEF StoresOK
  <2>4. StoresOK'
    <3>1. UNCHANGED <<acct, chat, rows, nextId, scanned, members, udata>> /\ faults' = faults + 1
      BY <1>1 DEF Abort, dbVars, redisVars
    <3> QED
      BY <1>0, <2>2, <2>3, <3>1 DEF StoresOK
  <2> QED
    BY <2>1, <2>4 DEF TypeOK, StoresOK, SlotsOK
<1>2. ASSUME Restart PROVE TypeOK'
  <2>1. SlotsOK'
    BY <1>2, NoJobType DEF Restart, SlotsOK, PC
  <2>2. torn' \subseteq Users \X Keys
    BY <1>0, <1>a, <1>2 DEF Restart, StoresOK
  <2>3. behind' \subseteq Users /\ stale' \subseteq Users
    BY <1>0, <1>a, <1>2 DEF Restart, StoresOK, UsersOf
  <2>4. StoresOK'
    BY <1>0, <1>2, <2>2, <2>3 DEF Restart, StoresOK, dbVars, redisVars
  <2> QED
    BY <2>1, <2>4 DEF TypeOK, StoresOK, SlotsOK
<1> QED
  BY <1>1, <1>2 DEF Failure

\* The tables, the Redis copy and the local variables of every request always
\* have their types.
THEOREM TypeCorrect == Spec => []TypeOK
<1> USE SubSyncAssumption
<1>1. Init => TypeOK
  BY NoJobType DEF Init, TypeOK, PC
<1>2. TypeOK /\ [Next]_vars => TypeOK'
  <2> SUFFICES ASSUME TypeOK, [Next]_vars PROVE TypeOK'
    OBVIOUS
  <2>1. ASSUME NEW p \in Procs, Step(p) PROVE TypeOK'
    BY <2>1, StepSlots, StepStores DEF TypeOK, StoresOK, SlotsOK
  <2>2. ASSUME NEW p \in Procs, Request(p) PROVE TypeOK'
    BY <2>2, RequestTypes
  <2>3. CASE Settings
    <3>1. ASSUME NEW u \in Users, Unbind(u) PROVE TypeOK'
      BY <3>1 DEF Unbind, TypeOK, redisVars, lateVars
    <3>2. ASSUME NEW u \in Users, NEW on \in BOOLEAN, AdminUpdate(u, on) PROVE TypeOK'
      BY <3>2 DEF AdminUpdate, TypeOK, redisVars, lateVars
    <3> QED
      BY <2>3, <3>1, <3>2 DEF Settings
  <2>4. CASE Failure
    BY <2>4, FailureTypes
  <2>5. CASE UNCHANGED vars
    BY <2>5 DEF TypeOK, vars, dbVars, redisVars, lateVars
  <2> QED
    BY <2>1, <2>2, <2>3, <2>4, <2>5 DEF Next, Empty
<1> QED
  BY <1>1, <1>2, PTL DEF Spec

-----------------------------------------------------------------------------
(***************************************************************************)
(* A slot works for one user, on one subscription at a time.               *)
(***************************************************************************)
Shape(j) ==
  /\ \A s, t \in j.sub : s = t
  /\ \A u, v \in j.user : u = v
  /\ \A s \in j.sub \union j.todo : s.user \in j.user

\* Where no slot has subscriptions left to sync.
Single == {"idle", "insert", "update", "updacc", "delete", "others", "srem",
           "confirm", "all", "del"}

JobInv ==
  \A p \in Procs : Shape(job[p]) /\ (pc[p] \in Single => job[p].todo = {})

\* The shape is kept by a slot that goes on with variables that have it,
LEMMA BeginShape ==
  ASSUME SlotsOK, JobInv, NEW p \in Procs, NEW j, NEW l,
         Shape(j), l \in Single => j.todo = {}, Begin(p, j, l)
  PROVE  JobInv'
  BY DEF SlotsOK, JobInv, Begin

\* that ends,
LEMMA StopShape ==
  ASSUME SlotsOK, JobInv, NEW p \in Procs, Stop(p)
  PROVE  JobInv'
  BY BeginShape DEF Stop, NoJob, Shape

\* that ends one sync of several,
LEMMA FinishShape ==
  ASSUME SlotsOK, JobInv, NEW p \in Procs, Finish(p)
  PROVE  JobInv'
  <1>1. job[p] \in Job /\ Shape(job[p])
    BY DEF SlotsOK, JobInv
  <1>2. Shape([job[p] EXCEPT !.chat = NoChat, !.sub = {}, !.list = {}])
    BY <1>1 DEF Shape, Job
  <1> QED
    BY <1>2, StopShape, BeginShape DEF Finish, Single

\* or that goes on with the same variables.
LEMMA GotoShape ==
  ASSUME SlotsOK, JobInv, NEW p \in Procs, NEW l, l \in Single => job[p].todo = {},
         Goto(p, l)
  PROVE  JobInv'
  BY DEF SlotsOK, JobInv, Goto

\* Every step of a slot keeps the shape,
LEMMA StepShape ==
  ASSUME TypeOK, JobInv, NEW p \in Procs, Step(p)
  PROVE  JobInv'
<1>0. /\ SlotsOK /\ JobInv /\ job[p] \in Job /\ Shape(job[p])
      /\ pc[p] \in Single => job[p].todo = {}
  BY TypeParts DEF SlotsOK, JobInv
<1>q. ASSUME NEW j, NEW l, Shape(j), l \in Single => j.todo = {}, Begin(p, j, l)
      PROVE  JobInv'
  BY <1>0, <1>q, BeginShape
<1>s. ASSUME Stop(p) \/ Finish(p) PROVE JobInv'
  BY <1>0, <1>s, StopShape, FinishShape
<1>g. ASSUME NEW l, l \in Single => job[p].todo = {}, Goto(p, l) PROVE JobInv'
  BY <1>0, <1>g, GotoShape
<1>1. CASE Insert(p)
  <2>1. PICK s \in job[p].sub :
          Stop(p) \/ Begin(p, [job[p] EXCEPT !.sub = {[s EXCEPT !.id = nextId]}], "binding")
    BY <1>1 DEF Insert
  <2>2. s \in Row
    BY <1>0 DEF Job
  <2>3. Shape([job[p] EXCEPT !.sub = {[s EXCEPT !.id = nextId]}])
    BY <1>0, <2>2 DEF Shape, Job, Row
  <2> QED
    BY <2>1, <2>3, <1>q, <1>s DEF Single
<1>2. CASE UpdateInDB(p)
  BY <1>2, <1>0, <1>s, <1>g DEF UpdateInDB, Single
<1>3. CASE ReadAcc(p)
  <2>1. \A b \in BOOLEAN : Shape([job[p] EXCEPT !.on = b])
    BY <1>0 DEF Shape, Job
  <2> QED
    BY <1>3, <2>1, <1>q, <1>s DEF ReadAcc, Single
<1>4. CASE DeleteInDB(p)
  BY <1>4, <1>0, <1>s, <1>g DEF DeleteInDB, Single
<1>5. CASE ListOthers(p)
  <2>1. \A S : Shape([job[p] EXCEPT !.list = S])
              /\ [job[p] EXCEPT !.list = S].todo = job[p].todo
    BY <1>0 DEF Shape, Job
  <2> QED
    BY <1>5, <1>0, <2>1, <1>g, <1>q DEF ListOthers, Single
<1>6. CASE Srem(p)
  <2>1. Shape([job[p] EXCEPT !.list = {}])
    BY <1>0 DEF Shape, Job
  <2> QED
    BY <1>6, <2>1, <1>q DEF Srem, Single
<1>7. CASE CheckBinding(p)
  BY <1>7, <1>0, <1>s, <1>g DEF CheckBinding, Single
<1>8. CASE AddBoard(p)
  BY <1>8, <1>0, <1>g DEF AddBoard, Single
<1>9. CASE Sadd(p)
  BY <1>9, <1>0, <1>g DEF Sadd, Single
<1>10. CASE ReadChat(p)
  <2>1. \A c : Shape([job[p] EXCEPT !.chat = c])
    BY <1>0 DEF Shape, Job
  <2> QED
    BY <1>10, <2>1, <1>q, <1>s DEF ReadChat, Single
<1>11. CASE ReadList(p)
  <2>1. \A S : Shape([job[p] EXCEPT !.list = S])
    BY <1>0 DEF Shape, Job
  <2> QED
    BY <1>11, <2>1, <1>q DEF ReadList, Single
<1>12. CASE SetUser(p)
  BY <1>12, <1>s DEF SetUser
<1>13. CASE Confirm(p)
  <2>1. Shape([job[p] EXCEPT !.chat = NoChat])
    BY <1>0 DEF Shape, Job
  <2> QED
    BY <1>13, <1>0, <2>1, <1>q, <1>s DEF Confirm, Single, Job
<1>14. CASE ListAll(p)
  <2>1. \A b, u : u \in job[p].user => Shape([job[p] EXCEPT !.on = b, !.todo = RowsOf(u)])
    BY <1>0 DEF Shape, Job, RowsOf
  <2> QED
    BY <1>14, <2>1, <1>q, <1>s DEF ListAll, Single
<1>15. CASE SyncNext(p)
  <2>1. \A s \in job[p].todo : Shape([job[p] EXCEPT !.sub = {s}, !.todo = job[p].todo \ {s}])
    BY <1>0 DEF Shape, Job
  <2>2. PICK s \in job[p].todo :
          Begin(p, [job[p] EXCEPT !.sub = {s}, !.todo = job[p].todo \ {s}], "binding")
    BY <1>15 DEF SyncNext
  <2> QED
    BY <2>1, <2>2, <1>q DEF Single
<1>16. CASE DelUser(p)
  BY <1>16, <1>s DEF DelUser
<1> QED
  BY <1>1, <1>2, <1>3, <1>4, <1>5, <1>6, <1>7, <1>8, <1>9, <1>10,
     <1>11, <1>12, <1>13, <1>14, <1>15, <1>16 DEF Step

\* and a request that starts has it.
LEMMA RequestShape ==
  ASSUME TypeOK, JobInv, NEW p \in Procs, Request(p)
  PROVE  JobInv'
<1>0. SlotsOK /\ StoresOK
  BY TypeParts
<1>q. ASSUME NEW j, NEW l, Shape(j), l \in Single => j.todo = {}, Begin(p, j, l)
      PROVE  JobInv'
  BY <1>0, <1>q, BeginShape
<1>1. ASSUME NEW u \in Users, NEW b \in Boards, NEW t \in SubTypes, NEW v \in Values,
             StartCreate(p, u, b, t, v)
      PROVE  JobInv'
  <2> DEFINE r == [id |-> 0, user |-> u, board |-> b, type |-> t, value |-> v, on |-> TRUE]
             j == [NoJob EXCEPT !.user = {u}, !.on = (acct[u] = "on"), !.sub = {r}]
  <2>1. r.user = u /\ j.user = {u} /\ j.sub = {r} /\ j.todo = {}
    BY DEF NoJob
  <2>2. Shape(j)
    BY ONLY <2>1 DEF Shape
  <2>3. Begin(p, j, "insert")
    BY <1>1 DEF StartCreate
  <2> QED
    BY <2>1, <2>2, <2>3, <1>q
<1>2. ASSUME NEW r \in rows, NEW b \in Boards, NEW t \in SubTypes, NEW v \in Values,
             NEW on \in BOOLEAN, StartUpdate(p, r, b, t, v, on)
      PROVE  JobInv'
  <2>1. r \in Row
    BY <1>0 DEF StoresOK
  <2> DEFINE s == [r EXCEPT !.board = b, !.type = t, !.value = v, !.on = on]
             j == [NoJob EXCEPT !.user = {r.user}, !.sub = {s}]
  <2>2. s.user = r.user
    BY <2>1 DEF Row
  <2>3. j.user = {r.user} /\ j.sub = {s} /\ j.todo = {}
    BY DEF NoJob
  <2>4. Shape(j)
    BY ONLY <2>2, <2>3 DEF Shape
  <2>5. Begin(p, j, "update")
    BY <1>2 DEF StartUpdate
  <2> QED
    BY <2>3, <2>4, <2>5, <1>q
<1>3. ASSUME NEW r \in rows, StartDelete(p, r) PROVE JobInv'
  BY <1>3, <1>q DEF StartDelete, NoJob, Shape
<1>4. ASSUME NEW u \in Users, NEW c \in Chats, StartBind(p, u, c) PROVE JobInv'
  BY <1>4, <1>q DEF StartBind, NoJob, Shape
<1>5. ASSUME NEW u \in Users, AdminDelete(p, u) PROVE JobInv'
  BY <1>5, <1>q DEF AdminDelete, NoJob, Shape
<1> QED
  BY <1>1, <1>2, <1>3, <1>4, <1>5 DEF Request

\* So every slot always has it.
LEMMA ShapeHolds == Spec => []JobInv
<1>1. Init => JobInv
  BY DEF Init, JobInv, NoJob, Shape
<1>2. TypeOK /\ JobInv /\ [Next]_vars => JobInv'
  <2> SUFFICES ASSUME TypeOK, JobInv, [Next]_vars PROVE JobInv'
    OBVIOUS
  <2>1. ASSUME NEW p \in Procs, Step(p) \/ Request(p) PROVE JobInv'
    BY <2>1, StepShape, RequestShape
  <2>2. CASE Settings
    BY <2>2 DEF Settings, Unbind, AdminUpdate, JobInv
  <2>3. CASE Failure
    <3>1. ASSUME NEW p \in Procs, Abort(p) PROVE JobInv'
      BY <3>1, TypeParts, FinishShape DEF Abort
    <3>2. ASSUME Restart PROVE JobInv'
      BY <3>2 DEF Restart, JobInv, NoJob, Shape
    <3> QED
      BY <2>3, <3>1, <3>2 DEF Failure
  <2>4. CASE UNCHANGED vars
    BY <2>4 DEF JobInv, vars
  <2> QED
    BY <2>1, <2>2, <2>3, <2>4 DEF Next, Empty
<1> QED
  BY <1>1, <1>2, TypeCorrect, PTL DEF Spec

-----------------------------------------------------------------------------
(***************************************************************************)
(* Subscribers are in scanned boards.                                      *)
(***************************************************************************)
\* The board has been added before the account is.
BoardFirst ==
  \A p \in Procs : pc[p] = "sadd" => \A s \in job[p].sub : s.board \in scanned

ScanIInv == BoardFirst /\ \A k \in Keys : members[k] # {} => k[2] \in scanned

\* A slot that starts or goes on anywhere but before the SADD.
LEMMA BoardFirstKept ==
  ASSUME SlotsOK, BoardFirst, scanned \subseteq scanned', NEW p \in Procs,
         NEW j, NEW l, l # "sadd", Begin(p, j, l)
  PROVE  BoardFirst'
  BY DEF SlotsOK, BoardFirst, Begin

\* Every step of a slot adds boards only, and members only of added boards.
LEMMA ScanStep ==
  ASSUME TypeOK, JobInv, ScanIInv, NEW p \in Procs, Step(p)
  PROVE  ScanIInv'
<1>0. SlotsOK /\ BoardFirst
  BY TypeParts DEF ScanIInv
<1>q. ASSUME NEW j, NEW l, l # "sadd", Begin(p, j, l), UNCHANGED <<scanned, members>>
      PROVE  ScanIInv'
  BY <1>0, <1>q, BoardFirstKept DEF ScanIInv
<1>s. ASSUME Stop(p) \/ Finish(p), UNCHANGED <<scanned, members>> PROVE ScanIInv'
  BY <1>q, <1>s DEF Stop, Finish
<1>g. ASSUME NEW l, l # "sadd", Goto(p, l), scanned \subseteq scanned' PROVE BoardFirst'
  BY <1>0, <1>g DEF Goto, SlotsOK, BoardFirst
<1>1. CASE Insert(p)
  BY <1>1, <1>q, <1>s DEF Insert, redisVars
<1>2. CASE UpdateInDB(p)
  BY <1>2, <1>s, <1>g DEF UpdateInDB, ScanIInv, redisVars
<1>3. CASE ReadAcc(p)
  BY <1>3, <1>q, <1>s DEF ReadAcc, redisVars
<1>4. CASE DeleteInDB(p)
  BY <1>4, <1>s, <1>g DEF DeleteInDB, ScanIInv, redisVars
<1>5. CASE ListOthers(p)
  BY <1>5, <1>g, <1>q DEF ListOthers, ScanIInv, redisVars
<1>6. CASE Srem(p)
  <2>1. \A k \in Keys : members'[k] \subseteq members[k]
    BY <1>6 DEF Srem, TypeOK
  <2>2. BoardFirst'
    BY <1>0, <1>6, BoardFirstKept DEF Srem
  <2> QED
    BY <1>6, <2>1, <2>2 DEF Srem, ScanIInv
<1>7. CASE CheckBinding(p)
  BY <1>7, <1>s, <1>g DEF CheckBinding, ScanIInv, redisVars
<1>8. CASE AddBoard(p)
  <2>1. PICK s \in job[p].sub : scanned' = scanned \union {s.board}
    BY <1>8 DEF AddBoard
  <2>2. \A t \in job[p].sub : t = s
    BY DEF JobInv, Shape
  <2>3. BoardFirst'
    BY <1>8, <1>0, <2>1, <2>2 DEF AddBoard, Goto, BoardFirst, SlotsOK
  <2> QED
    BY <1>8, <2>1, <2>3 DEF AddBoard, ScanIInv
<1>9. CASE Sadd(p)
  <2>1. PICK s \in job[p].sub : members' = [members EXCEPT ![Key(s)] = @ \union {s.user}]
    BY <1>9 DEF Sadd
  <2>2. s.board \in scanned /\ Key(s)[2] = s.board
    BY <1>9, <1>0 DEF Sadd, BoardFirst, Key
  <2>3. \A k \in Keys : members'[k] # {} => k = Key(s) \/ members[k] # {}
    BY <2>1 DEF TypeOK
  <2> QED
    BY <1>9, <1>g, <2>2, <2>3 DEF Sadd, ScanIInv
<1>10. CASE ReadChat(p)
  BY <1>10, <1>q, <1>s DEF ReadChat, redisVars
<1>11. CASE ReadList(p)
  BY <1>11, <1>q DEF ReadList, redisVars
<1>12. CASE SetUser(p)
  BY <1>12, <1>s DEF SetUser
<1>13. CASE Confirm(p)
  BY <1>13, <1>q, <1>s DEF Confirm, redisVars
<1>14. CASE ListAll(p)
  BY <1>14, <1>q, <1>s DEF ListAll, redisVars
<1>15. CASE SyncNext(p)
  BY <1>15, <1>q DEF SyncNext, redisVars
<1>16. CASE DelUser(p)
  BY <1>16, <1>s DEF DelUser
<1> QED
  BY <1>1, <1>2, <1>3, <1>4, <1>5, <1>6, <1>7, <1>8, <1>9, <1>10,
     <1>11, <1>12, <1>13, <1>14, <1>15, <1>16 DEF Step

\* A board with keyword or author subscribers is always in the set of boards
\* the checker scans: addToSubscriberSet adds the board before the account.
THEOREM BoardsScanned == Spec => []ScannedInv
<1>1. Init => ScanIInv
  BY DEF Init, ScanIInv, BoardFirst
<1>2. TypeOK /\ JobInv /\ ScanIInv /\ [Next]_vars => ScanIInv'
  <2> SUFFICES ASSUME TypeOK, JobInv, ScanIInv, [Next]_vars PROVE ScanIInv'
    OBVIOUS
  <2>1. ASSUME NEW p \in Procs, Step(p) PROVE ScanIInv'
    BY <2>1, ScanStep
  <2>2. ASSUME NEW p \in Procs, Request(p) PROVE ScanIInv'
    <3>1. \E j, l : l # "sadd" /\ Begin(p, j, l) /\ UNCHANGED <<scanned, members>>
      <4>1. ASSUME NEW u \in Users, NEW b \in Boards, NEW t \in SubTypes, NEW v \in Values,
                   StartCreate(p, u, b, t, v)
            PROVE  \E j, l : l # "sadd" /\ Begin(p, j, l) /\ UNCHANGED <<scanned, members>>
        BY <4>1 DEF StartCreate, redisVars
      <4>2. ASSUME NEW r \in rows, NEW b \in Boards, NEW t \in SubTypes, NEW v \in Values,
                   NEW on \in BOOLEAN, StartUpdate(p, r, b, t, v, on)
            PROVE  \E j, l : l # "sadd" /\ Begin(p, j, l) /\ UNCHANGED <<scanned, members>>
        BY <4>2 DEF StartUpdate, redisVars
      <4>3. ASSUME NEW r \in rows, StartDelete(p, r)
            PROVE  \E j, l : l # "sadd" /\ Begin(p, j, l) /\ UNCHANGED <<scanned, members>>
        BY <4>3 DEF StartDelete, redisVars
      <4>4. ASSUME NEW u \in Users, NEW c \in Chats, StartBind(p, u, c)
            PROVE  \E j, l : l # "sadd" /\ Begin(p, j, l) /\ UNCHANGED <<scanned, members>>
        BY <4>4 DEF StartBind, redisVars
      <4>5. ASSUME NEW u \in Users, AdminDelete(p, u)
            PROVE  \E j, l : l # "sadd" /\ Begin(p, j, l) /\ UNCHANGED <<scanned, members>>
        BY <4>5 DEF AdminDelete, redisVars
      <4> QED
        BY <2>2, <4>1, <4>2, <4>3, <4>4, <4>5 DEF Request
    <3> QED
      BY <3>1, TypeParts, BoardFirstKept DEF ScanIInv
  <2>3. CASE Settings
    BY <2>3 DEF Settings, Unbind, AdminUpdate, ScanIInv, BoardFirst, redisVars
  <2>4. CASE Failure
    <3>1. ASSUME NEW p \in Procs, Abort(p) PROVE ScanIInv'
      BY <3>1, TypeParts, BoardFirstKept DEF Abort, Finish, Stop, ScanIInv, redisVars
    <3>2. ASSUME Restart PROVE ScanIInv'
      BY <3>2 DEF Restart, ScanIInv, BoardFirst, redisVars
    <3> QED
      BY <2>4, <3>1, <3>2 DEF Failure
  <2>5. CASE UNCHANGED vars
    BY <2>5 DEF ScanIInv, BoardFirst, vars, redisVars
  <2> QED
    BY <2>1, <2>2, <2>3, <2>4, <2>5 DEF Next, Empty
<1>3. ScanIInv => ScannedInv
  BY DEF ScanIInv, ScannedInv, ScannedFor
<1> QED
  BY <1>1, <1>2, <1>3, TypeCorrect, ShapeHolds, PTL DEF Spec

-----------------------------------------------------------------------------
(***************************************************************************)
(* A row keeps its owner: the subscription a slot works on belongs to the  *)
(* user of the row with its id, if that row is still there.  A deleted     *)
(* account has no rows.                                                    *)
(***************************************************************************)
SameOwner(s) == s.id < nextId /\ \A r \in rows : r.id = s.id => r.user = s.user

IdInv ==
  /\ nextId >= 1
  /\ \A r \in rows : r.id >= 1 /\ SameOwner(r)
  /\ \A p \in Procs : \A s \in job[p].sub \union job[p].todo : SameOwner(s)

GoneInv == \A u \in Users : acct[u] = "gone" => RowsOf(u) = {}

\* A subscription with the id and owner of one that was known, or without id.
Known(p, s) ==
  \/ s.id = 0
  \/ \E t \in rows \union job[p].sub \union job[p].todo : t.id = s.id /\ t.user = s.user

\* A step that inserts no row.
LEMMA IdsKept ==
  ASSUME TypeOK, IdInv, NEW p \in Procs, nextId' = nextId,
         \A r \in rows' : \E q \in rows : q.id = r.id /\ q.user = r.user,
         \A q \in Procs \ {p} : job'[q] = job[q],
         \A s \in job'[p].sub \union job'[p].todo : Known(p, s)
  PROVE  IdInv'
<1>1. ASSUME NEW s, Known(p, s) PROVE SameOwner(s)
  BY <1>1 DEF IdInv, Known, SameOwner, TypeOK, Row
<1>2. ASSUME NEW s, SameOwner(s) PROVE SameOwner(s)'
  BY <1>2 DEF SameOwner
<1>3. \A r \in rows' : r.id >= 1 /\ SameOwner(r)'
  <2> SUFFICES ASSUME NEW r \in rows' PROVE r.id >= 1 /\ SameOwner(r)'
    OBVIOUS
  <2>1. PICK q \in rows : q.id = r.id /\ q.user = r.user
    OBVIOUS
  <2>2. r.id >= 1 /\ SameOwner(r)
    BY <2>1 DEF IdInv, SameOwner
  <2> QED
    BY <2>2, <1>2
<1>4. \A q \in Procs : \A s \in job'[q].sub \union job'[q].todo : SameOwner(s)'
  BY <1>1, <1>2 DEF IdInv
<1> QED
  BY <1>3, <1>4 DEF IdInv

\* What a slot knows after an assignment to its variables.
LEMMA JobKnown ==
  ASSUME TypeOK, NEW p \in Procs, NEW j, NEW l, Begin(p, j, l),
         \A s \in j.sub \union j.todo : Known(p, s)
  PROVE  /\ \A q \in Procs \ {p} : job'[q] = job[q]
         /\ \A s \in job'[p].sub \union job'[p].todo : Known(p, s)
  BY DEF TypeOK, Begin

\* A slot that goes on, or stops, with rows that were known.
LEMMA SlotIds ==
  ASSUME TypeOK, IdInv, NEW p \in Procs, nextId' = nextId,
         \A r \in rows' : \E q \in rows : q.id = r.id /\ q.user = r.user,
         Stop(p) \/ Finish(p) \/ \E l : Goto(p, l)
  PROVE  IdInv'
<1>0. job[p] \in Job
  BY DEF TypeOK
<1>1. CASE Stop(p)
  <2>1. \A s \in NoJob.sub \union NoJob.todo : Known(p, s)
    BY DEF NoJob
  <2> QED
    BY <1>1, <2>1, JobKnown, IdsKept DEF Stop
<1>2. CASE Finish(p) /\ ~Stop(p)
  <2> DEFINE j == [job[p] EXCEPT !.chat = NoChat, !.sub = {}, !.list = {}]
  <2>1. j.sub = {} /\ j.todo = job[p].todo
    BY <1>0 DEF Job
  <2>2. \A s \in j.sub \union j.todo : Known(p, s)
    BY <2>1 DEF Known
  <2>3. Begin(p, j, "next")
    BY <1>2 DEF Finish
  <2> HIDE DEF j
  <2> QED
    BY <2>2, <2>3, JobKnown, IdsKept
<1>3. CASE \E l : Goto(p, l)
  <2>1. \A s \in job[p].sub \union job[p].todo : Known(p, s)
    BY DEF Known
  <2> QED
    BY <1>3, <2>1, IdsKept DEF Goto
<1> QED
  BY <1>1, <1>2, <1>3

\* The same for a slot that changes its variables.
LEMMA BeginIds ==
  ASSUME TypeOK, IdInv, NEW p \in Procs, UNCHANGED <<rows, nextId>>, NEW j, NEW l,
         Begin(p, j, l), \A s \in j.sub \union j.todo : Known(p, s)
  PROVE  IdInv'
  BY JobKnown, IdsKept

\* Every step of a slot keeps owners,
LEMMA StepIds ==
  ASSUME TypeOK, JobInv, IdInv, NEW p \in Procs, Step(p)
  PROVE  IdInv'
<1>0. /\ StoresOK /\ job[p] \in Job /\ job[p].sub \subseteq Row /\ rows \subseteq Row
      /\ \A s, t \in job[p].sub : s = t
  BY TypeParts DEF SlotsOK, StoresOK, Job, JobInv, Shape
<1>k. /\ \A s \in job[p].sub \union job[p].todo : Known(p, s)
      /\ \A s \in rows : Known(p, s)
  BY DEF Known
<1>s. ASSUME UNCHANGED <<rows, nextId>>, Stop(p) \/ Finish(p) \/ \E l : Goto(p, l)
      PROVE  IdInv'
  BY <1>s, SlotIds
<1>j. ASSUME NEW j, NEW l, UNCHANGED <<rows, nextId>>, Begin(p, j, l),
             j.sub = job[p].sub, j.todo = job[p].todo
      PROVE  IdInv'
  BY <1>j, <1>k, BeginIds
<1>1. CASE Insert(p)
  <2>1. PICK s \in job[p].sub :
          \/ Stop(p) /\ UNCHANGED <<rows, nextId>>
          \/ /\ rows' = rows \union {[s EXCEPT !.id = nextId]} /\ nextId' = nextId + 1
             /\ Begin(p, [job[p] EXCEPT !.sub = {[s EXCEPT !.id = nextId]}], "binding")
    BY <1>1 DEF Insert
  <2>r. PICK r : r = [s EXCEPT !.id = nextId]
    OBVIOUS
  <2>j. PICK j : j = [job[p] EXCEPT !.sub = {r}]
    OBVIOUS
  <2>2. SUFFICES ASSUME rows' = rows \union {r}, nextId' = nextId + 1, Begin(p, j, "binding")
                 PROVE  IdInv'
    BY <2>1, <2>r, <2>j, <1>s
  <2>3. r.id = nextId /\ r.user = s.user /\ j.sub = {r} /\ j.todo = job[p].todo
    BY <1>0, <2>r, <2>j DEF Row, Job
  <2>4. /\ job'[p] = j
        /\ \A q \in Procs \ {p} : job'[q] = job[q]
    BY <2>2 DEF Begin, TypeOK
  <2>5. SameOwner(r)'
    BY <2>2, <2>3 DEF SameOwner, IdInv, TypeOK
  <2>6. ASSUME NEW t \in Row, SameOwner(t) PROVE SameOwner(t)'
    BY <2>2, <2>3, <2>6 DEF SameOwner, TypeOK, Row
  <2>7. \A q \in rows' : q.id >= 1 /\ SameOwner(q)'
    BY <1>0, <2>2, <2>3, <2>5, <2>6 DEF IdInv, StoresOK
  <2>8. \A q \in Procs : \A t \in job'[q].sub \union job'[q].todo : SameOwner(t)'
    BY <2>3, <2>4, <2>5, <2>6 DEF IdInv, TypeOK, Job
  <2>9. nextId' >= 1
    BY <2>2 DEF IdInv, TypeOK
  <2> QED
    BY <2>7, <2>8, <2>9 DEF IdInv
<1>2. CASE UpdateInDB(p)
  <2>1. PICK s \in job[p].sub :
          /\ \/ rows' = rows
             \/ rows' = {IF r.id = s.id THEN [s EXCEPT !.user = r.user] ELSE r : r \in rows}
          /\ Stop(p) \/ Goto(p, "updacc")
          /\ nextId' = nextId
    BY <1>2 DEF UpdateInDB
  <2>2. \A r \in rows : LET q == [s EXCEPT !.user = r.user]
                        IN  q.id = s.id /\ q.user = r.user
    BY <1>0 DEF Row
  <2>3. \A r \in rows' : \E q \in rows : q.id = r.id /\ q.user = r.user
    <3>1. CASE rows' = rows
      BY <3>1
    <3>2. CASE rows' = {IF r.id = s.id THEN [s EXCEPT !.user = r.user] ELSE r : r \in rows}
      BY <3>2, <2>2
    <3> QED
      BY <2>1, <3>1, <3>2
  <2> QED
    BY <2>1, <2>3, SlotIds
<1>3. CASE ReadAcc(p)
  BY <1>3, <1>0, <1>s, <1>j DEF ReadAcc, dbVars, Job
<1>4. CASE DeleteInDB(p)
  BY <1>4, SlotIds DEF DeleteInDB
<1>5. CASE ListOthers(p)
  BY <1>5, <1>0, <1>s, <1>j DEF ListOthers, dbVars, Job
<1>6. CASE Srem(p)
  BY <1>6, <1>0, <1>j DEF Srem, dbVars, Job
<1>7. CASE CheckBinding(p)
  BY <1>7, <1>s DEF CheckBinding, dbVars
<1>8. CASE AddBoard(p)
  BY <1>8, <1>s DEF AddBoard, dbVars
<1>9. CASE Sadd(p)
  BY <1>9, <1>s DEF Sadd, dbVars
<1>10. CASE ReadChat(p)
  BY <1>10, <1>0, <1>s, <1>j DEF ReadChat, dbVars, Job
<1>11. CASE ReadList(p)
  BY <1>11, <1>0, <1>j DEF ReadList, dbVars, Job
<1>12. CASE SetUser(p)
  BY <1>12, <1>s DEF SetUser, dbVars
<1>13. CASE Confirm(p)
  BY <1>13, <1>0, <1>s, <1>j DEF Confirm, Job
<1>14. CASE ListAll(p)
  <2>1. PICK u \in job[p].user :
          \/ Stop(p)
          \/ Begin(p, [job[p] EXCEPT !.on = (acct[u] = "on"), !.todo = RowsOf(u)], "next")
    BY <1>14 DEF ListAll
  <2> DEFINE j == [job[p] EXCEPT !.on = (acct[u] = "on"), !.todo = RowsOf(u)]
  <2>2. j.sub = job[p].sub /\ j.todo = RowsOf(u)
    BY <1>0 DEF Job
  <2>3. \A s \in j.sub \union j.todo : Known(p, s)
    BY <1>k, <2>2 DEF RowsOf
  <2>4. UNCHANGED <<rows, nextId>>
    BY <1>14 DEF ListAll, dbVars
  <2> HIDE DEF j
  <2>5. CASE Begin(p, j, "next")
    BY <2>3, <2>4, <2>5, BeginIds
  <2> QED
    BY <2>1, <2>4, <2>5, <1>s DEF j
<1>15. CASE SyncNext(p)
  <2>1. PICK s \in job[p].todo :
          Begin(p, [job[p] EXCEPT !.sub = {s}, !.todo = job[p].todo \ {s}], "binding")
    BY <1>15 DEF SyncNext
  <2> DEFINE j == [job[p] EXCEPT !.sub = {s}, !.todo = job[p].todo \ {s}]
  <2>2. j.sub = {s} /\ j.todo = job[p].todo \ {s}
    BY <1>0 DEF Job
  <2>3. UNCHANGED <<rows, nextId>>
    BY <1>15 DEF SyncNext, dbVars
  <2> HIDE DEF j
  <2>4. Begin(p, j, "binding")
    BY <2>1 DEF j
  <2> QED
    BY <1>k, <2>2, <2>3, <2>4, BeginIds
<1>16. CASE DelUser(p)
  BY <1>16, <1>s DEF DelUser, dbVars
<1> QED
  BY <1>1, <1>2, <1>3, <1>4, <1>5, <1>6, <1>7, <1>8, <1>9, <1>10,
     <1>11, <1>12, <1>13, <1>14, <1>15, <1>16 DEF Step

\* so does a request that starts,
LEMMA RequestIds ==
  ASSUME TypeOK, IdInv, NEW p \in Procs, Request(p)
  PROVE  IdInv'
<1>0. rows \subseteq Row
  BY DEF TypeOK
<1>q. ASSUME NEW j, NEW l, UNCHANGED nextId, Begin(p, j, l), rows' \subseteq rows,
             \A s \in j.sub \union j.todo : Known(p, s)
      PROVE  IdInv'
  BY <1>q, JobKnown, IdsKept
<1>1. ASSUME NEW u \in Users, NEW b \in Boards, NEW t \in SubTypes, NEW v \in Values,
             StartCreate(p, u, b, t, v)
      PROVE  IdInv'
  <2> DEFINE r == [id |-> 0, user |-> u, board |-> b, type |-> t, value |-> v, on |-> TRUE]
             j == [NoJob EXCEPT !.user = {u}, !.on = (acct[u] = "on"), !.sub = {r}]
  <2>1. j.sub = {r} /\ j.todo = {} /\ Known(p, r)
    BY DEF NoJob, Known
  <2>2. Begin(p, j, "insert") /\ UNCHANGED <<rows, nextId>>
    BY <1>1 DEF StartCreate, dbVars
  <2> HIDE DEF j
  <2> QED
    BY <2>1, <2>2, <1>q
<1>2. ASSUME NEW r \in rows, NEW b \in Boards, NEW t \in SubTypes, NEW v \in Values,
             NEW on \in BOOLEAN, StartUpdate(p, r, b, t, v, on)
      PROVE  IdInv'
  <2> DEFINE s == [r EXCEPT !.board = b, !.type = t, !.value = v, !.on = on]
             j == [NoJob EXCEPT !.user = {r.user}, !.sub = {s}]
  <2>1. s.user = r.user /\ s.id = r.id
    BY <1>0 DEF Row
  <2>2. j.sub = {s} /\ j.todo = {} /\ Known(p, s)
    BY <2>1 DEF NoJob, Known
  <2>3. Begin(p, j, "update") /\ UNCHANGED <<rows, nextId>>
    BY <1>2 DEF StartUpdate, dbVars
  <2> HIDE DEF j
  <2> QED
    BY <2>2, <2>3, <1>q
<1>3. ASSUME NEW r \in rows, StartDelete(p, r) PROVE IdInv'
  <2> DEFINE j == [NoJob EXCEPT !.user = {r.user}, !.sub = {r}, !.on = (acct[r.user] = "on")]
  <2>1. j.sub = {r} /\ j.todo = {} /\ Known(p, r)
    BY DEF NoJob, Known
  <2>2. Begin(p, j, "delete") /\ UNCHANGED <<rows, nextId>>
    BY <1>3 DEF StartDelete, dbVars
  <2> HIDE DEF j
  <2> QED
    BY <2>1, <2>2, <1>q
<1>4. ASSUME NEW u \in Users, NEW c \in Chats, StartBind(p, u, c) PROVE IdInv'
  <2>1. \A j : j = [NoJob EXCEPT !.user = {u}, !.chat = c] => j.sub = {} /\ j.todo = {}
    BY DEF NoJob
  <2> QED
    BY <1>4, <1>q, <2>1 DEF StartBind, dbVars
<1>5. ASSUME NEW u \in Users, AdminDelete(p, u) PROVE IdInv'
  <2>1. \A j : j = [NoJob EXCEPT !.user = {u}] => j.sub = {} /\ j.todo = {}
    BY DEF NoJob
  <2> QED
    BY <1>5, <1>q, <2>1 DEF AdminDelete
<1> QED
  BY <1>1, <1>2, <1>3, <1>4, <1>5 DEF Request

\* and so an id never changes hands.
LEMMA IdsHold == Spec => []IdInv
<1>1. Init => IdInv
  BY DEF Init, IdInv, NoJob
<1>2. TypeOK /\ JobInv /\ IdInv /\ [Next]_vars => IdInv'
  <2> SUFFICES ASSUME TypeOK, JobInv, IdInv, [Next]_vars PROVE IdInv'
    OBVIOUS
  <2>1. ASSUME NEW p \in Procs, Step(p) \/ Request(p) PROVE IdInv'
    BY <2>1, StepIds, RequestIds
  <2>2. CASE Settings
    BY <2>2 DEF Settings, Unbind, AdminUpdate, IdInv, SameOwner
  <2>3. CASE Failure
    <3>1. ASSUME NEW p \in Procs, Abort(p) PROVE IdInv'
      BY <3>1, SlotIds DEF Abort, dbVars
    <3>2. ASSUME Restart PROVE IdInv'
      BY <3>2 DEF Restart, IdInv, SameOwner, NoJob, dbVars
    <3> QED
      BY <2>3, <3>1, <3>2 DEF Failure
  <2>4. CASE UNCHANGED vars
    BY <2>4 DEF IdInv, SameOwner, vars, dbVars
  <2> QED
    BY <2>1, <2>2, <2>3, <2>4 DEF Next, Empty
<1> QED
  BY <1>1, <1>2, TypeCorrect, ShapeHolds, PTL DEF Spec

\* A deleted account has no rows: the DELETE cascades, and no INSERT follows.
LEMMA GoneHolds == Spec => []GoneInv
<1>1. Init => GoneInv
  BY DEF Init, GoneInv
<1>2. TypeOK /\ JobInv /\ GoneInv /\ [Next]_vars => GoneInv'
  <2> SUFFICES ASSUME TypeOK, JobInv, GoneInv, [Next]_vars PROVE GoneInv'
    OBVIOUS
  <2>0. rows \subseteq Row
    BY DEF TypeOK
  <2>k. ASSUME UNCHANGED acct, \A r \in rows' : \E q \in rows : q.user = r.user
        PROVE  GoneInv'
    BY <2>k DEF GoneInv, RowsOf
  <2>1. ASSUME NEW p \in Procs, Step(p) PROVE GoneInv'
    <3>0. \A s \in job[p].sub : s \in Row
      BY DEF TypeOK, Job
    <3>1. CASE Insert(p)
      <4>1. PICK s \in job[p].sub :
              \/ acct[s.user] # "gone" /\ rows' = rows \union {[s EXCEPT !.id = nextId]}
              \/ UNCHANGED rows
        BY <3>1 DEF Insert
      <4>2. [s EXCEPT !.id = nextId].user = s.user /\ UNCHANGED acct
        BY <3>0, <3>1 DEF Row, Insert
      <4> QED
        BY <4>1, <4>2 DEF GoneInv, RowsOf
    <3>2. CASE UpdateInDB(p)
      <4>1. PICK s \in job[p].sub :
              \/ rows' = rows
              \/ rows' = {IF r.id = s.id THEN [s EXCEPT !.user = r.user] ELSE r : r \in rows}
        BY <3>2 DEF UpdateInDB
      <4>2. \A r \in rows : [s EXCEPT !.user = r.user].user = r.user
        BY <3>0 DEF Row
      <4>3. \A r \in rows' : \E q \in rows : q.user = r.user
        BY <4>1, <4>2
      <4> QED
        BY <3>2, <4>3, <2>k DEF UpdateInDB
    <3>3. CASE UNCHANGED acct /\ rows' \subseteq rows
      BY <3>3, <2>k
    <3> QED
      BY <2>1, <3>1, <3>2, <3>3
      DEF Step, ReadAcc, DeleteInDB, ListOthers, Srem, CheckBinding, AddBoard, Sadd,
          ReadChat, ReadList, SetUser, Confirm, ListAll, SyncNext, DelUser, dbVars
  <2>2. ASSUME NEW p \in Procs, Request(p) PROVE GoneInv'
    <3>1. ASSUME NEW u \in Users, AdminDelete(p, u) PROVE GoneInv'
      BY <3>1 DEF AdminDelete, GoneInv, RowsOf, TypeOK
    <3>2. CASE UNCHANGED <<acct, rows>>
      BY <3>2, <2>k
    <3> QED
      BY <2>2, <3>1, <3>2
      DEF Request, StartCreate, StartUpdate, StartDelete, StartBind, dbVars
  <2>3. CASE Settings
    BY <2>3 DEF Settings, Unbind, AdminUpdate, GoneInv, RowsOf, TypeOK
  <2>4. CASE Failure
    BY <2>4, <2>k DEF Failure, Abort, Restart, dbVars
  <2>5. CASE UNCHANGED vars
    BY <2>5, <2>k DEF vars, dbVars
  <2> QED
    BY <2>1, <2>2, <2>3, <2>4, <2>5 DEF Next, Empty
<1> QED
  BY <1>1, <1>2, TypeCorrect, ShapeHolds, PTL DEF Spec

-----------------------------------------------------------------------------
(***************************************************************************)
(* While SyncSubscriptionDelete runs its subscription is gone for good, and *)
(* it removes the user only if the list it read has no other of that key.  *)
(***************************************************************************)
NoOther(p) ==
  \A s \in job[p].sub :
    /\ pc[p] \in {"others", "srem"} => \A r \in rows : r.id # s.id
    /\ pc[p] = "srem" => \A r \in job[p].list : r.id # s.id => Key(r) # Key(s)

DeleteInv == \A p \in Procs : NoOther(p)

\* What a slot does leaves the other slots alone.
LEMMA OtherSlots ==
  ASSUME SlotsOK, NEW p \in Procs,
         Stop(p) \/ Finish(p) \/ (\E j, l : Begin(p, j, l)) \/ (\E l : Goto(p, l))
  PROVE  \A q \in Procs \ {p} : pc'[q] = pc[q] /\ job'[q] = job[q]
  BY DEF SlotsOK, Stop, Finish, Begin, Goto

\* A slot that is not deleting, or goes on with rows it had.
LEMMA NoOtherKept ==
  ASSUME TypeOK, IdInv, DeleteInv, NEW p \in Procs,
         \A q \in Procs \ {p} : pc'[q] = pc[q] /\ job'[q] = job[q],
         \A r \in rows' : (\E q \in rows : q.id = r.id) \/ r.id = nextId,
         NoOther(p)'
  PROVE  DeleteInv'
<1> SUFFICES ASSUME NEW q \in Procs \ {p} PROVE NoOther(q)'
  BY DEF DeleteInv
<1>1. NoOther(q) /\ \A s \in job[q].sub : s.id # nextId
  BY DEF DeleteInv, IdInv, SameOwner, TypeOK, Job, Row
<1>2. \A s \in job[q].sub : pc[q] \in {"others", "srem"} => \A r \in rows' : r.id # s.id
  BY <1>1 DEF NoOther, IdInv
<1> QED
  BY <1>1, <1>2 DEF NoOther

\* A slot that goes on anywhere else.
LEMMA NotDeleting ==
  ASSUME TypeOK, IdInv, DeleteInv, NEW p \in Procs,
         \A r \in rows' : (\E q \in rows : q.id = r.id) \/ r.id = nextId,
         \/ Stop(p) \/ Finish(p)
         \/ \E j, l : l \notin {"others", "srem"} /\ Begin(p, j, l)
         \/ \E l : l \notin {"others", "srem"} /\ Goto(p, l)
  PROVE  DeleteInv'
<1>1. pc'[p] \notin {"others", "srem"}
  BY DEF Stop, Finish, Begin, Goto, TypeOK
<1>2. \A q \in Procs \ {p} : pc'[q] = pc[q] /\ job'[q] = job[q]
  BY TypeParts, OtherSlots
<1> QED
  BY <1>1, <1>2, NoOtherKept DEF NoOther

\* Every step of a slot keeps it.
LEMMA StepDelete ==
  ASSUME TypeOK, JobInv, IdInv, DeleteInv, NEW p \in Procs, Step(p)
  PROVE  DeleteInv'
<1>0. /\ SlotsOK /\ job[p] \in Job /\ rows \subseteq Row /\ job[p].sub \subseteq Row
      /\ \A s, t \in job[p].sub : s = t
  BY TypeParts DEF SlotsOK, TypeOK, Job, JobInv, Shape
<1>n. ASSUME \A r \in rows' : \E q \in rows : q.id = r.id,
             \/ Stop(p) \/ Finish(p)
             \/ \E j, l : l \notin {"others", "srem"} /\ Begin(p, j, l)
             \/ \E l : l \notin {"others", "srem"} /\ Goto(p, l)
      PROVE  DeleteInv'
  BY <1>0, <1>n, NotDeleting
<1>1. CASE Insert(p)
  <2>1. PICK s \in job[p].sub :
          \/ Stop(p) /\ UNCHANGED rows
          \/ /\ rows' = rows \union {[s EXCEPT !.id = nextId]}
             /\ Begin(p, [job[p] EXCEPT !.sub = {[s EXCEPT !.id = nextId]}], "binding")
    BY <1>1 DEF Insert
  <2>2. [s EXCEPT !.id = nextId].id = nextId
    BY <1>0 DEF Row
  <2>3. \A r \in rows' : (\E q \in rows : q.id = r.id) \/ r.id = nextId
    BY <2>1, <2>2
  <2> QED
    BY <1>0, <2>1, <2>3, NotDeleting
<1>2. CASE UpdateInDB(p)
  <2>1. PICK s \in job[p].sub :
          /\ \/ rows' = rows
             \/ rows' = {IF r.id = s.id THEN [s EXCEPT !.user = r.user] ELSE r : r \in rows}
          /\ Stop(p) \/ Goto(p, "updacc")
    BY <1>2 DEF UpdateInDB
  <2>2. \A r \in rows : [s EXCEPT !.user = r.user].id = s.id
    BY <1>0 DEF Row
  <2>3. \A r \in rows' : \E q \in rows : q.id = r.id
    <3>1. CASE rows' = rows
      BY <3>1
    <3>2. CASE rows' = {IF r.id = s.id THEN [s EXCEPT !.user = r.user] ELSE r : r \in rows}
      BY <3>2, <2>2
    <3> QED
      BY <2>1, <3>1, <3>2
  <2> QED
    BY <2>1, <2>3, <1>n
<1>3. CASE DeleteInDB(p)
  <2>1. PICK s \in job[p].sub :
          rows' = {r \in rows : r.id # s.id} /\ (Goto(p, "others") \/ Stop(p))
    BY <1>3 DEF DeleteInDB
  <2>2. CASE Goto(p, "others")
    <3>1. pc'[p] = "others" /\ job'[p] = job[p]
      BY <1>0, <2>2 DEF Goto, SlotsOK
    <3>2. NoOther(p)'
      BY <1>0, <2>1, <3>1 DEF NoOther
    <3>3. \A q \in Procs \ {p} : pc'[q] = pc[q] /\ job'[q] = job[q]
      BY <1>0, <2>2, OtherSlots
    <3> QED
      BY <1>0, <2>1, <3>2, <3>3, NoOtherKept
  <2> QED
    BY <2>1, <2>2, <1>n
<1>4. CASE ListOthers(p)
  <2>1. PICK s \in job[p].sub :
          \/ Goto(p, "chat")
          \/ /\ \A r \in RowsOf(s.user) : r.id # s.id => Key(r) # Key(s)
             /\ Begin(p, [job[p] EXCEPT !.list = RowsOf(s.user)], "srem")
    BY <1>4 DEF ListOthers
  <2>2. UNCHANGED rows /\ pc[p] = "others"
    BY <1>4 DEF ListOthers, dbVars
  <2>3. CASE /\ \A r \in RowsOf(s.user) : r.id # s.id => Key(r) # Key(s)
             /\ Begin(p, [job[p] EXCEPT !.list = RowsOf(s.user)], "srem")
    <3>1. /\ pc'[p] = "srem" /\ job'[p].sub = job[p].sub
          /\ job'[p].list = RowsOf(s.user)
      BY <1>0, <2>3 DEF Begin, SlotsOK, Job
    <3>2. \A t \in job[p].sub : t = s /\ \A r \in rows : r.id # t.id
      BY <1>0, <2>2 DEF DeleteInv, NoOther
    <3>3. NoOther(p)'
      BY <2>2, <2>3, <3>1, <3>2 DEF NoOther, Key
    <3>4. \A q \in Procs \ {p} : pc'[q] = pc[q] /\ job'[q] = job[q]
      BY <1>0, <2>3, OtherSlots
    <3> QED
      BY <1>0, <2>2, <3>3, <3>4, NoOtherKept
  <2> QED
    BY <2>1, <2>2, <2>3, <1>n
<1>5. CASE UNCHANGED rows /\ \/ Stop(p) \/ Finish(p)
                             \/ \E j, l : l \notin {"others", "srem"} /\ Begin(p, j, l)
                             \/ \E l : l \notin {"others", "srem"} /\ Goto(p, l)
  BY <1>5, <1>n
<1> QED
  BY <1>1, <1>2, <1>3, <1>4, <1>5
  DEF Step, ReadAcc, Srem, CheckBinding, AddBoard, Sadd, ReadChat, ReadList,
      SetUser, Confirm, ListAll, SyncNext, DelUser, dbVars

\* The list of a delete and its subscription, from the first state on.
LEMMA DeleteHolds == Spec => []DeleteInv
<1>1. Init => DeleteInv
  BY DEF Init, DeleteInv, NoOther
<1>2. TypeOK /\ JobInv /\ IdInv /\ DeleteInv /\ [Next]_vars => DeleteInv'
  <2> SUFFICES ASSUME TypeOK, JobInv, IdInv, DeleteInv, [Next]_vars PROVE DeleteInv'
    OBVIOUS
  <2>0. SlotsOK
    BY TypeParts
  <2>1. ASSUME NEW p \in Procs, Step(p) PROVE DeleteInv'
    BY <2>1, StepDelete
  <2>2. ASSUME NEW p \in Procs, Request(p) PROVE DeleteInv'
    <3>1. rows' \subseteq rows /\ \E j, l : l \notin {"others", "srem"} /\ Begin(p, j, l)
      BY <2>2
      DEF Request, StartCreate, StartUpdate, StartDelete, StartBind, AdminDelete, dbVars
    <3> QED
      BY <2>0, <3>1, NotDeleting
  <2>3. CASE Settings
    BY <2>3 DEF Settings, Unbind, AdminUpdate, DeleteInv, NoOther
  <2>4. CASE Failure
    <3>1. ASSUME NEW p \in Procs, Abort(p) PROVE DeleteInv'
      BY <2>0, <3>1, NotDeleting DEF Abort, dbVars
    <3>2. ASSUME Restart PROVE DeleteInv'
      BY <3>2 DEF Restart, DeleteInv, NoOther
    <3> QED
      BY <2>4, <3>1, <3>2 DEF Failure
  <2>5. CASE UNCHANGED vars
    BY <2>5 DEF DeleteInv, NoOther, vars, dbVars
  <2> QED
    BY <2>1, <2>2, <2>3, <2>4, <2>5 DEF Next, Empty
<1> QED
  BY <1>1, <1>2, TypeCorrect, ShapeHolds, IdsHold, PTL DEF Spec

-----------------------------------------------------------------------------
(***************************************************************************)
(* No subscriber is lost.                                                  *)
(***************************************************************************)
\* The obligation of slot p for row r.
Due(p, r) == r.user \in job[p].user /\ Key(r) \in Pending(p)

\* A step of slot p keeps the rows of bound users covered when each was bound
\* and a row before and its reason for being covered stays, or it is covered.
LEMMA CoverKept ==
  ASSUME CoverInv, NEW p \in Procs,
         \A q \in Procs \ {p} : pc'[q] = pc[q] /\ job'[q] = job[q],
         \A r \in rows' : chat'[r.user] # NoChat =>
           \/ Covered(r)'
           \/ /\ r \in rows /\ chat[r.user] # NoChat
              /\ r.user \in members[Key(r)] => r.user \in members'[Key(r)]
              /\ <<r.user, Key(r)>> \in torn => <<r.user, Key(r)>> \in torn'
              /\ ~Due(p, r)
  PROVE  CoverInv'
<1> SUFFICES ASSUME NEW r \in rows', chat'[r.user] # NoChat, ~Covered(r)'
             PROVE  FALSE
  BY DEF CoverInv
<1>1. Covered(r) /\ ~Due(p, r)
  BY DEF CoverInv
<1>2. PICK q \in Procs : Due(q, r)
  BY <1>1 DEF Covered, Due
<1>3. Due(q, r)'
  BY <1>1, <1>2 DEF Due, Pending
<1> QED
  BY <1>3 DEF Covered, Due

\* A step that touches neither the tables nor the subscriber sets, and leaves
\* the slot its obligations.
LEMMA CoverSlot ==
  ASSUME TypeOK, CoverInv, NEW p \in Procs,
         \A q \in Procs \ {p} : pc'[q] = pc[q] /\ job'[q] = job[q],
         UNCHANGED <<rows, members>>, torn \subseteq torn',
         \A u \in Users : chat'[u] # NoChat => chat[u] # NoChat,
         \A r \in rows : Due(p, r) /\ chat[r.user] # NoChat =>
           Due(p, r)' \/ <<r.user, Key(r)>> \in torn'
  PROVE  CoverInv'
<1>1. ASSUME NEW r \in rows', chat'[r.user] # NoChat
      PROVE  \/ Covered(r)'
             \/ /\ r \in rows /\ chat[r.user] # NoChat
                /\ r.user \in members[Key(r)] => r.user \in members'[Key(r)]
                /\ <<r.user, Key(r)>> \in torn => <<r.user, Key(r)>> \in torn'
                /\ ~Due(p, r)
  <2>1. r \in rows /\ chat[r.user] # NoChat
    BY <1>1 DEF TypeOK, Row
  <2>2. CASE Due(p, r)
    <3>1. Due(p, r)' \/ <<r.user, Key(r)>> \in torn'
      BY <2>1, <2>2
    <3>2. Due(p, r)' => Covered(r)'
      BY DEF Due, Covered
    <3>3. <<r.user, Key(r)>> \in torn' => Covered(r)'
      BY DEF Covered
    <3> QED
      BY <3>1, <3>2, <3>3
  <2> QED
    BY <2>1, <2>2
<1> QED
  BY <1>1, CoverKept

\* What is due where.
LEMMA DueAt ==
  ASSUME NEW p \in Procs, NEW r
  PROVE  /\ Due(p, r) => r.user \in job[p].user
         /\ Due(p, r) /\ pc[p] \notin {"updacc", "binding", "addboard", "sadd", "all"}
              => Key(r) \in KeysOf(job[p].todo)
         /\ Due(p, r) /\ pc[p] # "all"
              => Key(r) \in KeysOf(job[p].todo) \union KeysOf(job[p].sub)
         /\ r.user \in job[p].user /\ Key(r) \in KeysOf(job[p].todo) => Due(p, r)
         /\ /\ r.user \in job[p].user /\ Key(r) \in KeysOf(job[p].sub)
            /\ pc[p] \in {"updacc", "binding", "addboard", "sadd"}
            => Due(p, r)
         /\ r.user \in job[p].user /\ Key(r) \in Keys /\ pc[p] = "all" => Due(p, r)
  BY DEF Due, Pending

\* A slot at the end of one sync keeps those it has still to do.
LEMMA FinishDue ==
  ASSUME SlotsOK, NEW p \in Procs, Finish(p), NEW r,
         r.user \in job[p].user, Key(r) \in KeysOf(job[p].todo)
  PROVE  Due(p, r)'
<1>1. job[p].todo # {}
  BY DEF KeysOf
<1>2. /\ job'[p] = [job[p] EXCEPT !.chat = NoChat, !.sub = {}, !.list = {}]
      /\ job[p] \in Job
  BY <1>1 DEF Finish, Begin, SlotsOK
<1>3. job'[p].todo = job[p].todo /\ job'[p].user = job[p].user
  BY <1>2 DEF Job
<1> QED
  BY <1>3 DEF Due, Pending, KeysOf

\* The same slot at another label, or after an assignment to chat, list or on.
LEMMA DueKept ==
  ASSUME SlotsOK, NEW p \in Procs, NEW j, NEW l, NEW r, Due(p, r), pc[p] # "all",
         Begin(p, j, l) \/ (Goto(p, l) /\ j = job[p]),
         j.user = job[p].user, j.sub = job[p].sub, j.todo = job[p].todo,
         \/ pc[p] \notin {"updacc", "binding", "addboard", "sadd"}
         \/ l \in {"updacc", "binding", "addboard", "sadd"}
  PROVE  Due(p, r)'
<1>1. job'[p] = j /\ pc'[p] = l
  BY DEF Begin, Goto, SlotsOK
<1> QED
  BY <1>1 DEF Due, Pending, KeysOf

CoverIInv == TypeOK /\ JobInv /\ IdInv /\ GoneInv /\ DeleteInv /\ CoverInv

\* Every step of a slot keeps what is covered: the SADD turns what is due into
\* membership, and the SREM of a list that is not out of date takes no one out.
LEMMA StepCover ==
  ASSUME CoverIInv, NEW p \in Procs, Step(p)
  PROVE  CoverInv'
<1>0. /\ TypeOK /\ JobInv /\ IdInv /\ GoneInv /\ DeleteInv /\ CoverInv /\ SlotsOK
      /\ job[p] \in Job /\ rows \subseteq Row /\ job[p].sub \subseteq Row
      /\ job[p].todo \subseteq Row /\ job[p].user \subseteq Users
  BY TypeParts DEF CoverIInv, SlotsOK, TypeOK, Job
<1>a. /\ \A s, t \in job[p].sub : s = t
      /\ \A u, v \in job[p].user : u = v
      /\ \A s \in job[p].sub \union job[p].todo : s.user \in job[p].user
  BY <1>0 DEF JobInv, Shape
<1>b. \A r : pc[p] \in Single /\ pc[p] \notin {"updacc", "all"} => ~Due(p, r)
  BY <1>0, DueAt DEF JobInv, Single, KeysOf
<1>c. \A r \in rows : chat[r.user] # NoChat => r.user \in Users
  BY <1>0 DEF Row
<1>1. CASE Insert(p)
  <2>1. PICK s \in job[p].sub :
          \/ Stop(p) /\ UNCHANGED rows
          \/ /\ rows' = rows \union {[s EXCEPT !.id = nextId]}
             /\ Begin(p, [job[p] EXCEPT !.sub = {[s EXCEPT !.id = nextId]}], "binding")
    BY <1>1 DEF Insert
  <2>2. /\ \A r : ~Due(p, r)
        /\ UNCHANGED <<chat, members, torn>>
        /\ \A q \in Procs \ {p} : pc'[q] = pc[q] /\ job'[q] = job[q]
    BY <1>1, <1>b, <1>0, <2>1, OtherSlots DEF Insert, Single, redisVars
  <2>3. CASE UNCHANGED rows
    BY <1>0, <2>2, <2>3, CoverSlot
  <2>4. CASE /\ rows' = rows \union {[s EXCEPT !.id = nextId]}
             /\ Begin(p, [job[p] EXCEPT !.sub = {[s EXCEPT !.id = nextId]}], "binding")
    <3>r. PICK r : r = [s EXCEPT !.id = nextId]
      OBVIOUS
    <3>1. r.user = s.user
      BY <1>0, <3>r DEF Row
    <3>2. /\ job'[p].sub = {r} /\ job'[p].user = job[p].user /\ pc'[p] = "binding"
      BY <1>0, <2>4, <3>r DEF Begin, SlotsOK, Job
    <3>3. Due(p, r)'
      BY <1>a, <3>1, <3>2 DEF Due, Pending, KeysOf
    <3>4. Covered(r)'
      BY <3>3 DEF Due, Covered
    <3> QED
      BY <1>0, <2>2, <2>4, <3>r, <3>4, CoverKept
  <2> QED
    BY <2>1, <2>3, <2>4
<1>2. CASE UpdateInDB(p)
  <2>1. PICK s \in job[p].sub :
          \/ Stop(p) /\ UNCHANGED rows
          \/ /\ rows' = {IF r.id = s.id THEN [s EXCEPT !.user = r.user] ELSE r : r \in rows}
             /\ Goto(p, "updacc")
    BY <1>2 DEF UpdateInDB
  <2>2. /\ \A r : ~Due(p, r)
        /\ UNCHANGED <<chat, members, torn>>
        /\ \A q \in Procs \ {p} : pc'[q] = pc[q] /\ job'[q] = job[q]
    BY <1>2, <1>b, <1>0, <2>1, OtherSlots DEF UpdateInDB, Single, redisVars
  <2>3. CASE UNCHANGED rows
    BY <1>0, <2>2, <2>3, CoverSlot
  <2>4. CASE /\ rows' = {IF r.id = s.id THEN [s EXCEPT !.user = r.user] ELSE r : r \in rows}
             /\ Goto(p, "updacc")
    <3>1. ASSUME NEW q \in rows, q.id = s.id PROVE Covered([s EXCEPT !.user = q.user])'
      <4>1. q.user = s.user
        BY <1>0, <3>1 DEF IdInv, SameOwner
      <4>2. [s EXCEPT !.user = q.user] = s
        BY <1>0, <4>1 DEF Row
      <4>3. job'[p] = job[p] /\ pc'[p] = "updacc"
        BY <1>0, <2>4 DEF Goto, SlotsOK
      <4>4. Due(p, s)'
        BY <1>a, <4>3 DEF Due, Pending, KeysOf
      <4> QED
        BY <4>2, <4>4 DEF Due, Covered
    <3>2. ASSUME NEW r \in rows', r \notin rows PROVE Covered(r)'
      BY <2>4, <3>1, <3>2
    <3> QED
      BY <1>0, <2>2, <3>2, CoverKept
  <2> QED
    BY <2>1, <2>3, <2>4
\* The steps that write neither the tables nor the subscriber sets.
<1>q. ASSUME UNCHANGED <<rows, chat, members, torn>>,
             Stop(p) \/ Finish(p) \/ (\E j, l : Begin(p, j, l)) \/ (\E l : Goto(p, l)),
             \A r \in rows : Due(p, r) /\ chat[r.user] # NoChat => Due(p, r)'
      PROVE  CoverInv'
  BY <1>0, <1>q, OtherSlots, CoverSlot
<1>3. CASE ReadAcc(p)
  <2>1. PICK u \in job[p].user :
          \/ acct[u] = "gone" /\ Stop(p)
          \/ Begin(p, [job[p] EXCEPT !.on = (acct[u] = "on")], "binding")
    BY <1>3 DEF ReadAcc
  <2>2. ASSUME NEW r \in rows, Due(p, r) PROVE Due(p, r)'
    <3>1. r.user = u /\ u \in Users
      BY <1>0, <1>a, <2>2 DEF Due
    <3>2. CASE acct[u] = "gone"
      BY <1>0, <3>1, <3>2 DEF GoneInv, RowsOf
    <3>3. CASE Begin(p, [job[p] EXCEPT !.on = (acct[u] = "on")], "binding")
      BY <1>0, <1>3, <2>2, <3>3, DueKept DEF ReadAcc, Job
    <3> QED
      BY <2>1, <3>2, <3>3
  <2> QED
    BY <1>3, <1>q, <2>1, <2>2 DEF ReadAcc, dbVars, redisVars
<1>4. CASE DeleteInDB(p)
  <2>1. /\ \A r : ~Due(p, r)
        /\ UNCHANGED <<chat, members, torn>> /\ rows' \subseteq rows
        /\ \A q \in Procs \ {p} : pc'[q] = pc[q] /\ job'[q] = job[q]
    BY <1>4, <1>b, <1>0, OtherSlots DEF DeleteInDB, Single, redisVars
  <2> QED
    BY <1>0, <2>1, CoverKept
<1>5. CASE ListOthers(p)
  BY <1>5, <1>b, <1>q DEF ListOthers, Single, dbVars, redisVars
<1>6. CASE Srem(p)
  <2>1. PICK s \in job[p].sub :
          /\ members' = [members EXCEPT ![Key(s)] = @ \ {s.user}]
          /\ torn \subseteq torn'
          /\ (\E r \in RowsOf(s.user) \ job[p].list : Key(r) = Key(s))
               => <<s.user, Key(s)>> \in torn'
    BY <1>6 DEF Srem
  <2>2. /\ \A r : ~Due(p, r)
        /\ UNCHANGED <<chat, rows>>
        /\ \A q \in Procs \ {p} : pc'[q] = pc[q] /\ job'[q] = job[q]
    BY <1>6, <1>b, <1>0, OtherSlots DEF Srem, Single, dbVars
  <2>3. ASSUME NEW r \in rows, r.user \in members[Key(r)], r.user \notin members'[Key(r)]
        PROVE  Covered(r)'
    <3>1. Key(r) \in Keys /\ Key(s) \in Keys
      BY <1>0 DEF Row, Key, Keys
    <3>2. Key(r) = Key(s) /\ r.user = s.user
      BY <1>0, <2>1, <2>3, <3>1 DEF TypeOK
    <3>3. r.id # s.id /\ r \notin job[p].list
      BY <1>0, <1>6, <3>2 DEF DeleteInv, NoOther, Srem
    <3>4. <<r.user, Key(r)>> \in torn'
      BY <2>1, <3>2, <3>3 DEF RowsOf
    <3> QED
      BY <3>4 DEF Covered
  <2> QED
    BY <1>0, <2>1, <2>2, <2>3, CoverKept
<1>7. CASE CheckBinding(p)
  <2>1. PICK u \in job[p].user :
          \/ chat[u] = NoChat /\ Finish(p)
          \/ Goto(p, "addboard")
    BY <1>7 DEF CheckBinding
  <2>2. ASSUME NEW r \in rows, Due(p, r), chat[r.user] # NoChat PROVE Due(p, r)'
    <3>1. r.user = u
      BY <1>a, <2>2 DEF Due
    <3>2. CASE Goto(p, "addboard")
      BY <1>0, <1>7, <2>2, <3>2, DueKept DEF CheckBinding
    <3> QED
      BY <2>1, <2>2, <3>1, <3>2
  <2> QED
    BY <1>7, <1>q, <2>1, <2>2 DEF CheckBinding, dbVars, redisVars
<1>8. CASE AddBoard(p)
  <2>1. \A r \in rows : Due(p, r) => Due(p, r)'
    BY <1>0, <1>8, DueKept DEF AddBoard
  <2> QED
    BY <1>8, <1>q, <2>1 DEF AddBoard, dbVars
<1>9. CASE Sadd(p)
  <2>1. PICK s \in job[p].sub :
          /\ members' = [members EXCEPT ![Key(s)] = @ \union {s.user}]
          /\ torn' = torn \ {<<s.user, Key(s)>>}
    BY <1>9 DEF Sadd
  <2>2. /\ UNCHANGED <<chat, rows>>
        /\ \A q \in Procs \ {p} : pc'[q] = pc[q] /\ job'[q] = job[q]
        /\ pc[p] = "sadd" /\ Goto(p, "chat")
    BY <1>9, <1>0, OtherSlots DEF Sadd, dbVars
  <2>3. Key(s) \in Keys /\ s.user \in members'[Key(s)]
    BY <1>0, <2>1 DEF Row, Key, Keys, TypeOK
  <2>4. ASSUME NEW r \in rows, Key(r) = Key(s), r.user = s.user PROVE Covered(r)'
    BY <2>3, <2>4 DEF Covered, Key
  <2>5. ASSUME NEW r \in rows, Due(p, r), Key(r) # Key(s) \/ r.user # s.user
        PROVE  Covered(r)'
    <3>1. r.user = s.user
      BY <1>a, <2>5 DEF Due
    <3>2. Key(r) \in KeysOf(job[p].todo)
      BY <1>a, <2>2, <2>5, <3>1, DueAt DEF KeysOf
    <3>3. Due(p, r)'
      BY <1>0, <2>2, <2>5, <3>2 DEF Due, Pending, Goto, KeysOf
    <3> QED
      BY <3>3 DEF Due, Covered
  <2>6. ASSUME NEW r \in rows, r.user \in members[Key(r)] PROVE r.user \in members'[Key(r)]
    BY <1>0, <2>1, <2>6 DEF TypeOK, Row, Key, Keys
  <2>7. ASSUME NEW r \in rows, Key(r) # Key(s) \/ r.user # s.user,
               <<r.user, Key(r)>> \in torn
        PROVE  <<r.user, Key(r)>> \in torn'
    BY <2>1, <2>7
  <2> QED
    BY <1>0, <2>2, <2>4, <2>5, <2>6, <2>7, CoverKept
\* A slot that has done its SADD owes what it has still to do.
<1>t. ASSUME Finish(p), pc[p] \in {"chat", "list", "set"}, NEW r \in rows, Due(p, r)
      PROVE  Due(p, r)'
  BY <1>0, <1>t, DueAt, FinishDue
<1>10. CASE ReadChat(p)
  <2>1. PICK u \in job[p].user :
          Finish(p) \/ Begin(p, [job[p] EXCEPT !.chat = chat[u]], "list")
    BY <1>10 DEF ReadChat
  <2>2. ASSUME NEW r \in rows, Due(p, r) PROVE Due(p, r)'
    <3>1. CASE Begin(p, [job[p] EXCEPT !.chat = chat[u]], "list")
      BY <1>0, <1>10, <2>2, <3>1, DueKept DEF ReadChat, Job
    <3> QED
      BY <1>10, <1>t, <2>1, <2>2, <3>1 DEF ReadChat
  <2> QED
    BY <1>10, <1>q, <2>1, <2>2 DEF ReadChat, dbVars, redisVars
<1>11. CASE ReadList(p)
  <2>1. PICK u \in job[p].user : Begin(p, [job[p] EXCEPT !.list = RowsOf(u)], "set")
    BY <1>11 DEF ReadList
  <2>2. ASSUME NEW r \in rows, Due(p, r) PROVE Due(p, r)'
    BY <1>0, <1>11, <2>1, <2>2, DueKept DEF ReadList, Job
  <2> QED
    BY <1>11, <1>q, <2>1, <2>2 DEF ReadList, dbVars, redisVars
<1>12. CASE SetUser(p)
  BY <1>12, <1>q, <1>t DEF SetUser, dbVars
<1>13. CASE Confirm(p)
  <2>1. PICK u \in job[p].user :
          \/ UNCHANGED chat
          \/ /\ chat' = [chat EXCEPT ![u] = job[p].chat]
             /\ Begin(p, [job[p] EXCEPT !.chat = NoChat], "all")
    BY <1>13 DEF Confirm
  <2>2. /\ \A r : ~Due(p, r)
        /\ UNCHANGED <<rows, members, torn>>
        /\ \A q \in Procs \ {p} : pc'[q] = pc[q] /\ job'[q] = job[q]
    BY <1>13, <1>b, <1>0, OtherSlots DEF Confirm, Single, redisVars
  <2>3. CASE UNCHANGED chat
    BY <1>0, <2>2, <2>3, CoverKept
  <2>4. CASE /\ chat' = [chat EXCEPT ![u] = job[p].chat]
             /\ Begin(p, [job[p] EXCEPT !.chat = NoChat], "all")
    <3>1. ASSUME NEW r \in rows, r.user = u PROVE Covered(r)'
      <4>1. job'[p].user = job[p].user /\ pc'[p] = "all"
        BY <1>0, <2>4 DEF Begin, SlotsOK, Job
      <4>2. Key(r) \in Keys
        BY <1>0 DEF Row, Key, Keys
      <4>3. Due(p, r)'
        BY <3>1, <4>1, <4>2 DEF Due, Pending
      <4> QED
        BY <4>3 DEF Due, Covered
    <3>2. \A r \in rows : r.user # u => chat'[r.user] = chat[r.user]
      BY <1>0, <1>c, <2>4 DEF TypeOK, Row
    <3> QED
      BY <1>0, <2>2, <3>1, <3>2, CoverKept
  <2> QED
    BY <2>1, <2>3, <2>4
<1>14. CASE ListAll(p)
  <2>1. PICK u \in job[p].user :
          \/ (acct[u] = "gone" \/ RowsOf(u) = {}) /\ Stop(p)
          \/ Begin(p, [job[p] EXCEPT !.on = (acct[u] = "on"), !.todo = RowsOf(u)], "next")
    BY <1>14 DEF ListAll
  <2>2. ASSUME NEW r \in rows, Due(p, r) PROVE Due(p, r)'
    <3>1. r.user = u /\ r \in RowsOf(u) /\ u \in Users
      BY <1>0, <1>a, <2>2 DEF Due, RowsOf
    <3>2. job'[p] = [job[p] EXCEPT !.on = (acct[u] = "on"), !.todo = RowsOf(u)]
      BY <1>0, <2>1, <3>1 DEF GoneInv, Begin, SlotsOK
    <3>3. job'[p].todo = RowsOf(u) /\ job'[p].user = job[p].user
      BY <1>0, <3>2 DEF Job
    <3> QED
      BY <2>2, <3>1, <3>3 DEF Due, Pending, KeysOf
  <2> QED
    BY <1>14, <1>q, <2>1, <2>2 DEF ListAll, dbVars, redisVars
<1>15. CASE SyncNext(p)
  <2>1. PICK s \in job[p].todo :
          Begin(p, [job[p] EXCEPT !.sub = {s}, !.todo = job[p].todo \ {s}], "binding")
    BY <1>15 DEF SyncNext
  <2>2. /\ job'[p].sub = {s} /\ job'[p].todo = job[p].todo \ {s}
        /\ job'[p].user = job[p].user /\ pc'[p] = "binding"
    BY <1>0, <2>1 DEF Begin, SlotsOK, Job
  <2>3. ASSUME NEW r \in rows, Due(p, r) PROVE Due(p, r)'
    <3>1. Key(r) \in KeysOf(job[p].todo) /\ r.user \in job[p].user
      BY <1>15, <2>3, DueAt DEF SyncNext
    <3>2. Key(r) \in KeysOf(job'[p].todo) \union KeysOf(job'[p].sub)
      BY <2>2, <3>1 DEF KeysOf
    <3> QED
      BY <2>2, <3>1, <3>2 DEF Due, Pending, KeysOf
  <2> QED
    BY <1>15, <1>q, <2>1, <2>3 DEF SyncNext, dbVars, redisVars
<1>16. CASE DelUser(p)
  BY <1>16, <1>b, <1>q DEF DelUser, Single, dbVars
<1> QED
  BY <1>1, <1>2, <1>3, <1>4, <1>5, <1>6, <1>7, <1>8, <1>9, <1>10,
     <1>11, <1>12, <1>13, <1>14, <1>15, <1>16 DEF Step

\* A request that starts owes nothing yet; one that deletes an account leaves
\* no row that anything is owed to.
LEMMA RequestCover ==
  ASSUME CoverIInv, NEW p \in Procs, Request(p)
  PROVE  CoverInv'
<1>0. TypeOK /\ CoverInv /\ SlotsOK
  BY TypeParts DEF CoverIInv
<1>1. /\ pc[p] = "idle" /\ \E j, l : Begin(p, j, l)
      /\ rows' \subseteq rows /\ UNCHANGED <<members, torn>>
      /\ \A r \in rows' : chat'[r.user] # NoChat => chat[r.user] # NoChat
  <2>0. \A r \in rows : r.user \in Users
    BY <1>0 DEF TypeOK, Row
  <2>1. ASSUME NEW u \in Users, AdminDelete(p, u)
        PROVE  \A r \in rows' : chat'[r.user] # NoChat => chat[r.user] # NoChat
    BY <1>0, <2>0, <2>1 DEF AdminDelete, TypeOK
  <2>2. CASE \E u \in Users : AdminDelete(p, u)
    BY <2>1, <2>2 DEF AdminDelete, Free, redisVars
  <2>3. CASE ~\E u \in Users : AdminDelete(p, u)
    BY <2>3
    DEF Request, StartCreate, StartUpdate, StartDelete, StartBind, Free, dbVars, redisVars
  <2> QED
    BY <2>2, <2>3
<1>2. \A r : ~Due(p, r)
  BY <1>1, DueAt DEF CoverIInv, JobInv, Single, KeysOf
<1>3. \A q \in Procs \ {p} : pc'[q] = pc[q] /\ job'[q] = job[q]
  BY <1>0, <1>1, OtherSlots
<1> QED
  BY <1>0, <1>1, <1>2, <1>3, CoverKept

\* A failure records what it leaves undone.
LEMMA FailureCover ==
  ASSUME CoverIInv, Failure
  PROVE  CoverInv'
<1>0. TypeOK /\ CoverInv /\ JobInv /\ SlotsOK
  BY TypeParts DEF CoverIInv
<1>1. ASSUME NEW p \in Procs, Abort(p) PROVE CoverInv'
  <2>1. ASSUME NEW r \in rows, Due(p, r) PROVE Due(p, r)' \/ <<r.user, Key(r)>> \in torn'
    <3>1. CASE Key(r) \in KeysOf(job[p].todo)
      BY <1>0, <1>1, <2>1, <3>1, FinishDue DEF Abort, Due
    <3>2. CASE Key(r) \notin KeysOf(job[p].todo)
      BY <1>1, <2>1, <3>2 DEF Abort, Due
    <3> QED
      BY <3>1, <3>2
  <2>2. /\ UNCHANGED <<rows, members, chat>> /\ torn \subseteq torn'
        /\ \A q \in Procs \ {p} : pc'[q] = pc[q] /\ job'[q] = job[q]
    BY <1>0, <1>1, OtherSlots DEF Abort, dbVars, redisVars
  <2> QED
    BY <1>0, <2>1, <2>2, CoverSlot
<1>2. ASSUME Restart PROVE CoverInv'
  <2>1. /\ UNCHANGED <<rows, members, chat>> /\ torn \subseteq torn'
        /\ \A p \in Procs, r \in rows : Due(p, r) => <<r.user, Key(r)>> \in torn'
    BY <1>2 DEF Restart, Due, dbVars, redisVars
  <2> QED
    BY <1>0, <2>1 DEF CoverInv, Covered, Due
<1> QED
  BY <1>1, <1>2 DEF Failure

\* At every moment each subscription of a bound user has him in its subscriber
\* set, or in the hands of a sync that is going to put him there, unless an
\* SREM that was out of date took him out or a failure kept him out: these two
\* are the only ways in which the goroutines of SyncSubscriptionCreate, -Delete
\* and SyncAllSubscriptions, interleaved at will, lose a subscriber.
THEOREM NoOtherLoss == Spec => []CoverInv
<1>1. Init => CoverInv
  BY DEF Init, CoverInv
<1>2. CoverIInv /\ [Next]_vars => CoverInv'
  <2> SUFFICES ASSUME CoverIInv, [Next]_vars PROVE CoverInv'
    OBVIOUS
  <2>1. ASSUME NEW p \in Procs, Step(p) \/ Request(p) PROVE CoverInv'
    BY <2>1, StepCover, RequestCover
  <2>2. ASSUME UNCHANGED <<rows, members, torn, pc, job>>,
               \A r \in rows : chat'[r.user] # NoChat => chat[r.user] # NoChat
        PROVE  CoverInv'
    BY <2>2 DEF CoverIInv, CoverInv, Covered, Pending
  <2>3. CASE Settings
    <3>1. \A r \in rows : chat'[r.user] # NoChat => chat[r.user] # NoChat
      BY <2>3 DEF Settings, Unbind, AdminUpdate, CoverIInv, TypeOK, Row
    <3> QED
      BY <2>2, <2>3, <3>1 DEF Settings, Unbind, AdminUpdate, redisVars
  <2>4. CASE Failure
    BY <2>4, FailureCover
  <2>5. CASE UNCHANGED vars
    BY <2>2, <2>5 DEF vars, dbVars, redisVars
  <2> QED
    BY <2>1, <2>3, <2>4, <2>5 DEF Next, Empty
<1> QED
  BY <1>1, <1>2, TypeCorrect, ShapeHolds, IdsHold, GoneHolds, DeleteHolds, PTL DEF Spec, CoverIInv

-----------------------------------------------------------------------------
(***************************************************************************)
(* What a step of one slot leaves alone: the other slots, the accounts,    *)
(* and everything of the users it is not working for.                      *)
(***************************************************************************)
\* The slot ends, or goes on for the same user.
GoesOn(p) ==
  \/ Stop(p)
  \/ pc[p] \notin {"idle", "del"} /\ pc'[p] # "del" /\ job'[p].user = job[p].user

LEMMA StepGoesOn ==
  ASSUME TypeOK, JobInv, NEW p \in Procs, Step(p) \/ Abort(p)
  PROVE  GoesOn(p) /\ UNCHANGED acct
         /\ \A q \in Procs \ {p} : pc'[q] = pc[q] /\ job'[q] = job[q]
<1>0. SlotsOK /\ job[p] \in Job
  BY TypeParts DEF SlotsOK
<1>b. ASSUME NEW j, NEW l, Begin(p, j, l), j.user = job[p].user, l # "del",
             pc[p] \notin {"idle", "del"}
      PROVE  GoesOn(p)
  BY <1>0, <1>b DEF GoesOn, Begin, SlotsOK
<1>g. ASSUME NEW l, Goto(p, l), l # "del", pc[p] \notin {"idle", "del"} PROVE GoesOn(p)
  BY <1>0, <1>g DEF GoesOn, Goto, SlotsOK
<1>f. ASSUME Finish(p), pc[p] # "idle" PROVE GoesOn(p)
  <2>1. pc[p] = "del" => job[p].todo = {}
    BY DEF JobInv, Single
  <2> QED
    BY <1>0, <1>b, <1>f, <2>1 DEF Finish, Job, GoesOn
<1>s. Stop(p) => GoesOn(p)
  BY DEF GoesOn
<1>j. /\ \A S : [job[p] EXCEPT !.sub = S].user = job[p].user
      /\ \A S : [job[p] EXCEPT !.list = S].user = job[p].user
      /\ \A S : [job[p] EXCEPT !.chat = S].user = job[p].user
      /\ \A S : [job[p] EXCEPT !.on = S].user = job[p].user
      /\ \A S, T : [job[p] EXCEPT !.on = S, !.todo = T].user = job[p].user
      /\ \A S, T : [job[p] EXCEPT !.sub = S, !.todo = T].user = job[p].user
  BY <1>0 DEF Job
<1>1. ASSUME Insert(p) PROVE GoesOn(p)
  BY <1>1, <1>b, <1>j, <1>s DEF Insert
<1>2. ASSUME UpdateInDB(p) \/ CheckBinding(p) \/ AddBoard(p) \/ Sadd(p) PROVE GoesOn(p)
  BY <1>2, <1>g, <1>s, <1>f DEF UpdateInDB, CheckBinding, AddBoard, Sadd
<1>3. ASSUME ReadAcc(p) \/ ReadChat(p) \/ ReadList(p) \/ ListAll(p) PROVE GoesOn(p)
  <2>1. ASSUME ReadAcc(p) PROVE GoesOn(p)
    <3>1. \A u : [job[p] EXCEPT !.on = (acct[u] = "on")].user = job[p].user
      BY <1>0 DEF Job
    <3> QED
      BY <2>1, <3>1, <1>b, <1>s DEF ReadAcc
  <2>2. ASSUME ReadChat(p) PROVE GoesOn(p)
    BY <2>2, <1>b, <1>j, <1>f DEF ReadChat
  <2>3. ASSUME ReadList(p) PROVE GoesOn(p)
    BY <2>3, <1>b, <1>j DEF ReadList
  <2>4. ASSUME ListAll(p) PROVE GoesOn(p)
    <3>1. \A u : [job[p] EXCEPT !.on = (acct[u] = "on"), !.todo = RowsOf(u)].user = job[p].user
      BY <1>0 DEF Job
    <3> QED
      BY <2>4, <3>1, <1>b, <1>s DEF ListAll
  <2> QED
    BY <1>3, <2>1, <2>2, <2>3, <2>4
<1>4. ASSUME DeleteInDB(p) PROVE GoesOn(p)
  BY <1>4, <1>g, <1>s DEF DeleteInDB
<1>5. ASSUME ListOthers(p) \/ Srem(p) PROVE GoesOn(p)
  BY <1>5, <1>b, <1>g, <1>j DEF ListOthers, Srem
<1>6. ASSUME SetUser(p) \/ DelUser(p) PROVE GoesOn(p)
  BY <1>6, <1>f, <1>s DEF SetUser, DelUser
<1>7. ASSUME Confirm(p) PROVE GoesOn(p)
  BY <1>7, <1>b, <1>j, <1>s DEF Confirm
<1>8. ASSUME SyncNext(p) PROVE GoesOn(p)
  BY <1>8, <1>b, <1>j DEF SyncNext
<1>9. ASSUME Abort(p) PROVE GoesOn(p)
  BY <1>9, <1>f DEF Abort
<1>10. GoesOn(p)
  BY <1>1, <1>2, <1>3, <1>4, <1>5, <1>6, <1>7, <1>8, <1>9 DEF Step
<1>11. UNCHANGED acct
  BY DEF Step, Insert, UpdateInDB, ReadAcc, DeleteInDB, ListOthers, Srem, CheckBinding, AddBoard,
         Sadd, ReadChat, ReadList, SetUser, Confirm, ListAll, SyncNext, DelUser, Abort, dbVars
<1>12. Stop(p) \/ Finish(p) \/ (\E j, l : Begin(p, j, l)) \/ (\E l : Goto(p, l))
  BY DEF Step, Insert, UpdateInDB, ReadAcc, DeleteInDB, ListOthers, Srem, CheckBinding, AddBoard,
         Sadd, ReadChat, ReadList, SetUser, Confirm, ListAll, SyncNext, DelUser, Abort
<1> QED
  BY <1>0, <1>10, <1>11, <1>12, OtherSlots

\* What a request does: the slot takes the user on, and only the deletion of the account
\* changes a table.
Asks(p, u) ==
  /\ pc[p] = "idle" /\ acct[u] # "gone" /\ job'[p].user = {u}
  /\ \A q \in Procs \ {p} : pc'[q] = pc[q] /\ job'[q] = job[q]
  /\ UNCHANGED <<udata, torn, behind>>
  /\ \A w \in Users \ {u} : RowsOf(w)' = RowsOf(w) /\ chat'[w] = chat[w] /\ acct'[w] = acct[w]
  /\ \/ /\ pc'[p] \in {"insert", "update", "delete", "confirm"}
        /\ Free(p, u) /\ UNCHANGED <<dbVars, stale>>
     \/ AdminDelete(p, u) /\ pc'[p] = "del" /\ acct'[u] = "gone" /\ chat'[u] = NoChat

LEMMA RequestAsks ==
  ASSUME TypeOK, GoneInv, NEW p \in Procs, Request(p)
  PROVE  \E u \in Users : Asks(p, u)
<1>0. SlotsOK /\ rows \subseteq Row
  BY TypeParts DEF TypeOK
<1>q. ASSUME NEW u \in Users, NEW j, NEW l \in {"insert", "update", "delete", "confirm"},
             Begin(p, j, l), j.user = {u}, Free(p, u), acct[u] # "gone",
             UNCHANGED <<dbVars, redisVars, torn, lateVars>>
      PROVE  Asks(p, u)
  <2>1. pc'[p] = l /\ job'[p].user = {u}
    BY <1>0, <1>q DEF Begin, SlotsOK
  <2>2. \A q \in Procs \ {p} : pc'[q] = pc[q] /\ job'[q] = job[q]
    BY <1>0, <1>q, OtherSlots
  <2>3. \A w \in Users \ {u} : RowsOf(w)' = RowsOf(w) /\ chat'[w] = chat[w] /\ acct'[w] = acct[w]
    BY <1>q DEF dbVars, RowsOf
  <2> QED
    BY <1>q, <2>1, <2>2, <2>3 DEF Asks, redisVars, lateVars, Free
<1>r. \A r \in rows : r.user \in Users /\ acct[r.user] # "gone"
  <2>1. \A r \in rows : r.user \in Users /\ r \in RowsOf(r.user)
    BY <1>0 DEF Row, RowsOf
  <2> QED
    BY <2>1 DEF GoneInv
<1>1. ASSUME NEW u \in Users, NEW b \in Boards, NEW t \in SubTypes, NEW v \in Values,
             StartCreate(p, u, b, t, v)
      PROVE  Asks(p, u)
  BY <1>1, <1>q DEF StartCreate, NoJob
<1>2. ASSUME NEW r \in rows, NEW b \in Boards, NEW t \in SubTypes, NEW v \in Values,
             NEW on \in BOOLEAN, StartUpdate(p, r, b, t, v, on)
      PROVE  Asks(p, r.user)
  BY <1>2, <1>r, <1>q DEF StartUpdate, NoJob
<1>3. ASSUME NEW r \in rows, StartDelete(p, r) PROVE Asks(p, r.user)
  BY <1>3, <1>r, <1>q DEF StartDelete, NoJob
<1>4. ASSUME NEW u \in Users, NEW c \in Chats, StartBind(p, u, c) PROVE Asks(p, u)
  BY <1>4, <1>q DEF StartBind, NoJob
<1>5. ASSUME NEW u \in Users, AdminDelete(p, u) PROVE Asks(p, u)
  <2>1. pc'[p] = "del" /\ job'[p].user = {u}
    BY <1>0, <1>5 DEF AdminDelete, Begin, SlotsOK, NoJob
  <2>2. \A q \in Procs \ {p} : pc'[q] = pc[q] /\ job'[q] = job[q]
    BY <1>0, <1>5, OtherSlots DEF AdminDelete
  <2>3. acct'[u] = "gone" /\ chat'[u] = NoChat
    BY <1>5 DEF AdminDelete, TypeOK
  <2>4. \A w \in Users \ {u} : chat'[w] = chat[w] /\ acct'[w] = acct[w]
    BY <1>5 DEF AdminDelete, TypeOK
  <2>5. \A w \in Users \ {u} : RowsOf(w)' = RowsOf(w)
    BY <1>5 DEF AdminDelete, RowsOf
  <2> QED
    BY <1>5, <2>1, <2>2, <2>3, <2>4, <2>5 DEF Asks, AdminDelete, redisVars
<1> QED
  BY <1>1, <1>2, <1>3, <1>4, <1>5, <1>r DEF Request

\* A request that the goroutine does not follow: no slot, and no subscription.
LEMMA SettingsKeep ==
  ASSUME TypeOK, Settings
  PROVE  /\ UNCHANGED <<rows, udata, torn, behind, stale, pc, job>>
         /\ \A u \in Users : /\ acct'[u] = "gone" <=> acct[u] = "gone"
                             /\ chat'[u] \in {chat[u], NoChat}
<1>1. ASSUME NEW u \in Users, Unbind(u)
      PROVE  /\ UNCHANGED <<acct, rows, udata, torn, behind, stale, pc, job>>
             /\ \A w \in Users : chat'[w] \in {chat[w], NoChat}
  BY <1>1 DEF Unbind, TypeOK, redisVars, lateVars
<1>2. ASSUME NEW u \in Users, NEW on \in BOOLEAN, AdminUpdate(u, on)
      PROVE  /\ UNCHANGED <<chat, rows, udata, torn, behind, stale, pc, job>>
             /\ \A w \in Users : acct'[w] = "gone" <=> acct[w] = "gone"
  BY <1>2 DEF AdminUpdate, TypeOK, redisVars, lateVars
<1> QED
  BY <1>1, <1>2 DEF Settings

-----------------------------------------------------------------------------
\* A step of a slot works for its user alone.
LEMMA OthersKept ==
  ASSUME TypeOK, JobInv, IdInv, NEW p \in Procs, Step(p), NEW w \in Users, w \notin job[p].user
  PROVE  RowsOf(w)' = RowsOf(w) /\ chat'[w] = chat[w] /\ udata'[w] = udata[w]
<1>0. /\ job[p] \in Job /\ rows \subseteq Row
      /\ \A s \in job[p].sub : s.user \in job[p].user /\ s.user # w /\ SameOwner(s)
      /\ \A s \in job[p].sub : s \in Row
  BY DEF TypeOK, JobInv, Shape, IdInv, Job
<1>1. RowsOf(w)' = RowsOf(w)
  <2>1. CASE Insert(p)
    <3>1. PICK s \in job[p].sub : rows' = rows \/ rows' = rows \union {[s EXCEPT !.id = nextId]}
      BY <2>1 DEF Insert
    <3>2. [s EXCEPT !.id = nextId].user # w
      BY <1>0 DEF Row
    <3> QED
      BY <3>1, <3>2 DEF RowsOf
  <2>2. CASE UpdateInDB(p)
    <3>1. PICK s \in job[p].sub :
            \/ rows' = rows
            \/ rows' = {IF r.id = s.id THEN [s EXCEPT !.user = r.user] ELSE r : r \in rows}
      BY <2>2 DEF UpdateInDB
    <3>2. \A r \in rows : r.id = s.id => r.user # w /\ [s EXCEPT !.user = r.user].user # w
      BY <1>0 DEF SameOwner, Row
    <3> QED
      BY <3>1, <3>2 DEF RowsOf
  <2>3. CASE DeleteInDB(p)
    <3>1. PICK s \in job[p].sub : rows' = {r \in rows : r.id # s.id}
      BY <2>3 DEF DeleteInDB
    <3>2. \A r \in rows : r.id = s.id => r.user # w
      BY <1>0 DEF SameOwner
    <3> QED
      BY <3>1, <3>2 DEF RowsOf
  <2>4. CASE ~(Insert(p) \/ UpdateInDB(p) \/ DeleteInDB(p))
    <3>1. UNCHANGED rows
      BY <2>4 DEF Step, ReadAcc, ListOthers, Srem, CheckBinding, AddBoard, Sadd, ReadChat, ReadList,
                  SetUser, Confirm, ListAll, SyncNext, DelUser, dbVars
    <3> QED
      BY <3>1 DEF RowsOf
  <2> QED
    BY <2>1, <2>2, <2>3, <2>4
<1>2. chat'[w] = chat[w]
  <2>1. CASE Confirm(p)
    BY <2>1 DEF Confirm, TypeOK
  <2>2. CASE ~Confirm(p)
    BY <2>2 DEF Step, Insert, UpdateInDB, ReadAcc, DeleteInDB, ListOthers, Srem, CheckBinding,
                AddBoard, Sadd, ReadChat, ReadList, SetUser, ListAll, SyncNext, DelUser, dbVars
  <2> QED
    BY <2>1, <2>2
<1>3. udata'[w] = udata[w]
  <2>1. CASE SetUser(p) \/ DelUser(p)
    BY <2>1 DEF SetUser, DelUser, TypeOK
  <2>2. CASE ~(SetUser(p) \/ DelUser(p))
    BY <2>2 DEF Step, Insert, UpdateInDB, ReadAcc, DeleteInDB, ListOthers, Srem, CheckBinding,
                AddBoard, Sadd, ReadChat, ReadList, Confirm, ListAll, SyncNext, redisVars
  <2> QED
    BY <2>1, <2>2
<1> QED
  BY <1>1, <1>2, <1>3

-----------------------------------------------------------------------------
(***************************************************************************)
(* Deleted accounts: the syncs that are late, and what they leave.         *)
(***************************************************************************)
\* A deleted account has no binding, only syncs known to be late are about to write its
\* data, and only accounts that are deleted have theirs deleted.
LateOK(u) ==
  acct[u] = "gone" =>
    chat[u] = NoChat /\ \A p \in Procs : u \in job[p].user /\ pc[p] \in {"list", "set"} => u \in stale
DelsGone == \A p \in Procs : pc[p] = "del" => \A u \in job[p].user : acct[u] = "gone"
DeletedInv == DelsGone /\ DeletedForGood /\ \A u \in Users : LateOK(u)

\* A step of a slot, or its failure, brings nothing back.
LEMMA StepDeleted ==
  ASSUME TypeOK, JobInv, DeletedInv, NEW p \in Procs, Step(p) \/ Abort(p)
  PROVE  DeletedInv'
<1>1. GoesOn(p) /\ UNCHANGED acct /\ \A q \in Procs \ {p} : pc'[q] = pc[q] /\ job'[q] = job[q]
  BY StepGoesOn
<1>2. /\ job'[p].user \subseteq job[p].user /\ pc'[p] # "del"
      /\ pc \in [Procs -> PC] /\ job \in [Procs -> Job] /\ stale \subseteq stale'
  <2>1. job'[p].user \subseteq job[p].user /\ pc'[p] # "del"
    BY <1>1 DEF GoesOn, Stop, Begin, NoJob, TypeOK
  <2>2. stale \subseteq stale'
    BY DEF Step, Insert, UpdateInDB, ReadAcc, DeleteInDB, ListOthers, Srem, CheckBinding, AddBoard, Sadd,
           ReadChat, ReadList, SetUser, Confirm, ListAll, SyncNext, DelUser, Abort, lateVars
  <2> QED
    BY <2>1, <2>2 DEF TypeOK
<1>3. DelsGone'
  BY <1>1, <1>2 DEF DeletedInv, DelsGone
<1>4. ASSUME NEW u \in Users, acct[u] = "gone" PROVE chat'[u] = NoChat
  <2>1. chat[u] = NoChat
    BY <1>4 DEF DeletedInv, LateOK
  <2>2. CASE Confirm(p)
    BY <1>4, <2>1, <2>2 DEF Confirm, TypeOK
  <2>3. CASE ~Confirm(p)
    BY <2>1, <2>3 DEF Step, Insert, UpdateInDB, ReadAcc, DeleteInDB, ListOthers, Srem, CheckBinding,
                AddBoard, Sadd, ReadChat, ReadList, SetUser, ListAll, SyncNext, DelUser, Abort, dbVars
  <2> QED
    BY <2>2, <2>3
\* It takes a binding to come to the list, and the list to come to the SET.
<1>5. ASSUME NEW u \in job'[p].user, acct[u] = "gone", pc'[p] \in {"list", "set"} PROVE u \in stale'
  <2>1. u \in Users /\ u \in job[p].user /\ chat[u] = NoChat /\ job[p] \in Job
    BY <1>2, <1>5 DEF DeletedInv, LateOK, TypeOK, Job
  <2>2. \A v \in job[p].user : v = u
    BY <2>1 DEF JobInv, Shape
  <2>3. ASSUME Stop(p) \/ Finish(p) PROVE FALSE
    BY <1>2, <1>5, <2>3 DEF Stop, Finish, Begin
  <2>4. ASSUME NEW l, Goto(p, l), l \notin {"list", "set"} PROVE FALSE
    BY <1>2, <1>5, <2>4 DEF Goto
  <2>5. ASSUME NEW x, NEW l, Begin(p, x, l), l \notin {"list", "set"} PROVE FALSE
    BY <1>2, <1>5, <2>5 DEF Begin
  <2>6. Stop(p) \/ Finish(p) \/ ReadChat(p) \/ ReadList(p)
        \/ \E x, l : l \notin {"list", "set"} /\ (Begin(p, x, l) \/ Goto(p, l))
    <3>1. ASSUME Insert(p) \/ UpdateInDB(p) \/ ReadAcc(p) \/ DeleteInDB(p) \/ ListOthers(p) \/ Srem(p)
          PROVE  Stop(p) \/ \E x, l : l \notin {"list", "set"} /\ (Begin(p, x, l) \/ Goto(p, l))
      BY <3>1 DEF Insert, UpdateInDB, ReadAcc, DeleteInDB, ListOthers, Srem
    <3>2. ASSUME CheckBinding(p) \/ AddBoard(p) \/ Sadd(p) \/ SetUser(p)
          PROVE  Finish(p) \/ \E x, l : l \notin {"list", "set"} /\ (Begin(p, x, l) \/ Goto(p, l))
      BY <3>2 DEF CheckBinding, AddBoard, Sadd, SetUser
    <3>3. ASSUME Confirm(p) \/ ListAll(p) \/ SyncNext(p) \/ DelUser(p) \/ Abort(p)
          PROVE  Stop(p) \/ Finish(p) \/ \E x, l : l \notin {"list", "set"} /\ (Begin(p, x, l) \/ Goto(p, l))
      BY <3>3 DEF Confirm, ListAll, SyncNext, DelUser, Abort
    <3> QED
      BY <3>1, <3>2, <3>3 DEF Step
  <2>9. ~ReadChat(p)
    BY <2>1, <2>2, <2>3 DEF ReadChat
  <2>10. ReadList(p)
    BY <2>3, <2>4, <2>5, <2>6, <2>9
  <2>11. u \in stale
    BY <1>5, <2>1, <2>10 DEF ReadList, DeletedInv, LateOK
  <2> QED
    BY <1>2, <2>11
<1>6. ASSUME NEW u \in Users PROVE LateOK(u)'
  <2>1. ASSUME NEW q \in Procs, u \in job'[q].user, pc'[q] \in {"list", "set"}, acct[u] = "gone"
        PROVE  u \in stale'
    <3>1. CASE q = p
      BY <1>5, <2>1, <3>1
    <3>2. CASE q # p
      BY <1>1, <1>2, <2>1, <3>2 DEF DeletedInv, LateOK
    <3> QED
      BY <3>1, <3>2
  <2> QED
    BY <1>1, <1>4, <2>1 DEF LateOK
<1>7. DeletedForGood'
  <2> SUFFICES ASSUME NEW u \in Users, acct[u] = "gone"
               PROVE  \/ udata'[u] = NoData
                      \/ \E q \in Procs : pc'[q] = "del" /\ u \in job'[q].user
                      \/ u \in stale'
    BY <1>1 DEF DeletedForGood
  <2>1. CASE u \in stale
    BY <1>2, <2>1
  <2>2. ASSUME NEW q \in Procs, pc[q] = "del", u \in job[q].user, u \notin stale
        PROVE  \/ udata'[u] = NoData
               \/ \E x \in Procs : pc'[x] = "del" /\ u \in job'[x].user
               \/ u \in stale'
    <3>1. CASE q # p
      BY <1>1, <2>2, <3>1
    <3>2. CASE q = p
      <4>1. DelUser(p) \/ Abort(p)
        BY <2>2, <3>2 DEF Step, Insert, UpdateInDB, ReadAcc, DeleteInDB, ListOthers, Srem, CheckBinding,
             AddBoard, Sadd, ReadChat, ReadList, SetUser, Confirm, ListAll, SyncNext
      <4>2. \A v \in job[p].user : v = u
        BY <2>2, <3>2 DEF JobInv, Shape
      <4>3. CASE DelUser(p)
        BY <4>2, <4>3 DEF DelUser, TypeOK
      <4>4. CASE Abort(p)
        <5>1. u \in UsersOf({p}, {"del"})
          BY <2>2, <3>2 DEF UsersOf
        <5> QED
          BY <4>4, <5>1 DEF Abort
      <4> QED
        BY <4>1, <4>3, <4>4
    <3> QED
      BY <3>1, <3>2
  <2>3. CASE udata[u] = NoData /\ u \notin stale
    <3>1. CASE SetUser(p)
      <4>1. u \notin job[p].user
        BY <2>3, <3>1 DEF SetUser, DeletedInv, LateOK
      <4> QED
        BY <2>3, <3>1, <4>1 DEF SetUser, TypeOK
    <3>2. CASE DelUser(p)
      BY <2>3, <3>2 DEF DelUser, TypeOK
    <3>3. CASE ~SetUser(p) /\ ~DelUser(p)
      BY <2>3, <3>3 DEF Step, Insert, UpdateInDB, ReadAcc, DeleteInDB, ListOthers, Srem, CheckBinding,
                AddBoard, Sadd, ReadChat, ReadList, Confirm, ListAll, SyncNext, Abort, redisVars
    <3> QED
      BY <3>1, <3>2, <3>3
  <2> QED
    BY <2>1, <2>2, <2>3 DEF DeletedInv, DeletedForGood
<1> QED
  BY <1>3, <1>6, <1>7 DEF DeletedInv

\* No step of requests, settings or failures does either.
LEMMA DeletedHolds == Spec => []DeletedInv
<1>1. Init => DeletedInv
  BY DEF Init, DeletedInv, DelsGone, DeletedForGood, LateOK
<1>2. TypeOK /\ JobInv /\ GoneInv /\ DeletedInv /\ [Next]_vars => DeletedInv'
  <2> SUFFICES ASSUME TypeOK, JobInv, GoneInv, DeletedInv, [Next]_vars PROVE DeletedInv'
    OBVIOUS
  <2>1. ASSUME NEW p \in Procs, Step(p) \/ Abort(p) PROVE DeletedInv'
    BY <2>1, StepDeleted
  <2>2. ASSUME NEW p \in Procs, Request(p) PROVE DeletedInv'
    <3>1. PICK u \in Users : Asks(p, u)
      BY <2>2, RequestAsks
    <3>2. /\ \A q \in Procs \ {p} : pc'[q] = pc[q] /\ job'[q] = job[q]
          /\ pc[p] = "idle" /\ job'[p].user = {u} /\ acct[u] # "gone" /\ UNCHANGED udata
          /\ \A w \in Users \ {u} : chat'[w] = chat[w] /\ acct'[w] = acct[w]
      BY <3>1 DEF Asks
    <3>3. CASE pc'[p] \in {"insert", "update", "delete", "confirm"} /\ UNCHANGED <<dbVars, stale>>
      <4>1. UNCHANGED <<acct, chat, stale>>
        BY <3>3 DEF dbVars
      <4>2. DelsGone'
        BY <3>2, <3>3, <4>1 DEF DeletedInv, DelsGone
      <4>3. \A w \in Users : LateOK(w)'
        BY <3>2, <3>3, <4>1 DEF DeletedInv, LateOK
      <4>4. DeletedForGood'
        BY <3>2, <3>3, <4>1 DEF DeletedInv, DeletedForGood
      <4> QED
        BY <4>2, <4>3, <4>4 DEF DeletedInv
    <3>4. CASE AdminDelete(p, u) /\ pc'[p] = "del" /\ acct'[u] = "gone" /\ chat'[u] = NoChat
      <4>1. /\ stale \subseteq stale'
            /\ \A q \in Procs : u \in job[q].user /\ pc[q] \in {"list", "set"} => u \in stale'
        BY <3>4 DEF AdminDelete
      <4>2. DelsGone'
        <5>1. \A q \in Procs \ {p} : job[q].user \subseteq Users
          BY DEF TypeOK, Job
        <5> QED
          BY <3>2, <3>4, <5>1 DEF DeletedInv, DelsGone
      <4>3. \A w \in Users : LateOK(w)'
        BY <3>2, <3>4, <4>1 DEF DeletedInv, LateOK
      <4>4. DeletedForGood'
        <5> SUFFICES ASSUME NEW w \in Users, acct'[w] = "gone"
                     PROVE  \/ udata'[w] = NoData
                            \/ \E q \in Procs : pc'[q] = "del" /\ w \in job'[q].user
                            \/ w \in stale'
          BY DEF DeletedForGood
        <5>1. CASE w = u
          BY <3>2, <3>4, <5>1
        <5>2. CASE w # u
          BY <3>2, <4>1, <5>2 DEF DeletedInv, DeletedForGood
        <5> QED
          BY <5>1, <5>2
      <4> QED
        BY <4>2, <4>3, <4>4 DEF DeletedInv
    <3> QED
      BY <3>1, <3>3, <3>4 DEF Asks
  <2>3. CASE Settings
    <3>1. /\ UNCHANGED <<udata, stale, pc, job>>
          /\ \A u \in Users : /\ acct'[u] = "gone" <=> acct[u] = "gone"
                              /\ chat'[u] \in {chat[u], NoChat}
      BY <2>3, SettingsKeep
    <3>2. DelsGone'
      <4>1. \A q \in Procs : job[q].user \subseteq Users
        BY DEF TypeOK, Job
      <4> QED
        BY <3>1, <4>1 DEF DeletedInv, DelsGone
    <3>3. (\A u \in Users : LateOK(u)') /\ DeletedForGood'
      BY <3>1 DEF DeletedInv, LateOK, DeletedForGood
    <3> QED
      BY <3>2, <3>3 DEF DeletedInv
  <2>4. CASE Restart
    <3>1. \A p \in Procs : pc'[p] = "idle" /\ job'[p].user = {}
      BY <2>4 DEF Restart, NoJob
    <3>2. UNCHANGED <<acct, chat, udata>> /\ stale' = stale \union UsersOf(Procs, {"del"})
      BY <2>4 DEF Restart, dbVars, redisVars
    <3>3. DelsGone' /\ \A u \in Users : LateOK(u)'
      BY <3>1, <3>2 DEF DeletedInv, DelsGone, LateOK
    <3>4. \A p \in Procs : pc[p] = "del" => \A u \in job[p].user : u \in stale'
      BY <3>2 DEF UsersOf
    <3>5. DeletedForGood'
      BY <3>2, <3>4 DEF DeletedInv, DeletedForGood
    <3> QED
      BY <3>3, <3>5 DEF DeletedInv
  <2>5. CASE UNCHANGED vars
    BY <2>5 DEF vars, dbVars, redisVars, lateVars, DeletedInv, DelsGone, LateOK, DeletedForGood
  <2> QED
    BY <2>1, <2>2, <2>3, <2>4, <2>5 DEF Next, Failure, Empty
<1> QED
  BY <1>1, <1>2, TypeCorrect, ShapeHolds, GoneHolds, PTL DEF Spec

\* The data of a deleted account come back only by a sync that had read the binding when
\* the account was deleted, and stay only if the DEL fails: SyncUserDelete and
\* updateUserData in any order, for any number of syncs and administrators.
THEOREM DeletedStays == Spec => []DeletedForGood
<1>1. DeletedInv => DeletedForGood
  BY DEF DeletedInv
<1> QED
  BY <1>1, DeletedHolds, PTL

-----------------------------------------------------------------------------
(***************************************************************************)
(* Users who wait until each request has been synced.                      *)
(***************************************************************************)
\* Two slots work for one user only after his account has been deleted.
Alone == \A p, q \in Procs : \A u \in job[p].user \intersect job[q].user : p # q => acct[u] = "gone"

LEMMA AloneHolds == Serial => (Spec => []Alone)
<1> SUFFICES ASSUME Serial PROVE Spec => []Alone
  OBVIOUS
<1>1. Init => Alone
  BY DEF Init, Alone, NoJob
<1>2. TypeOK /\ JobInv /\ GoneInv /\ Alone /\ [Next]_vars => Alone'
  <2> SUFFICES ASSUME TypeOK, JobInv, GoneInv, Alone, [Next]_vars PROVE Alone'
    OBVIOUS
  <2>0. \A p \in Procs : job[p].user \subseteq Users
    BY DEF TypeOK, Job
  <2>1. ASSUME NEW p \in Procs, Step(p) \/ Abort(p) PROVE Alone'
    <3>1. GoesOn(p) /\ UNCHANGED acct /\ \A q \in Procs \ {p} : job'[q] = job[q]
      BY <2>1, StepGoesOn
    <3>2. \A q \in Procs : job'[q].user \subseteq job[q].user
      BY <3>1 DEF GoesOn, Stop, Begin, NoJob, TypeOK
    <3> QED
      BY <3>1, <3>2 DEF Alone
  <2>2. ASSUME NEW p \in Procs, Request(p) PROVE Alone'
    <3>1. PICK u \in Users : Asks(p, u)
      BY <2>2, RequestAsks
    <3>2. /\ job'[p].user = {u} /\ \A q \in Procs \ {p} : job'[q] = job[q]
          /\ \A w \in Users \ {u} : acct'[w] = acct[w]
      BY <3>1 DEF Asks
    <3>3. (\A q \in Procs : u \notin job[q].user) \/ acct'[u] = "gone"
      BY <3>1 DEF Asks, Free, Quiescent
    <3>4. CASE acct'[u] = "gone"
      BY <2>0, <3>2, <3>4 DEF Alone
    <3>5. CASE \A q \in Procs : u \notin job[q].user
      BY <2>0, <3>2, <3>5 DEF Alone
    <3> QED
      BY <3>3, <3>4, <3>5
  <2>3. CASE Settings
    <3>1. UNCHANGED job /\ \A u \in Users : acct[u] = "gone" => acct'[u] = "gone"
      BY <2>3, SettingsKeep
    <3> QED
      BY <2>0, <3>1 DEF Alone
  <2>4. CASE Restart
    BY <2>4 DEF Restart, Alone, NoJob
  <2>5. CASE UNCHANGED vars
    BY <2>5 DEF Alone, vars, dbVars
  <2> QED
    BY <2>1, <2>2, <2>3, <2>4, <2>5 DEF Next, Failure, Empty
<1> QED
  BY <1>1, <1>2, TypeCorrect, ShapeHolds, GoneHolds, PTL DEF Spec

\* Then no SREM is out of date: the list it goes by has every row of the user.
Waits == Serial /\ MaxFaults = 0
SremInv ==
  /\ torn = {}
  /\ \A p \in Procs : pc[p] = "srem" => \A u \in job[p].user : RowsOf(u) \subseteq job[p].list

\* The slot that steps comes to its SREM from the list it has just read.
LEMMA StepSrem ==
  ASSUME TypeOK, JobInv, IdInv, GoneInv', Alone, SremInv, NEW p \in Procs, Step(p)
  PROVE  SremInv'
<1>0. /\ job[p] \in Job /\ pc \in [Procs -> PC] /\ job \in [Procs -> Job]
      /\ \A q \in Procs : job[q].user \subseteq Users
      /\ \A s \in job[p].sub : s.user \in job[p].user
  BY DEF TypeOK, Job, JobInv, Shape
<1>1. GoesOn(p) /\ UNCHANGED acct /\ \A q \in Procs \ {p} : pc'[q] = pc[q] /\ job'[q] = job[q]
  BY StepGoesOn
<1>2. torn' = {}
  <2>1. CASE Srem(p)
    BY <2>1, <1>0 DEF Srem, SremInv, RowsOf
  <2>2. CASE Sadd(p)
    BY <2>2 DEF Sadd, SremInv
  <2>3. CASE ~Srem(p) /\ ~Sadd(p)
    BY <2>3 DEF SremInv, Step, Insert, UpdateInDB, ReadAcc, DeleteInDB, ListOthers, CheckBinding,
                AddBoard, ReadChat, ReadList, SetUser, Confirm, ListAll, SyncNext, DelUser
  <2> QED
    BY <2>1, <2>2, <2>3
<1>3. ASSUME NEW q \in Procs \ {p}, pc[q] = "srem", NEW u \in job[q].user
      PROVE  RowsOf(u)' \subseteq job[q].list
  <2>1. u \in Users /\ RowsOf(u) \subseteq job[q].list
    BY <1>0, <1>3 DEF SremInv
  <2>2. CASE u \in job[p].user
    BY <1>1, <1>3, <2>1, <2>2 DEF Alone, GoneInv
  <2>3. CASE u \notin job[p].user
    BY <2>1, <2>3, OthersKept
  <2> QED
    BY <2>2, <2>3
<1>4. ASSUME pc'[p] = "srem", NEW u \in job'[p].user PROVE RowsOf(u)' \subseteq job'[p].list
  <2>3. ASSUME Stop(p) \/ Finish(p) PROVE FALSE
    BY <1>0, <1>4, <2>3 DEF Stop, Finish, Begin
  <2>4. ASSUME NEW x, NEW l, l # "srem", Begin(p, x, l) \/ Goto(p, l) PROVE FALSE
    BY <1>0, <1>4, <2>4 DEF Begin, Goto
  <2>5. Stop(p) \/ Finish(p) \/ ListOthers(p) \/ \E x, l : l # "srem" /\ (Begin(p, x, l) \/ Goto(p, l))
    <3>1. ASSUME Insert(p) \/ UpdateInDB(p) \/ ReadAcc(p) \/ DeleteInDB(p) \/ Srem(p)
          PROVE  Stop(p) \/ \E x, l : l # "srem" /\ (Begin(p, x, l) \/ Goto(p, l))
      BY <3>1 DEF Insert, UpdateInDB, ReadAcc, DeleteInDB, Srem
    <3>2. ASSUME CheckBinding(p) \/ AddBoard(p) \/ Sadd(p) \/ SetUser(p) \/ ReadChat(p) \/ ReadList(p)
          PROVE  Finish(p) \/ \E x, l : l # "srem" /\ (Begin(p, x, l) \/ Goto(p, l))
      BY <3>2 DEF CheckBinding, AddBoard, Sadd, SetUser, ReadChat, ReadList
    <3>3. ASSUME Confirm(p) \/ ListAll(p) \/ SyncNext(p) \/ DelUser(p)
          PROVE  Stop(p) \/ \E x, l : l # "srem" /\ (Begin(p, x, l) \/ Goto(p, l))
      BY <3>3 DEF Confirm, ListAll, SyncNext, DelUser
    <3> QED
      BY <3>1, <3>2, <3>3 DEF Step
  <2>6. ListOthers(p)
    BY <2>3, <2>4, <2>5
  <2>7. PICK s \in job[p].sub : Goto(p, "chat") \/ Begin(p, [job[p] EXCEPT !.list = RowsOf(s.user)], "srem")
    BY <2>6 DEF ListOthers
  <2>8. job'[p] = [job[p] EXCEPT !.list = RowsOf(s.user)]
    BY <1>0, <2>4, <2>7 DEF Begin
  <2>9. job'[p].user = job[p].user /\ job'[p].list = RowsOf(s.user) /\ UNCHANGED rows
    BY <1>0, <2>6, <2>8 DEF Job, ListOthers, dbVars
  <2>10. u = s.user
    BY <1>0, <1>4, <2>7, <2>9 DEF JobInv, Shape
  <2> QED
    BY <2>9, <2>10 DEF RowsOf
<1> QED
  BY <1>1, <1>2, <1>3, <1>4 DEF SremInv

\* A bound user who waits for each of his requests has none of his subscriptions lost
\* from the subscriber sets, whatever administrators do meanwhile, as long as nothing
\* fails: removeFromSubscriberSet goes by a list that is still true.
THEOREM NoneLost == Waits => (Spec => []NoLostMember)
<1> SUFFICES ASSUME Waits PROVE Spec => []NoLostMember
  OBVIOUS
<1>1. Init => SremInv
  BY DEF Init, SremInv
<1>2. /\ TypeOK /\ JobInv /\ IdInv /\ GoneInv /\ GoneInv' /\ Alone /\ SremInv /\ [Next]_vars
      => SremInv'
  <2> SUFFICES ASSUME TypeOK, JobInv, IdInv, GoneInv, GoneInv', Alone, SremInv, [Next]_vars
               PROVE  SremInv'
    OBVIOUS
  <2>1. ASSUME NEW p \in Procs, Step(p) PROVE SremInv'
    BY <2>1, StepSrem
  <2>2. ASSUME NEW p \in Procs, Request(p) PROVE SremInv'
    <3>1. PICK u \in Users : Asks(p, u)
      BY <2>2, RequestAsks
    <3>2. /\ torn' = {} /\ job'[p].user = {u} /\ pc'[p] # "srem"
          /\ \A q \in Procs \ {p} : pc'[q] = pc[q] /\ job'[q] = job[q]
          /\ \A w \in Users \ {u} : RowsOf(w)' = RowsOf(w)
      BY <3>1 DEF Asks, SremInv
    <3>3. RowsOf(u)' = {} \/ \A q \in Procs : u \notin job[q].user
      BY <3>1 DEF Asks, Free, Quiescent, Waits, GoneInv
    <3>4. \A q \in Procs : job[q].user \subseteq Users
      BY DEF TypeOK, Job
    <3> QED
      BY <3>2, <3>3, <3>4 DEF SremInv
  <2>3. CASE Settings
    <3>1. UNCHANGED <<rows, torn, pc, job>>
      BY <2>3, SettingsKeep
    <3> QED
      BY <3>1 DEF SremInv, RowsOf
  <2>4. ~Failure
    <3>1. ~(faults < MaxFaults)
      BY DEF Waits, TypeOK
    <3> QED
      BY <3>1 DEF Failure, Restart, Abort
  <2>5. CASE UNCHANGED vars
    BY <2>5 DEF SremInv, RowsOf, vars, dbVars
  <2> QED
    BY <2>1, <2>2, <2>3, <2>4, <2>5 DEF Next, Empty
<1>3. TypeOK /\ CoverInv /\ SremInv => NoLostMember
  <2> SUFFICES ASSUME CoverInv, SremInv, NEW u \in Users, Quiescent(u), chat[u] # NoChat, NEW r \in RowsOf(u)
               PROVE  u \in members[Key(r)]
    BY DEF NoLostMember
  <2>1. r \in rows /\ r.user = u
    BY DEF RowsOf
  <2> QED
    BY <2>1 DEF CoverInv, Covered, SremInv, Quiescent
<1>4. Spec => []Alone
  BY AloneHolds DEF Waits
<1> QED
  BY <1>1, <1>2, <1>3, <1>4, TypeCorrect, ShapeHolds, IdsHold, GoneHolds, NoOtherLoss, PTL DEF Spec

-----------------------------------------------------------------------------
(***************************************************************************)
(* What the data of a user say.                                            *)
(***************************************************************************)
\* buildSubscriptions shows what the user wants.
LEMMA BuildsShow ==
  ASSUME NEW u, NEW subs \in Builds(RowsOf(u))
  PROVE  /\ subs \subseteq Wanted(u)
         /\ \A e \in Wanted(u) : \E d \in subs :
              d = e \/ (e[1] = "pushsum" /\ d[1] = e[1] /\ d[2] = e[2])
<1> DEFINE list == {r \in RowsOf(u) : r.on}
<1>1. PICK S \in Winners(list) : subs = {Entry(r) : r \in S}
  BY DEF Builds
<1>2. S \subseteq list
  BY <1>1 DEF Winners
<1>3. ASSUME NEW r \in list
      PROVE  \E d \in subs : d = Entry(r) \/ (r.type = "pushsum" /\ d[1] = r.type /\ d[2] = r.board)
  <2>1. CASE r.type = "pushsum"
    <3>1. PICK s \in S : {q \in S : Key(q) = Key(r)} = {s}
      BY <1>1, <2>1 DEF Winners
    <3>2. s.type = r.type /\ s.board = r.board
      BY <3>1 DEF Key
    <3>3. Entry(s) \in subs /\ Entry(s)[1] = s.type /\ Entry(s)[2] = s.board
      BY <1>1 DEF Entry
    <3> QED
      BY <2>1, <3>2, <3>3
  <2>2. CASE r.type # "pushsum"
    BY <1>1, <2>2 DEF Winners
  <2> QED
    BY <2>1, <2>2
<1>4. \A r : Entry(r)[1] = r.type /\ Entry(r)[2] = r.board
  BY DEF Entry
<1> HIDE DEF list
<1>5. Wanted(u) = {Entry(r) : r \in list}
  BY DEF Wanted, list
<1> QED
  BY <1>1, <1>2, <1>3, <1>4, <1>5

Good(u) == Current(u) \/ u \in behind \/ \E p \in Procs : WillSet(p, u)
Same(u) == RowsOf(u)' = RowsOf(u) /\ chat'[u] = chat[u] /\ (u \in behind => u \in behind')

\* What a slot that was not going to write them does not touch stays as good as it was,
LEMMA StillGood ==
  ASSUME NEW u \in Users, NEW p \in Procs, Good(u), Same(u), udata'[u] = udata[u],
         \A q \in Procs \ {p} : pc'[q] = pc[q] /\ job'[q] = job[q],
         WillSet(p, u) => WillSet(p, u)'
  PROVE  Good(u)'
<1>1. Current(u) => Current(u)'
  BY DEF Current, Wanted, Same
<1>2. \A q \in Procs \ {p} : WillSet(q, u) => WillSet(q, u)'
  BY DEF WillSet, Same
<1> QED
  BY <1>1, <1>2 DEF Good, Same

\* and a slot on its way to write them makes it good.
LEMMA OnItsWay ==
  ASSUME NEW u \in Users, NEW p \in Procs, u \in job'[p].user,
         pc'[p] \in ToSet \ {"next", "list", "set"} \/ job'[p].todo # {}
  PROVE  Good(u)'
  BY DEF Good, WillSet

\* A step of a slot leaves the data of its user good: what it does not write, it was not
\* going to write.
LEMMA StepData ==
  ASSUME TypeOK, JobInv, IdInv, DeletedInv, DeletedInv', NEW p \in Procs, Step(p),
         NEW u \in Users, chat[u] # NoChat => Good(u), chat'[u] # NoChat
  PROVE  Good(u)'
<1>0. /\ job[p] \in Job /\ pc \in [Procs -> PC] /\ job \in [Procs -> Job] /\ Shape(job[p])
      /\ pc[p] \in Single => job[p].todo = {}
  BY DEF TypeOK, JobInv
<1>1. GoesOn(p) /\ UNCHANGED acct /\ \A q \in Procs \ {p} : pc'[q] = pc[q] /\ job'[q] = job[q]
  BY StepGoesOn
<1>2. acct[u] # "gone"
  BY <1>1 DEF DeletedInv, LateOK
<1>3. CASE u \notin job[p].user
  <2>1. RowsOf(u)' = RowsOf(u) /\ chat'[u] = chat[u] /\ udata'[u] = udata[u]
    BY <1>3, OthersKept
  <2>2. u \in behind => u \in behind'
    <3>1. ASSUME SetUser(p) PROVE u \in behind => u \in behind'
      BY <1>3, <3>1 DEF SetUser
    <3>2. ASSUME ListAll(p) PROVE u \in behind => u \in behind'
      BY <3>2 DEF ListAll
    <3>3. ASSUME ~SetUser(p), ~ListAll(p) PROVE behind' = behind
      BY <3>3 DEF Step, Insert, UpdateInDB, ReadAcc, DeleteInDB, ListOthers, Srem, CheckBinding, AddBoard,
             Sadd, ReadChat, ReadList, Confirm, SyncNext, DelUser, lateVars
    <3> QED
      BY <3>1, <3>2, <3>3
  <2>3. ~WillSet(p, u)
    BY <1>3 DEF WillSet
  <2> QED
    BY <1>1, <2>1, <2>2, <2>3, StillGood DEF Same
<1>4. CASE u \in job[p].user
  <2>0. \A v \in job[p].user : v = u
    BY <1>0, <1>4 DEF Shape
  <2>b. ASSUME NEW j, NEW l \in ToSet \ {"next", "list", "set"}, Begin(p, j, l), j.user = job[p].user
        PROVE  Good(u)'
    BY <1>0, <1>4, <2>b, OnItsWay DEF Begin
  <2>g. ASSUME NEW l \in ToSet \ {"next", "list", "set"}, Goto(p, l) PROVE Good(u)'
    BY <1>0, <1>4, <2>g, OnItsWay DEF Goto
  <2>s. ASSUME UNCHANGED <<rows, chat, udata, behind>>, ~WillSet(p, u) PROVE Good(u)'
    <3>1. Same(u) /\ udata'[u] = udata[u] /\ chat[u] # NoChat
      BY <2>s DEF Same, RowsOf
    <3> QED
      BY <1>1, <2>s, <3>1, StillGood
  <2>w. pc[p] \in {"insert", "update", "confirm"} => ~WillSet(p, u)
    BY <1>0 DEF Single, WillSet, ToSet
  <2>j. /\ \A S : [job[p] EXCEPT !.sub = S].user = job[p].user
        /\ \A S : [job[p] EXCEPT !.list = S].user = job[p].user
        /\ \A S : [job[p] EXCEPT !.chat = S].user = job[p].user
        /\ \A S : [job[p] EXCEPT !.on = S].user = job[p].user
        /\ \A S, T : [job[p] EXCEPT !.sub = S, !.todo = T].user = job[p].user
        /\ \A S : [job[p] EXCEPT !.chat = S].todo = job[p].todo
        /\ \A S : [job[p] EXCEPT !.list = S].todo = job[p].todo
        /\ \A S : [job[p] EXCEPT !.chat = S].chat = S
        /\ \A S : [job[p] EXCEPT !.list = S].list = S
        /\ \A S : [job[p] EXCEPT !.list = S].chat = job[p].chat
    BY <1>0 DEF Job
  <2>t. ToSet = {"updacc", "others", "srem", "all", "next", "binding", "addboard", "sadd", "chat", "list", "set"}
    BY DEF ToSet
  <2>1. CASE Insert(p)
    <3>1. pc[p] = "insert" /\ UNCHANGED <<chat, udata, behind>>
      BY <2>1 DEF Insert, redisVars, lateVars
    <3>2. (\E S : Begin(p, [job[p] EXCEPT !.sub = S], "binding")) \/ UNCHANGED rows
      BY <2>1 DEF Insert
    <3> QED
      BY <3>1, <3>2, <2>b, <2>j, <2>s, <2>t, <2>w
  <2>2. CASE UpdateInDB(p)
    <3>1. pc[p] = "update" /\ UNCHANGED <<chat, udata, behind>>
      BY <2>2 DEF UpdateInDB, redisVars, lateVars
    <3>2. Goto(p, "updacc") \/ UNCHANGED rows
      BY <2>2 DEF UpdateInDB
    <3> QED
      BY <3>1, <3>2, <2>g, <2>s, <2>t, <2>w
  <2>3. CASE ReadAcc(p)
    BY <1>2, <2>0, <2>3, <2>b, <2>j, <2>t DEF ReadAcc
  <2>4. CASE DeleteInDB(p)
    <3>1. \A s \in job[p].sub : s.user = u
      BY <1>0, <2>0 DEF Shape
    <3> QED
      BY <1>2, <2>4, <3>1, <2>g, <2>t DEF DeleteInDB
  <2>5. CASE ListOthers(p) \/ Srem(p)
    BY <2>5, <2>b, <2>g, <2>j, <2>t DEF ListOthers, Srem
  <2>6. CASE CheckBinding(p)
    <3>1. chat[u] # NoChat
      BY <2>6 DEF CheckBinding, dbVars
    <3> QED
      BY <2>0, <2>6, <3>1, <2>g, <2>t DEF CheckBinding
  <2>7. CASE AddBoard(p) \/ Sadd(p)
    BY <2>7, <2>g, <2>t DEF AddBoard, Sadd
  <2>8. CASE ReadChat(p)
    <3>1. UNCHANGED chat
      BY <2>8 DEF ReadChat, dbVars
    <3>2. Begin(p, [job[p] EXCEPT !.chat = chat[u]], "list")
      BY <2>0, <2>8, <3>1 DEF ReadChat
    <3>3. pc'[p] = "list" /\ u \in job'[p].user /\ job'[p].chat = chat'[u]
      BY <1>0, <1>4, <2>j, <3>1, <3>2 DEF Begin
    <3> QED
      BY <3>3 DEF Good, WillSet
  <2>9. CASE ReadList(p)
    <3>1. UNCHANGED <<rows, chat, udata, behind>> /\ pc[p] = "list"
      BY <2>9 DEF ReadList, dbVars, redisVars, lateVars
    <3>2. Begin(p, [job[p] EXCEPT !.list = RowsOf(u)], "set")
      BY <2>0, <2>9 DEF ReadList
    <3>3. /\ pc'[p] = "set" /\ u \in job'[p].user /\ job'[p].chat = job[p].chat
          /\ job'[p].list = RowsOf(u)' /\ job'[p].todo = job[p].todo
      BY <1>0, <1>4, <2>j, <3>1, <3>2 DEF Begin, RowsOf
    <3>4. CASE WillSet(p, u)
      <4>1. WillSet(p, u)'
        BY <3>1, <3>3, <3>4 DEF WillSet, ToSet
      <4> QED
        BY <4>1 DEF Good
    <3>5. CASE ~WillSet(p, u)
      BY <2>s, <3>1, <3>5
    <3> QED
      BY <3>4, <3>5
  <2>10. CASE SetUser(p)
    <3>1. PICK subs \in Builds(job[p].list) :
            /\ udata' = [udata EXCEPT ![u] = [on |-> job[p].on, chat |-> job[p].chat, subs |-> subs]]
            /\ behind' = IF job[p].chat = chat[u] /\ job[p].list = RowsOf(u)
                         THEN behind \ {u} ELSE behind \union {u}
      BY <2>0, <2>10 DEF SetUser
    <3>2. CASE job[p].chat = chat[u] /\ job[p].list = RowsOf(u)
      <4>1. UNCHANGED <<rows, chat>>
        BY <2>10 DEF SetUser, dbVars
      <4>2. udata'[u] = [on |-> job[p].on, chat |-> job[p].chat, subs |-> subs]
        BY <3>1 DEF TypeOK
      <4>3. udata'[u].chat = chat'[u] /\ udata'[u].subs = subs
        BY <3>2, <4>1, <4>2
      <4>4. udata'[u] # NoData
        <5>1. udata'[u] \in UserData
          <6>1. subs \in SUBSET (SubTypes \X Boards \X Values)
            BY <1>0 DEF Builds, Winners, Entry, Row, Job
          <6> QED
            BY <1>0, <4>2, <6>1 DEF UserData, Job
        <5> QED
          BY <5>1, NoDataAssumption
      <4>5. Wanted(u)' = Wanted(u)
        BY <4>1 DEF Wanted, RowsOf
      <4>6. subs \in Builds(RowsOf(u))
        BY <3>2
      <4>7. Current(u)'
        BY <4>3, <4>4, <4>5, <4>6, BuildsShow DEF Current
      <4> QED
        BY <4>7 DEF Good
    <3>3. CASE ~(job[p].chat = chat[u] /\ job[p].list = RowsOf(u))
      BY <3>1, <3>3 DEF Good
    <3> QED
      BY <3>2, <3>3
  <2>11. CASE Confirm(p)
    <3>1. pc[p] = "confirm" /\ UNCHANGED <<rows, udata, behind>>
      BY <2>11 DEF Confirm, redisVars, lateVars
    <3>2. Begin(p, [job[p] EXCEPT !.chat = NoChat], "all") \/ UNCHANGED chat
      BY <2>11 DEF Confirm
    <3> QED
      BY <3>1, <3>2, <2>b, <2>j, <2>s, <2>t, <2>w
  <2>12. CASE ListAll(p)
    <3>1. UNCHANGED <<rows, chat, udata>>
      BY <2>12 DEF ListAll, dbVars, redisVars
    <3>2. CASE RowsOf(u) = {}
      <4>1. behind' = behind \union {v \in {u} : udata[v] # NoData}
        BY <2>0, <2>12, <3>2 DEF ListAll
      <4>2. CASE udata[u] = NoData
        <5>1. Current(u)'
          BY <3>1, <3>2, <4>2 DEF Current, RowsOf
        <5> QED
          BY <5>1 DEF Good
      <4>3. CASE udata[u] # NoData
        BY <4>1, <4>3 DEF Good
      <4> QED
        BY <4>2, <4>3
    <3>3. CASE RowsOf(u) # {}
      <4>1. Begin(p, [job[p] EXCEPT !.on = (acct[u] = "on"), !.todo = RowsOf(u)], "next")
        BY <1>2, <2>0, <2>12, <3>3 DEF ListAll
      <4>2. job'[p].todo # {} /\ u \in job'[p].user
        BY <1>0, <1>4, <3>3, <4>1 DEF Begin, Job
      <4> QED
        BY <4>2, OnItsWay
    <3> QED
      BY <3>2, <3>3
  <2>13. CASE SyncNext(p)
    <3>1. PICK s \in job[p].todo :
            Begin(p, [job[p] EXCEPT !.sub = {s}, !.todo = job[p].todo \ {s}], "binding")
      BY <2>13 DEF SyncNext
    <3>2. [job[p] EXCEPT !.sub = {s}, !.todo = job[p].todo \ {s}].user = job[p].user
      BY <1>0 DEF Job
    <3> QED
      BY <3>1, <3>2, <2>b, <2>t
  <2>14. CASE DelUser(p)
    BY <1>2, <1>4, <2>14 DEF DelUser, DeletedInv, DelsGone
  <2> QED
    BY <2>1, <2>2, <2>3, <2>4, <2>5, <2>6, <2>7, <2>8, <2>9, <2>10, <2>11, <2>12, <2>13, <2>14 DEF Step
<1> QED
  BY <1>3, <1>4

\* A failure is known to leave them behind.
LEMMA FailureData ==
  ASSUME TypeOK, JobInv, Failure, NEW u \in Users, Good(u)
  PROVE  Good(u)'
<1>0. /\ pc \in [Procs -> PC] /\ job \in [Procs -> Job]
      /\ \A p \in Procs : pc[p] \in Single => job[p].todo = {}
  BY DEF TypeOK, JobInv
<1>1. ASSUME NEW p \in Procs, WillSet(p, u) PROVE u \in job[p].user /\ pc[p] \in ToSet
  <2>1. pc[p] \in PC
    BY <1>0
  <2> QED
    BY <1>0, <1>1, <2>1 DEF WillSet, Single, ToSet, PC
<1>2. ASSUME NEW p \in Procs, Abort(p) PROVE Good(u)'
  <2>1. /\ UNCHANGED <<rows, chat, udata>> /\ behind' = behind \union UsersOf({p}, ToSet)
        /\ \A q \in Procs \ {p} : pc'[q] = pc[q] /\ job'[q] = job[q]
    BY <1>2, StepGoesOn DEF Abort, dbVars, redisVars
  <2>2. CASE WillSet(p, u)
    <3>1. u \in UsersOf({p}, ToSet)
      BY <1>1, <2>2 DEF UsersOf
    <3> QED
      BY <2>1, <3>1 DEF Good
  <2>3. CASE ~WillSet(p, u)
    BY <2>1, <2>3, StillGood DEF Same, RowsOf
  <2> QED
    BY <2>2, <2>3
<1>3. ASSUME Restart PROVE Good(u)'
  <2>1. UNCHANGED <<rows, chat, udata>> /\ behind' = behind \union UsersOf(Procs, ToSet)
    BY <1>3 DEF Restart, dbVars, redisVars
  <2>2. ASSUME NEW p \in Procs, WillSet(p, u) PROVE u \in behind'
    BY <1>1, <2>1, <2>2 DEF UsersOf
  <2>3. Current(u) => Current(u)'
    BY <2>1 DEF Current, Wanted, RowsOf
  <2> QED
    BY <2>1, <2>2, <2>3 DEF Good
<1> QED
  BY <1>2, <1>3 DEF Failure

\* What Redis says of a bound user is what PostgreSQL says, or a sync is on its way to
\* say so that has read nothing out of date: only a SET that is late, a failure, or a
\* binding without subscriptions leaves it otherwise, however updateUserData,
\* SyncAllSubscriptions and the requests of any number of slots interleave.
THEOREM DataKept == Spec => []DataInv
<1>1. Init => DataInv
  BY DEF Init, DataInv
<1>2. /\ TypeOK /\ JobInv /\ IdInv /\ GoneInv /\ DeletedInv /\ DeletedInv' /\ DataInv /\ [Next]_vars
      => DataInv'
  <2> SUFFICES ASSUME TypeOK, JobInv, IdInv, GoneInv, DeletedInv, DeletedInv', DataInv, [Next]_vars,
                      NEW u \in Users, chat'[u] # NoChat
               PROVE  Good(u)'
    BY DEF DataInv, Good
  <2>0. chat[u] # NoChat => Good(u)
    BY DEF DataInv, Good
  <2>1. ASSUME NEW p \in Procs, Step(p) PROVE Good(u)'
    BY <2>0, <2>1, StepData
  <2>2. ASSUME NEW p \in Procs, Request(p) PROVE Good(u)'
    <3>1. PICK v \in Users : Asks(p, v)
      BY <2>2, RequestAsks
    <3>2. UNCHANGED <<udata, behind>> /\ \A q \in Procs \ {p} : pc'[q] = pc[q] /\ job'[q] = job[q]
      BY <3>1 DEF Asks
    <3>3. RowsOf(u)' = RowsOf(u) /\ chat'[u] = chat[u]
      BY <3>1 DEF Asks, dbVars, RowsOf
    <3>4. ~WillSet(p, u)
      BY <3>1 DEF Asks, JobInv, Single, WillSet, ToSet
    <3> QED
      BY <2>0, <3>2, <3>3, <3>4, StillGood DEF Same
  <2>3. CASE Settings
    <3>1. UNCHANGED <<rows, udata, behind, pc, job>> /\ chat'[u] = chat[u]
      BY <2>3, SettingsKeep
    <3> QED
      BY <2>0, <3>1 DEF Good, Current, Wanted, WillSet, RowsOf
  <2>4. CASE Failure
    <3>1. UNCHANGED chat
      BY <2>4 DEF Failure, Restart, Abort, dbVars
    <3> QED
      BY <2>0, <2>4, <3>1, FailureData
  <2>5. CASE UNCHANGED vars
    <3>1. UNCHANGED <<rows, chat, udata, behind, pc, job>>
      BY <2>5 DEF vars, dbVars, redisVars, lateVars
    <3> QED
      BY <2>0, <3>1 DEF Good, Current, Wanted, WillSet, RowsOf
  <2> QED
    BY <2>1, <2>2, <2>3, <2>4, <2>5 DEF Next, Empty
<1> QED
  BY <1>1, <1>2, TypeCorrect, ShapeHolds, IdsHold, GoneHolds, DeletedHolds, PTL DEF Spec

=============================================================================
