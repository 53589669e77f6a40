------------------------------- MODULE SubSync -------------------------------
(***************************************************************************)
(* Subscriptions of web users: the PostgreSQL tables that own them and the *)
(* Redis copy the checkers read.  A request (create, update or delete a    *)
(* subscription, bind Telegram, delete the account) writes PostgreSQL and  *)
(* then starts a goroutine that refreshes Redis one command at a time.     *)
(* Nothing orders two such goroutines of the same user.                    *)
(*                                                                         *)
(* One slot of Procs is a request and the goroutine it starts: a request   *)
(* that is refused, and a goroutine that is done, free the slot.           *)
(***************************************************************************)
EXTENDS Integers, FiniteSets

CONSTANTS
  Users,      \* accounts, by users.id
  Boards,     \* PTT board names
  SubTypes,   \* values of sub_type: "keyword", "author", "pushsum"
  Values,     \* keywords, authors or push counts
  Chats,      \* Telegram chat ids
  NoChat,     \* no binding row, or a pending one (service_id = '')
  NoData,     \* the Redis key user:web_<id> does not exist
  Procs,      \* slots for requests in flight
  Quota,      \* max_subscriptions of the users' role, -1 for unlimited
  MaxId,      \* bound: rows ever inserted
  MaxFaults,  \* bound: failed commands and restarts
  Serial      \* TRUE: a user makes requests of one item each, and waits until the
              \* last one has been synced; administrators do not wait for anybody

ASSUME SubSyncAssumption ==
  /\ NoChat \notin Chats
  /\ Quota \in Int
  /\ MaxId \in Nat
  /\ MaxFaults \in Nat
  /\ Serial \in BOOLEAN

VARIABLES
  acct,     \* PostgreSQL users: enabled ("on"), disabled ("off"), deleted
  chat,     \* PostgreSQL notification_bindings.service_id for Telegram
  rows,     \* PostgreSQL subscriptions
  nextId,   \* the SERIAL of subscriptions.id
  scanned,  \* Redis set "boards"
  members,  \* Redis sets "<sub_type>:<board>:subs"
  udata,    \* Redis values "user:web_<id>"
  pc,       \* the next command of each slot
  job,      \* the local variables of each slot
  faults,   \* failures so far
  torn,     \* history: <<user, key>> whose membership was last written by an
            \* SREM that was out of date, or not written because of a failure
  behind,   \* history: users whose data was last written by a SET that was out of
            \* date, or not written because of a failure or for want of rows
  stale     \* history: users deleted while a SET of theirs was on its way, or whose
            \* DEL a failure prevented

dbVars    == <<acct, chat, rows, nextId>>
redisVars == <<scanned, members, udata>>
lateVars  == <<behind, stale>>
vars      == <<dbVars, redisVars, pc, job, faults, torn, lateVars>>

-----------------------------------------------------------------------------
Row  == [id: Nat, user: Users, board: Boards, type: SubTypes,
         value: Values, on: BOOLEAN]
Keys == SubTypes \X Boards
Key(r)   == <<r.type, r.board>>
Entry(r) == <<r.type, r.board, r.value>>

RowsOf(u)  == {r \in rows : r.user = u}

\* buildSubscriptions: every enabled keyword and author, but one push count per
\* board, the last of the list, which is in the order of updated_at: of several any
\* may be it.
Winners(list) ==
  {S \in SUBSET list : \A r \in list :
     IF r.type = "pushsum" THEN \E s \in S : {q \in S : Key(q) = Key(r)} = {s}
                           ELSE r \in S}

\* Mutants of Builds: the value is forgotten; the disabled ones are listed too.
BuildsKeys(list) == {{Key(r) : r \in S} : S \in Winners({r \in list : r.on})}
BuildsAll(list)  == {{Entry(r) : r \in S} : S \in Winners(list)}

Builds(list) == {{Entry(r) : r \in S} : S \in Winners({r \in list : r.on})}

UserData == [on: BOOLEAN, chat: Chats \union {NoChat},
             subs: SUBSET (SubTypes \X Boards \X Values)]

\* A key that does not exist is no user data.
ASSUME NoDataAssumption == NoData \notin UserData

\* The local variables of a slot.  sub is the subscription it works on (at most
\* one), todo are those SyncAllSubscriptions has still to sync.
NoJob == [user |-> {}, on |-> FALSE, chat |-> NoChat,
          sub |-> {}, list |-> {}, todo |-> {}]
Job   == [user: SUBSET Users, on: BOOLEAN, chat: Chats \union {NoChat},
          sub: SUBSET Row, list: SUBSET Row, todo: SUBSET Row]

PC == {"idle", "insert", "update", "updacc", "delete", "others", "srem",
       "confirm", "all", "next", "binding", "addboard", "sadd", "chat",
       "list", "set", "del"}

TypeOK ==
  /\ acct \in [Users -> {"on", "off", "gone"}]
  /\ chat \in [Users -> Chats \union {NoChat}]
  /\ rows \subseteq Row
  /\ nextId \in Nat
  /\ scanned \subseteq Boards
  /\ members \in [Keys -> SUBSET Users]
  /\ udata \in [Users -> UserData \union {NoData}]
  /\ pc \in [Procs -> PC]
  /\ job \in [Procs -> Job]
  /\ faults \in Nat
  /\ torn \subseteq Users \X Keys
  /\ behind \subseteq Users
  /\ stale \subseteq Users

Init ==
  /\ acct = [u \in Users |-> "on"]
  /\ chat = [u \in Users |-> NoChat]
  /\ rows = {}
  /\ nextId = 1
  /\ scanned = {}
  /\ members = [k \in Keys |-> {}]
  /\ udata = [u \in Users |-> NoData]
  /\ pc = [p \in Procs |-> "idle"]
  /\ job = [p \in Procs |-> NoJob]
  /\ faults = 0
  /\ torn = {}
  /\ behind = {}
  /\ stale = {}

-----------------------------------------------------------------------------
(***************************************************************************)
(* Control of a slot.                                                      *)
(***************************************************************************)
Quiescent(u) == \A p \in Procs : u \notin job[p].user
Free(p, u)   == pc[p] = "idle" /\ (Serial => Quiescent(u))

Begin(p, j, label) ==
  /\ job' = [job EXCEPT ![p] = j]
  /\ pc' = [pc EXCEPT ![p] = label]

Goto(p, label) == pc' = [pc EXCEPT ![p] = label] /\ UNCHANGED job

Stop(p) == Begin(p, NoJob, "idle")

\* Mutant of Finish: the loop ends after its first round.
FinishFirst(p) == Stop(p)

\* One SyncSubscriptionCreate or SyncSubscriptionDelete has returned: the end
\* of the goroutine, or the next round of the loop of SyncAllSubscriptions.
Finish(p) ==
  IF job[p].todo = {}
  THEN Stop(p)
  ELSE Begin(p, [job[p] EXCEPT !.chat = NoChat, !.sub = {}, !.list = {}], "next")

-----------------------------------------------------------------------------
(***************************************************************************)
(* SubscriptionPostgres.Create                                             *)
(***************************************************************************)
\* CheckLimit
BelowLimit(u) == Quota < 0 \/ Cardinality(RowsOf(u)) < Quota

\* The account is read and the limit is checked; a refused request is no step.
StartCreate(p, u, b, t, v) ==
  /\ Free(p, u)
  /\ acct[u] # "gone"
  /\ BelowLimit(u)
  /\ Begin(p, [NoJob EXCEPT !.user = {u}, !.on = (acct[u] = "on"),
                 !.sub = {[id |-> 0, user |-> u, board |-> b, type |-> t,
                           value |-> v, on |-> TRUE]}],
           "insert")
  /\ UNCHANGED <<dbVars, redisVars, faults, torn, lateVars>>

\* UNIQUE (user_id, board, sub_type, value)
Clash(s) == \E r \in rows : r.id # s.id /\ r.user = s.user /\ Entry(r) = Entry(s)

\* Mutant: no sync after the INSERT.
InsertUnsynced(p) ==
  /\ pc[p] = "insert"
  /\ \/ /\ \E s \in job[p].sub :
             /\ nextId <= MaxId /\ acct[s.user] # "gone" /\ ~Clash(s)
             /\ rows' = rows \union {[s EXCEPT !.id = nextId]}
        /\ nextId' = nextId + 1
     \/ UNCHANGED <<rows, nextId>>
  /\ Stop(p)
  /\ UNCHANGED <<acct, chat, redisVars, faults, torn, lateVars>>

Insert(p) ==
  /\ pc[p] = "insert"
  /\ \E s \in job[p].sub :
       \/ /\ nextId <= MaxId
          /\ acct[s.user] # "gone"
          /\ ~Clash(s)
          /\ LET row == [s EXCEPT !.id = nextId]
             IN  /\ rows' = rows \union {row}
                 /\ Begin(p, [job[p] EXCEPT !.sub = {row}], "binding")
          /\ nextId' = nextId + 1
       \/ \* no such board on PTT, a duplicate, or the account is gone
          Stop(p) /\ UNCHANGED <<rows, nextId>>
  /\ UNCHANGED <<acct, chat, redisVars, faults, torn, lateVars>>

(***************************************************************************)
(* SubscriptionPostgres.Update.  The subscriber set of the old board and   *)
(* type is not touched.                                                    *)
(***************************************************************************)
StartUpdate(p, r, b, t, v, on) ==
  /\ Free(p, r.user)
  /\ Begin(p, [NoJob EXCEPT !.user = {r.user},
                 !.sub = {[r EXCEPT !.board = b, !.type = t, !.value = v, !.on = on]}],
           "update")
  /\ UNCHANGED <<dbVars, redisVars, faults, torn, lateVars>>

\* An UPDATE that matches no row is no error.
UpdateInDB(p) ==
  /\ pc[p] = "update"
  /\ \E s \in job[p].sub :
       IF Clash(s) /\ \E r \in rows : r.id = s.id
       THEN Stop(p) /\ UNCHANGED rows
       ELSE /\ rows' = {IF r.id = s.id THEN [s EXCEPT !.user = r.user] ELSE r : r \in rows}
            /\ Goto(p, "updacc")
  /\ UNCHANGED <<acct, chat, nextId, redisVars, faults, torn, lateVars>>

ReadAcc(p) ==
  /\ pc[p] = "updacc"
  /\ \E u \in job[p].user :
       IF acct[u] = "gone"
       THEN Stop(p)
       ELSE Begin(p, [job[p] EXCEPT !.on = (acct[u] = "on")], "binding")
  /\ UNCHANGED <<dbVars, redisVars, faults, torn, lateVars>>

(***************************************************************************)
(* SubscriptionPostgres.Delete and SyncSubscriptionDelete                  *)
(***************************************************************************)
StartDelete(p, r) ==
  /\ Free(p, r.user)
  /\ Begin(p, [NoJob EXCEPT !.user = {r.user}, !.sub = {r},
                 !.on = (acct[r.user] = "on")],
           "delete")
  /\ UNCHANGED <<dbVars, redisVars, faults, torn, lateVars>>

\* The account may have been deleted after the row was found and before the
\* account was read: then there is nothing to sync.
DeleteInDB(p) ==
  /\ pc[p] = "delete"
  /\ \E s \in job[p].sub :
       /\ rows' = {r \in rows : r.id # s.id}
       /\ \/ Goto(p, "others")
          \/ acct[s.user] = "gone" /\ Stop(p)
  /\ UNCHANGED <<acct, chat, nextId, redisVars, faults, torn, lateVars>>

\* Mutant: the other subscriptions of the board and type are not looked at.
ListNoOthers(p) ==
  /\ pc[p] = "others"
  /\ \E u \in job[p].user : Begin(p, [job[p] EXCEPT !.list = RowsOf(u)], "srem")
  /\ UNCHANGED <<dbVars, redisVars, faults, torn, lateVars>>

ListOthers(p) ==
  /\ pc[p] = "others"
  /\ \E s \in job[p].sub :
       IF \E r \in RowsOf(s.user) : r.id # s.id /\ Key(r) = Key(s)
       THEN Goto(p, "chat")
       ELSE Begin(p, [job[p] EXCEPT !.list = RowsOf(s.user)], "srem")
  /\ UNCHANGED <<dbVars, redisVars, faults, torn, lateVars>>

\* The list may be out of date by now: torn remembers when a row that is not in
\* it needs the membership.
Srem(p) ==
  /\ pc[p] = "srem"
  /\ \E s \in job[p].sub :
       /\ members' = [members EXCEPT ![Key(s)] = @ \ {s.user}]
       /\ torn' = IF \E r \in RowsOf(s.user) \ job[p].list : Key(r) = Key(s)
                  THEN torn \union {<<s.user, Key(s)>>}
                  ELSE torn
  /\ Begin(p, [job[p] EXCEPT !.list = {}], "chat")
  /\ UNCHANGED <<dbVars, scanned, udata, faults, lateVars>>

-----------------------------------------------------------------------------
(***************************************************************************)
(* SyncSubscriptionCreate                                                  *)
(***************************************************************************)
\* Mutant: the account is added and the board forgotten.
CheckBindingNoBoard(p) ==
  /\ pc[p] = "binding"
  /\ \E u \in job[p].user :
       IF chat[u] = NoChat THEN Finish(p) ELSE Goto(p, "sadd")
  /\ UNCHANGED <<dbVars, redisVars, faults, torn, lateVars>>

CheckBinding(p) ==
  /\ pc[p] = "binding"
  /\ \E u \in job[p].user :
       IF chat[u] = NoChat THEN Finish(p) ELSE Goto(p, "addboard")
  /\ UNCHANGED <<dbVars, redisVars, faults, torn, lateVars>>

AddBoard(p) ==
  /\ pc[p] = "addboard"
  /\ \E s \in job[p].sub : scanned' = scanned \union {s.board}
  /\ Goto(p, "sadd")
  /\ UNCHANGED <<dbVars, members, udata, faults, torn, lateVars>>

Sadd(p) ==
  /\ pc[p] = "sadd"
  /\ \E s \in job[p].sub :
       /\ members' = [members EXCEPT ![Key(s)] = @ \union {s.user}]
       /\ torn' = torn \ {<<s.user, Key(s)>>}
  /\ Goto(p, "chat")
  /\ UNCHANGED <<dbVars, scanned, udata, faults, lateVars>>

(***************************************************************************)
(* updateUserData: the binding, then the list, then an unconditional SET   *)
(* with the account as it was when the request read it.                    *)
(***************************************************************************)
\* Mutant: the binding is not looked at.
ReadChatAny(p) ==
  /\ pc[p] = "chat"
  /\ \E u \in job[p].user : Begin(p, [job[p] EXCEPT !.chat = chat[u]], "list")
  /\ UNCHANGED <<dbVars, redisVars, faults, torn, lateVars>>

ReadChat(p) ==
  /\ pc[p] = "chat"
  /\ \E u \in job[p].user :
       IF chat[u] = NoChat
       THEN Finish(p)
       ELSE Begin(p, [job[p] EXCEPT !.chat = chat[u]], "list")
  /\ UNCHANGED <<dbVars, redisVars, faults, torn, lateVars>>

ReadList(p) ==
  /\ pc[p] = "list"
  /\ \E u \in job[p].user : Begin(p, [job[p] EXCEPT !.list = RowsOf(u)], "set")
  /\ UNCHANGED <<dbVars, redisVars, faults, torn, lateVars>>

SetUser(p) ==
  /\ pc[p] = "set"
  /\ \E u \in job[p].user, subs \in Builds(job[p].list) :
       /\ udata' = [udata EXCEPT ![u] = [on |-> job[p].on, chat |-> job[p].chat, subs |-> subs]]
       /\ behind' = IF job[p].chat = chat[u] /\ job[p].list = RowsOf(u)
                    THEN behind \ {u} ELSE behind \union {u}
  /\ Finish(p)
  /\ UNCHANGED <<dbVars, scanned, members, faults, torn, stale>>

-----------------------------------------------------------------------------
(***************************************************************************)
(* Binding a Telegram chat (/bind <code> and the e-mail dialogue), and     *)
(* SyncAllSubscriptions.                                                   *)
(***************************************************************************)
Taken(u, c) == \E w \in Users \ {u} : chat[w] = c

StartBind(p, u, c) ==
  /\ Free(p, u)
  /\ acct[u] # "gone"
  /\ chat[u] = NoChat
  /\ ~Taken(u, c)
  /\ Begin(p, [NoJob EXCEPT !.user = {u}, !.chat = c], "confirm")
  /\ UNCHANGED <<dbVars, redisVars, faults, torn, lateVars>>

\* UPDATE or INSERT of the binding.  A second confirmation of one code
\* overwrites the first; an UPDATE of a binding deleted meanwhile matches no
\* row and is no error; a chat of another account, an account that is gone or
\* a second INSERT is one.
Confirm(p) ==
  /\ pc[p] = "confirm"
  /\ \E u \in job[p].user :
       \/ /\ acct[u] # "gone"
          /\ ~Taken(u, job[p].chat)
          /\ chat' = [chat EXCEPT ![u] = job[p].chat]
          /\ Begin(p, [job[p] EXCEPT !.chat = NoChat], "all")
       \/ /\ chat[u] = NoChat
          /\ Begin(p, [job[p] EXCEPT !.chat = NoChat], "all")
          /\ UNCHANGED chat
       \/ /\ acct[u] = "gone" \/ Taken(u, job[p].chat) \/ chat[u] # NoChat
          /\ Stop(p)
          /\ UNCHANGED chat
  /\ UNCHANGED <<acct, rows, nextId, redisVars, faults, torn, lateVars>>

ListAll(p) ==
  /\ pc[p] = "all"
  /\ \E u \in job[p].user :
       IF acct[u] = "gone" \/ RowsOf(u) = {}
       THEN Stop(p) /\ behind' = behind \union {v \in {u} : udata[v] # NoData}
       ELSE /\ Begin(p, [job[p] EXCEPT !.on = (acct[u] = "on"), !.todo = RowsOf(u)], "next")
            /\ UNCHANGED behind
  /\ UNCHANGED <<dbVars, redisVars, faults, torn, stale>>

SyncNext(p) ==
  /\ pc[p] = "next"
  /\ \E s \in job[p].todo :
       Begin(p, [job[p] EXCEPT !.sub = {s}, !.todo = @ \ {s}], "binding")
  /\ UNCHANGED <<dbVars, redisVars, faults, torn, lateVars>>

-----------------------------------------------------------------------------
(***************************************************************************)
(* Requests that write PostgreSQL and do not tell Redis.                   *)
(***************************************************************************)
Unbind(u) ==
  /\ Serial => Quiescent(u)
  /\ chat[u] # NoChat
  /\ chat' = [chat EXCEPT ![u] = NoChat]
  /\ UNCHANGED <<acct, rows, nextId, redisVars, pc, job, faults, torn, lateVars>>

AdminUpdate(u, on) ==
  /\ acct[u] # "gone"
  /\ acct' = [acct EXCEPT ![u] = IF on THEN "on" ELSE "off"]
  /\ UNCHANGED <<chat, rows, nextId, redisVars, pc, job, faults, torn, lateVars>>

(***************************************************************************)
(* AdminDeleteUser, whose DELETE cascades, and SyncUserDelete, which       *)
(* deletes the user data and leaves the subscriber sets.                   *)
(***************************************************************************)
AdminDelete(p, u) ==
  /\ pc[p] = "idle"
  /\ acct[u] # "gone"
  /\ acct' = [acct EXCEPT ![u] = "gone"]
  /\ chat' = [chat EXCEPT ![u] = NoChat]
  /\ rows' = rows \ RowsOf(u)
  /\ Begin(p, [NoJob EXCEPT !.user = {u}], "del")
  /\ stale' = stale \union {v \in {u} : \E q \in Procs : v \in job[q].user /\ pc[q] \in {"list", "set"}}
  /\ UNCHANGED <<nextId, redisVars, faults, torn, behind>>

DelUser(p) ==
  /\ pc[p] = "del"
  /\ \E u \in job[p].user : udata' = [udata EXCEPT ![u] = NoData]
  /\ Stop(p)
  /\ UNCHANGED <<dbVars, scanned, members, faults, torn, lateVars>>

-----------------------------------------------------------------------------
(***************************************************************************)
(* Failures.  A failed command ends a sync with an error that the goroutine *)
(* drops (SyncAllSubscriptions logs it and goes on); a restart of the      *)
(* process ends all of them.                                               *)
(***************************************************************************)
KeysOf(S) == {Key(s) : s \in S}

\* The keys a slot is still going to add its user to.
Pending(p) ==
  KeysOf(job[p].todo)
  \union (IF pc[p] \in {"updacc", "binding", "addboard", "sadd"}
          THEN KeysOf(job[p].sub) ELSE {})
  \union (IF pc[p] = "all" THEN Keys ELSE {})

\* The slots that are going to write the data of their user, and their users.
ToSet == {"updacc", "others", "srem", "all", "next", "binding", "addboard", "sadd", "chat", "list", "set"}
UsersOf(S, labels) == UNION {job[p].user : p \in {q \in S : pc[q] \in labels}}

Abort(p) ==
  /\ pc[p] \notin {"idle", "next"}
  /\ faults < MaxFaults
  /\ faults' = faults + 1
  /\ Finish(p)
  /\ torn' = torn \union (job[p].user \X (Pending(p) \ KeysOf(job[p].todo)))
  /\ behind' = behind \union UsersOf({p}, ToSet)
  /\ stale' = stale \union UsersOf({p}, {"del"})
  /\ UNCHANGED <<dbVars, redisVars>>

Restart ==
  /\ faults < MaxFaults
  /\ faults' = faults + 1
  /\ pc' = [p \in Procs |-> "idle"]
  /\ job' = [p \in Procs |-> NoJob]
  /\ torn' = torn \union UNION {job[p].user \X Pending(p) : p \in Procs}
  /\ behind' = behind \union UsersOf(Procs, ToSet)
  /\ stale' = stale \union UsersOf(Procs, {"del"})
  /\ UNCHANGED <<dbVars, redisVars>>

-----------------------------------------------------------------------------
\* What the goroutine of a slot does next.
Step(p) ==
  \/ Insert(p) \/ UpdateInDB(p) \/ ReadAcc(p)
  \/ DeleteInDB(p) \/ ListOthers(p) \/ Srem(p)
  \/ CheckBinding(p) \/ AddBoard(p) \/ Sadd(p)
  \/ ReadChat(p) \/ ReadList(p) \/ SetUser(p)
  \/ Confirm(p) \/ ListAll(p) \/ SyncNext(p) \/ DelUser(p)

Request(p) ==
  \/ \E u \in Users, b \in Boards, t \in SubTypes, v \in Values : StartCreate(p, u, b, t, v)
  \/ \E r \in rows, b \in Boards, t \in SubTypes, v \in Values, on \in BOOLEAN :
       StartUpdate(p, r, b, t, v, on)
  \/ \E r \in rows : StartDelete(p, r)
  \/ \E u \in Users, c \in Chats : StartBind(p, u, c)
  \/ \E u \in Users : AdminDelete(p, u)

Settings ==
  \/ \E u \in Users : Unbind(u)
  \/ \E u \in Users, on \in BOOLEAN : AdminUpdate(u, on)

Failure == Restart \/ \E p \in Procs : Abort(p)

\* Every account is deleted and nothing is in flight.
Empty ==
  /\ \A u \in Users : acct[u] = "gone"
  /\ \A p \in Procs : pc[p] = "idle"
  /\ UNCHANGED vars

Next ==
  \/ \E p \in Procs : Step(p) \/ Request(p)
  \/ Settings
  \/ Failure
  \/ Empty

Spec == Init /\ [][Next]_vars

\* A goroutine that can run does.
Fairness == \A p \in Procs : WF_vars(Step(p))
FairSpec == Spec /\ Fairness

-----------------------------------------------------------------------------
(***************************************************************************)
(* Properties                                                              *)
(***************************************************************************)
\* What the user asked for, and what the checkers would alert him to: they
\* look up the subscriber set of a board and then the data of each account.
Wanted(u) == {Entry(r) : r \in {q \in RowsOf(u) : q.on}}
Listed(u) == {e \in Keys \X Values :
                /\ u \in members[e[1]]
                /\ udata[u] # NoData
                /\ <<e[1][1], e[1][2], e[2]>> \in udata[u].subs}
ListedEntries(u) == {<<e[1][1], e[1][2], e[2]>> : e \in Listed(u)}

Covered(r) ==
  \/ r.user \in members[Key(r)]
  \/ \E p \in Procs : r.user \in job[p].user /\ Key(r) \in Pending(p)
  \/ <<r.user, Key(r)>> \in torn

\* The subscriber set of a subscription of a bound user holds him, or a sync in
\* flight is going to add him, or a stale SREM or a failure took him out: no
\* other interleaving of requests and syncs loses a subscriber.
CoverInv == \A r \in rows : chat[r.user] # NoChat => Covered(r)

\* The boards scanned for a type: the push-count checker has a set of its own,
\* "pushsum:boards", which no job that runs and no request ever adds to.
ScannedFor(t) == IF t = "pushsum" THEN {} ELSE scanned

\* A board with keyword or author subscribers is in the set of boards the
\* checker scans (addToSubscriberSet writes the board first).
ScannedInv ==
  \A k \in Keys : members[k] # {} /\ k[1] # "pushsum" => k[2] \in ScannedFor(k[1])

\* The data of a user say what he wants, of several push counts of a board one; he
\* has none if he wants nothing and never did.
Current(u) ==
  IF udata[u] = NoData THEN RowsOf(u) = {}
  ELSE /\ udata[u].chat = chat[u]
       /\ udata[u].subs \subseteq Wanted(u)
       /\ \A e \in Wanted(u) : \E d \in udata[u].subs :
            d = e \/ (e[1] = "pushsum" /\ d[1] = e[1] /\ d[2] = e[2])

\* A slot is going to write them, and has not read what is no longer so.
WillSet(p, u) ==
  /\ u \in job[p].user
  /\ \/ pc[p] \in ToSet \ {"next", "list", "set"} \/ job[p].todo # {}
     \/ pc[p] = "list" /\ job[p].chat = chat[u]
     \/ pc[p] = "set" /\ job[p].chat = chat[u] /\ job[p].list = RowsOf(u)

\* The data of a bound user say what he is to be alerted to, and where, or a sync in
\* flight is going to write them, or the last SET was out of date, or a failure or a
\* binding without rows left them: no other interleaving leaves them wrong.
DataInv ==
  \A u \in Users : chat[u] # NoChat =>
    Current(u) \/ u \in behind \/ \E p \in Procs : WillSet(p, u)

\* A bound user who waits for each request to be synced, and has none in flight, is in
\* the subscriber set of each of his subscriptions, whatever administrators do.
NoLostMember ==
  \A u \in Users : Quiescent(u) /\ chat[u] # NoChat =>
    \A r \in RowsOf(u) : u \in members[Key(r)]

\* A deleted account has no data in Redis, or the DEL is still to come, unless a sync
\* was past its look at the binding when the account was deleted, or the DEL failed.
DeletedForGood ==
  \A u \in Users : acct[u] = "gone" =>
    \/ udata[u] = NoData
    \/ \E p \in Procs : pc[p] = "del" /\ u \in job[p].user
    \/ u \in stale

\* Again and again, all that a bound user wants he is alerted to: no wish waits for
\* ever, unless he changes his mind or his binding, or has two push counts of a board.
EventuallyListed ==
  \A u \in Users : []<>(chat[u] = NoChat \/ Wanted(u) \subseteq ListedEntries(u))

=============================================================================
