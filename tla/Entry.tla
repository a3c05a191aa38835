------------------------------- MODULE Entry -------------------------------
(***************************************************************************)
(* The way into the game: a client asks the auth server (AuthManager.cpp)  *)
(* for a lobby, whose one database worker looks the account up and then    *)
(* scans Redis for the lobby with the most room.  The lobbies              *)
(* (LobbyManager.cpp) publish their room there when they start, and at     *)
(* every log-in.                                                           *)
(*                                                                         *)
(* A Redis command is atomic, but the scan is many commands: SCAN answers  *)
(* page by page, then HGETALL reads each key of the page, and the lobbies  *)
(* publish in between.  A port is named by the lobby that listens on it,   *)
(* a key "Lobby:<name>" by its lobby or by Shared.  The account procedure  *)
(* is one step here; AccountDatabase has its statements.                   *)
(***************************************************************************)
EXTENDS Integers, Sequences

CONSTANTS Lobbies,    \* the lobby servers, with a ServerName and a StartPort each
          Shared,     \* the key "Lobby:asd", under which every lobby publishes a log-in
          NoLobby,    \* port -1
          NoRecord,   \* what HGETALL finds of a key that was never set
          Clients,    \* sockets connected to the auth server
          Capacity,   \* Capacity[l]: ClientCapacity of lobby l
          MaxSize,    \* bound: log-ins that lobby l holds; nothing enforces ClientCapacity
          QueueMax,   \* tasks that fit in the worker's queue
          MaxPages,   \* bound: SCAN calls that one scan needs
          Faults      \* whether processes, procedures and Redis may fail

Keys == Lobbies \cup {Shared}

ASSUME EntryAssumption ==
  /\ Shared \notin Lobbies /\ NoLobby \notin Lobbies
  /\ Capacity \in [Lobbies -> Nat \ {0}]
  /\ MaxSize \in [Lobbies -> Nat \ {0}]
  /\ QueueMax \in Nat \ {0} /\ MaxPages \in Nat \ {0}
  /\ Faults \in BOOLEAN

\* The fields "port" and "capacity" of a hash; "connected" is always 1.
Records == [lobby : Lobbies, capacity : Int]

ASSUME NoRecordAssumption == NoRecord \notin Records

VARIABLES
  redis,    \* redis[k]: the hash at key k
  lobby,    \* lobby[l]: what the process of lobby l is doing, and its log-ins
  tasks,    \* _taskQueue of the auth server's worker: the clients to answer
  auth,     \* the worker, with the locals of CheckLobbyServerState
  client,   \* client[c]: what client c has asked and heard
  alive,    \* the auth server's connection to Redis; hiredis never makes a new one
  low       \* history: the least capacity that key k had since the scan began,
            \* while no reply was missing

vars == <<redis, lobby, tasks, auth, client, alive, low>>
lobbyVars == <<redis, lobby>>

LobbyStates  == [step : {"down", "running", "publish"}, size : Nat, remain : Int]
ClientStates == {"away", "asked", "unheard", "port", "empty"}

Down == [step |-> "down", size |-> 0, remain |-> 0]

\* more is "cursor # 0", must the keys SCAN still owes, page the keys still to
\* read; best and remain are currentTargetLobbyPort and targetLobbyServerRemain.
AuthIdle == [step |-> "idle"]
Scans == [step : {"scan", "read", "respond"}, client : Clients, more : BOOLEAN,
          calls : 0 .. MaxPages, must : SUBSET Keys, page : SUBSET Keys,
          best : Lobbies \cup {NoLobby}, remain : Nat]

\* Values stay in their types: the room found is never negative, the queue
\* never longer than its buffer, a scan never without its client.
TypeOK ==
  /\ redis \in [Keys -> {NoRecord} \cup Records]
  /\ lobby \in [Lobbies -> LobbyStates]
  /\ tasks \in Seq(Clients) /\ Len(tasks) <= QueueMax
  /\ auth \in {AuthIdle} \cup Scans
  /\ client \in [Clients -> ClientStates]
  /\ alive \in BOOLEAN
  /\ low \in [Keys -> Nat]

NoHistory == [k \in Keys |-> 0]

Init ==
  /\ redis = [k \in Keys |-> NoRecord]
  /\ lobby = [l \in Lobbies |-> Down]
  /\ tasks = <<>>
  /\ auth = AuthIdle
  /\ client = [c \in Clients |-> "away"]
  /\ alive = TRUE
  /\ low = NoHistory

At(step) == auth.step = step

Room(l) == Capacity[l] - lobby[l].size

AtLeastZero(n) == IF n < 0 THEN 0 ELSE n

\* The capacity that a scan may count on at key k.
Offered(k) == IF redis[k] = NoRecord THEN 0 ELSE AtLeastZero(redis[k].capacity)

-----------------------------------------------------------------------------
(* The lobby servers *)

\* HMSET writes all fields at once; a failure is only logged.
Publish(k, record) ==
  \/ /\ redis' = [redis EXCEPT ![k] = record]
     /\ low' = [low EXCEPT ![k] = IF @ > AtLeastZero(record.capacity)
                                  THEN AtLeastZero(record.capacity) ELSE @]
  \/ Faults /\ UNCHANGED <<redis, low>>

\* MainProcess publishes under the lobby's own name, once.
Start(l) ==
  /\ lobby[l].step = "down"
  /\ lobby' = [lobby EXCEPT ![l].step = "running"]
  /\ Publish(l, [lobby |-> l, capacity |-> Capacity[l]])

\* UserLogIn's result computes the room without the new log-in ...
LogIn(l) ==
  /\ lobby[l].step = "running"
  /\ lobby[l].size < MaxSize[l]
  /\ lobby' = [lobby EXCEPT ![l].step = "publish", ![l].remain = Room(l)]
  /\ UNCHANGED <<redis, low>>

\* ... publishes it under the name "asd", and records the log-in: nobody but this
\* worker counts them.
RecordLogIn(l) ==
  /\ lobby[l].step = "publish"
  /\ lobby' = [lobby EXCEPT ![l] = [step |-> "running", size |-> @.size + 1, remain |-> 0]]
  /\ Publish(Shared, [lobby |-> l, capacity |-> lobby[l].remain])

\* ProcessDisconnect, on a session thread, publishes nothing.
ProcessDisconnect(l) ==
  /\ lobby[l].size > 0
  /\ lobby' = [lobby EXCEPT ![l].size = @ - 1]
  /\ UNCHANGED <<redis, low>>

\* A lobby that ends leaves its hash behind: nothing sets connected to 0.
Stop(l) ==
  /\ Faults
  /\ lobby[l].step # "down"
  /\ lobby' = [lobby EXCEPT ![l] = Down]
  /\ UNCHANGED <<redis, low>>

Lobby(l) ==
  /\ \/ Start(l)
     \/ LogIn(l)
     \/ RecordLogIn(l)
     \/ ProcessDisconnect(l)
     \/ Stop(l)
  /\ UNCHANGED <<tasks, auth, client, alive>>

-----------------------------------------------------------------------------
(* Clients *)

\* A slip of Enqueue: push() never looks whether the queue is full.
EnqueueUnbounded(c) ==
  /\ tasks' = Append(tasks, c)
  /\ client' = [client EXCEPT ![c] = "asked"]

\* push() answers FALSE when the queue is full, and nobody looks at the answer; a push
\* that another session thread overlaps may lose the task as well (CircleQueue).
Enqueue(c) ==
  \/ /\ Len(tasks) < QueueMax
     /\ tasks' = Append(tasks, c)
     /\ client' = [client EXCEPT ![c] = "asked"]
  \/ /\ client' = [client EXCEPT ![c] = "unheard"]
     /\ UNCHANGED tasks

\* ReadMessage of a REQUEST_CONNECT.
RequestConnect(c) ==
  /\ client[c] = "away"
  /\ Enqueue(c)
  /\ UNCHANGED <<lobbyVars, auth, alive, low>>

\* The client goes; its socket is used by the next one, and a task that is
\* still queued for it answers that one.
Leave(c) ==
  /\ client[c] # "away"
  /\ client' = [client EXCEPT ![c] = "away"]
  /\ UNCHANGED <<lobbyVars, tasks, auth, alive, low>>

-----------------------------------------------------------------------------
(* The auth server's database worker *)

\* A procedure that fails calls nobody back.
AccountCheckFails ==
  /\ Faults
  /\ At("idle") /\ tasks # <<>>
  /\ tasks' = Tail(tasks)
  /\ client' = [client EXCEPT ![Head(tasks)] = IF @ = "asked" THEN "unheard" ELSE @]
  /\ UNCHANGED <<lobbyVars, auth, alive, low>>

\* CheckAndAddAccount answers, DatabaseCallback makes the token, and the scan
\* begins: SCAN has to return every key that is there from now on.
AccountChecked ==
  /\ At("idle") /\ tasks # <<>>
  /\ tasks' = Tail(tasks)
  /\ auth' = [step |-> "scan", client |-> Head(tasks), more |-> FALSE, calls |-> 0,
              must |-> {k \in Keys : redis[k] # NoRecord}, page |-> {},
              best |-> NoLobby, remain |-> 0]
  /\ low' = [k \in Keys |-> Offered(k)]
  /\ UNCHANGED <<lobbyVars, client, alive>>

\* A slip of PageEnd: the first page is taken for the whole scan.
PageEndStops(a) == [a EXCEPT !.step = IF a.page # {} THEN "read" ELSE "respond"]

\* while (cursor != 0)
PageEnd(a) ==
  IF a.page # {} THEN [a EXCEPT !.step = "read"]
  ELSE [a EXCEPT !.step = IF a.more THEN "scan" ELSE "respond"]

\* One SCAN: any keys that exist, some perhaps a second time; the cursor comes
\* back as 0 only when no key that was there all the time is owed.
Scan ==
  /\ At("scan") /\ alive
  /\ auth.calls < MaxPages
  /\ \E page \in SUBSET {k \in Keys : redis[k] # NoRecord}, more \in BOOLEAN :
       /\ auth.must \subseteq page \/ more
       /\ more => auth.calls + 1 < MaxPages
       /\ auth' = PageEnd([auth EXCEPT !.page = page, !.must = @ \ page, !.more = more,
                                       !.calls = @ + 1])
  /\ UNCHANGED <<lobbyVars, tasks, client, alive, low>>

\* A slip of ScanFails: it waits for Redis to come back.
ScanFailsRepeats ==
  /\ At("scan") /\ Faults /\ alive
  /\ ~ auth.more
  /\ auth' = [auth EXCEPT !.step = "respond"]
  /\ low' = NoHistory
  /\ UNCHANGED <<lobbyVars, tasks, client, alive>>

\* "continue" goes to the test of the cursor: a first SCAN that fails ends the
\* scan, a later one is repeated, for ever when the connection is lost.
ScanFails ==
  /\ At("scan") /\ (~ alive \/ Faults)
  /\ ~ auth.more
  /\ auth' = [auth EXCEPT !.step = "respond"]
  /\ low' = NoHistory
  /\ UNCHANGED <<lobbyVars, tasks, client, alive>>

\* A lobby with more room than the best so far.
Better(record) == record.capacity > auth.remain

\* A slip of Take: the best room, with the port found first.
TakeRoomOnly(record) ==
  IF Better(record) THEN [auth EXCEPT !.best = IF @ = NoLobby THEN record.lobby ELSE @,
                                      !.remain = record.capacity]
  ELSE auth

Take(record) ==
  IF Better(record) THEN [auth EXCEPT !.best = record.lobby, !.remain = record.capacity]
  ELSE auth

\* One HGETALL.
ReadKey ==
  /\ At("read") /\ alive
  /\ \E k \in auth.page :
       auth' = PageEnd([Take(redis[k]) EXCEPT !.page = @ \ {k}])
  /\ UNCHANGED <<lobbyVars, tasks, client, alive, low>>

\* A key whose HGETALL fails is passed over.
ReadKeyFails ==
  /\ At("read") /\ (~ alive \/ Faults)
  /\ \E k \in auth.page :
       auth' = PageEnd([auth EXCEPT !.page = @ \ {k}])
  /\ low' = NoHistory
  /\ UNCHANGED <<lobbyVars, tasks, client, alive>>

\* DatabaseCallback sends the port, or an empty body when there is none.
Respond ==
  /\ At("respond")
  /\ client' = [client EXCEPT ![auth.client] =
                  IF @ \notin {"asked", "unheard"} THEN @
                  ELSE IF auth.best = NoLobby THEN "empty" ELSE "port"]
  /\ auth' = AuthIdle
  /\ low' = NoHistory
  /\ UNCHANGED <<lobbyVars, tasks, alive>>

Worker ==
  \/ AccountCheckFails
  \/ AccountChecked
  \/ Scan
  \/ ScanFails
  \/ ReadKey
  \/ ReadKeyFails
  \/ Respond

\* Redis, or the connection to it, goes away.
RedisLost ==
  /\ Faults /\ alive
  /\ alive' = FALSE
  /\ UNCHANGED <<lobbyVars, tasks, auth, client, low>>

Next ==
  \/ \E l \in Lobbies : Lobby(l)
  \/ \E c \in Clients : RequestConnect(c) \/ Leave(c)
  \/ Worker
  \/ RedisLost

Spec == Init /\ [][Next]_vars

\* The worker is a thread that runs; lobbies and clients owe nothing.
FairSpec == Spec /\ WF_vars(Worker)

-----------------------------------------------------------------------------
(* Properties *)

\* CheckLobbyServerState goes through Redis page by page while the lobbies
\* publish.  If no reply is missing, the room it answers with is at least what
\* every lobby offered throughout the scan; in particular it finds a lobby
\* whenever one had room all the time.
BestOfScan == At("respond") => \A k \in Keys : low[k] <= auth.remain

\* The port and the room found belong together, although log-ins of all lobbies
\* overwrite each other under one key: a lobby is chosen exactly when room was
\* found, and never for more room than it has in all.
PortHasRoom ==
  ~ At("idle") =>
    /\ auth.best = NoLobby <=> auth.remain = 0
    /\ auth.best # NoLobby => auth.remain <= Capacity[auth.best]

\* The worker repeats a SCAN without a connection, for ever.
Stuck == At("scan") /\ auth.more /\ ~ alive

\* Every client that asks is answered, with a port or with an empty body, unless
\* it leaves, its task was dropped by a full queue or lost to a push that overlapped,
\* its procedure failed, or the worker lost Redis between two pages of a scan.
Answered == \A c \in Clients : client[c] = "asked" ~> (client[c] # "asked" \/ Stuck)
=============================================================================
