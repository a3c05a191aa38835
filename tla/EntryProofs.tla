---------------------------- MODULE EntryProofs ----------------------------
(***************************************************************************)
(* The scan of Entry finds the best room that was there all the time: for  *)
(* any number of lobbies and clients, any capacities, and with every       *)
(* failure.                                                                *)
(*                                                                         *)
(* A key that offers more than the scan has found is one that SCAN still   *)
(* owes or that is on the page being read (Owed); what a lobby publishes   *)
(* meanwhile only lowers what the scan may count on (LowHeld).             *)
(***************************************************************************)
EXTENDS Entry, TLAPS

\* What the scan may count on is there.
LowHeld == \A k \in Keys : low[k] > 0 => /\ redis[k] # NoRecord
                                         /\ low[k] <= redis[k].capacity

\* No key offers more room than its lobby has in all.
Published ==
  /\ \A k \in Keys : redis[k] # NoRecord => redis[k].capacity <= Capacity[redis[k].lobby]
  /\ \A l \in Lobbies : lobby[l].remain <= Capacity[l]

\* The keys that offer more than was found are still to come.
Owed == ~ At("idle") => \A k \in Keys : low[k] > auth.remain => k \in auth.must \cup auth.page

\* What is still to come, step by step.
Pages ==
  /\ ~ At("idle") => \A k \in auth.page : redis[k] # NoRecord
  /\ At("scan") => auth.page = {}
  /\ At("read") => auth.more \/ auth.must = {}
  /\ At("respond") => auth.page = {} /\ (auth.must = {} \/ low = NoHistory)

IInv == TypeOK /\ LowHeld /\ Published /\ Owed /\ Pages /\ PortHasRoom

LEMMA KeysAreNamed == Shared \in Keys /\ \A l \in Lobbies : l \in Keys /\ l # NoLobby
BY EntryAssumption DEF Keys

LEMMA InitIInv == Init => IInv
BY EntryAssumption DEF Init, IInv, TypeOK, LowHeld, Published, Owed, Pages, PortHasRoom, At,
   NoHistory, LobbyStates, Down, ClientStates, AuthIdle

-----------------------------------------------------------------------------
(* The lobbies *)

\* A step that leaves the worker and Redis alone.
LEMMA ElsewhereInv ==
  ASSUME IInv, TypeOK', UNCHANGED <<redis, auth, low>>,
         \A l \in Lobbies : lobby'[l].remain <= Capacity[l]
  PROVE  IInv'
BY DEF IInv, LowHeld, Published, Owed, Pages, PortHasRoom, At

\* What is published only lowers what the scan may count on.
LEMMA PublishInv ==
  ASSUME IInv, UNCHANGED <<tasks, auth, client, alive>>,
         NEW k \in Keys, NEW record \in Records,
         record.capacity <= Capacity[record.lobby],
         Publish(k, record),
         lobby' \in [Lobbies -> LobbyStates],
         \A l \in Lobbies : lobby'[l].remain <= Capacity[l]
  PROVE  IInv'
<1>1. CASE UNCHANGED <<redis, low>>
  BY <1>1, ElsewhereInv DEF IInv, TypeOK
<1>2. CASE /\ redis' = [redis EXCEPT ![k] = record]
           /\ low' = [low EXCEPT ![k] = IF @ > AtLeastZero(record.capacity)
                                        THEN AtLeastZero(record.capacity) ELSE @]
  <2> record.capacity \in Int
    BY DEF Records
  <2> record # NoRecord
    BY NoRecordAssumption
  <2> redis \in [Keys -> {NoRecord} \cup Records] /\ low \in [Keys -> Nat]
    BY DEF IInv, TypeOK
  <2> DEFINE room == AtLeastZero(record.capacity)
  <2>a. room \in Nat /\ room >= record.capacity /\ (room > 0 => room = record.capacity)
    BY DEF AtLeastZero
  <2>b. low' = [low EXCEPT ![k] = IF low[k] > room THEN room ELSE low[k]]
    BY <1>2
  <2> HIDE DEF room
  <2>c. \A j \in Keys : j # k => low'[j] = low[j] /\ redis'[j] = redis[j]
    BY <1>2, <2>b
  <2>d. redis'[k] = record /\ low'[k] <= room /\ low'[k] <= low[k] /\ low'[k] \in Nat
    BY <1>2, <2>a, <2>b
  <2>e. \A j \in Keys : low'[j] \in Nat /\ low[j] \in Nat /\ low'[j] <= low[j]
    BY <2>b, <2>c, <2>d
  <2>1. LowHeld'
    BY <2>a, <2>c, <2>d DEF IInv, LowHeld
  <2>2. Published'
    BY <2>c, <2>d DEF IInv, Published
  <2>3. Owed'
    <3> SUFFICES ASSUME ~ At("idle"), NEW j \in Keys, low'[j] > auth.remain
                 PROVE  j \in auth.must \cup auth.page
      BY DEF Owed, At
    <3> auth \in Scans
      BY DEF IInv, TypeOK, At, AuthIdle
    <3> auth.remain \in Nat
      BY DEF Scans
    <3> low[j] > auth.remain
      BY <2>e
    <3> QED BY DEF IInv, Owed
  <2>4. Pages'
    <3>1. low = NoHistory => low' = NoHistory
      BY <2>b, <2>e DEF NoHistory
    <3>2. \A j \in Keys : redis[j] # NoRecord => redis'[j] # NoRecord
      BY <2>c, <2>d
    <3>3. ~ At("idle") => auth.page \subseteq Keys
      BY DEF IInv, TypeOK, At, AuthIdle, Scans
    <3> QED BY <3>1, <3>2, <3>3 DEF IInv, Pages, At
  <2>5. PortHasRoom'
    BY DEF IInv, PortHasRoom, At
  <2>6. TypeOK'
    <3> low' \in [Keys -> Nat] /\ redis' \in [Keys -> {NoRecord} \cup Records]
      BY <1>2, <2>a, <2>b
    <3> QED BY DEF IInv, TypeOK
  <2> QED BY <2>1, <2>2, <2>3, <2>4, <2>5, <2>6 DEF IInv
<1> QED BY <1>1, <1>2 DEF Publish

LEMMA LobbyInv ==
  ASSUME IInv, NEW l \in Lobbies, Lobby(l)
  PROVE  IInv'
<1> USE KeysAreNamed, EntryAssumption
<1> lobby \in [Lobbies -> LobbyStates] /\ Room(l) \in Int /\ lobby[l] \in LobbyStates
  BY DEF IInv, TypeOK, LobbyStates, Room
<1> \A k \in Lobbies : lobby[k].remain <= Capacity[k]
  BY DEF IInv, Published
<1>1. CASE Start(l)
  <2> DEFINE record == [lobby |-> l, capacity |-> Capacity[l]]
  <2>1. record \in Records /\ record.capacity = Capacity[l] /\ record.lobby = l
    BY DEF Records
  <2>2. lobby' \in [Lobbies -> LobbyStates] /\ \A k \in Lobbies : lobby'[k].remain <= Capacity[k]
    BY <1>1 DEF Start, LobbyStates
  <2>3. Publish(l, record)
    BY <1>1 DEF Start
  <2> HIDE DEF record
  <2> QED BY <2>1, <2>2, <2>3, PublishInv DEF Lobby
<1>2. CASE LogIn(l)
  <2>1. lobby' \in [Lobbies -> LobbyStates]
    BY <1>2 DEF LogIn, LobbyStates
  <2>2. Room(l) <= Capacity[l]
    BY DEF Room, LobbyStates
  <2>3. \A k \in Lobbies : lobby'[k].remain <= Capacity[k]
    BY <1>2, <2>2 DEF LogIn, LobbyStates
  <2> QED BY <1>2, <2>1, <2>3, ElsewhereInv DEF LogIn, Lobby, IInv, TypeOK
<1>3. CASE RecordLogIn(l)
  <2> DEFINE record == [lobby |-> l, capacity |-> lobby[l].remain]
  <2>1. record \in Records /\ record.capacity <= Capacity[l] /\ record.lobby = l
    BY DEF Records, LobbyStates
  <2>2. lobby' \in [Lobbies -> LobbyStates] /\ \A k \in Lobbies : lobby'[k].remain <= Capacity[k]
    BY <1>3 DEF RecordLogIn, LobbyStates
  <2>3. Publish(Shared, record)
    BY <1>3 DEF RecordLogIn
  <2> HIDE DEF record
  <2> QED BY <2>1, <2>2, <2>3, PublishInv DEF Lobby
<1>4. CASE ProcessDisconnect(l)
  <2>1. lobby' \in [Lobbies -> LobbyStates] /\ \A k \in Lobbies : lobby'[k].remain <= Capacity[k]
    BY <1>4 DEF ProcessDisconnect, LobbyStates
  <2> QED BY <1>4, <2>1, ElsewhereInv DEF ProcessDisconnect, Lobby, IInv, TypeOK
<1>5. CASE Stop(l)
  <2>1. lobby' \in [Lobbies -> LobbyStates] /\ \A k \in Lobbies : lobby'[k].remain <= Capacity[k]
    BY <1>5 DEF Stop, LobbyStates, Down
  <2> QED BY <1>5, <2>1, ElsewhereInv DEF Stop, Lobby, IInv, TypeOK
<1> QED BY <1>1, <1>2, <1>3, <1>4, <1>5 DEF Lobby

-----------------------------------------------------------------------------
(* Clients, and the loss of Redis *)

LEMMA EnqueueInv ==
  ASSUME IInv, NEW c \in Clients, RequestConnect(c)
  PROVE  IInv'
<1> USE EntryAssumption
<1> tasks \in Seq(Clients) /\ client \in [Clients -> ClientStates]
  BY DEF IInv, TypeOK
<1>1. tasks' \in Seq(Clients) /\ Len(tasks') <= QueueMax
  <2> Len(tasks) \in Nat /\ Len(tasks) <= QueueMax
    BY DEF IInv, TypeOK
  <2>1. Append(tasks, c) \in Seq(Clients) /\ Len(Append(tasks, c)) = Len(tasks) + 1
    OBVIOUS
  <2>2. tasks' = tasks \/ (tasks' = Append(tasks, c) /\ Len(tasks) < QueueMax)
    BY Zenon DEF RequestConnect, Enqueue
  <2>3. CASE tasks' = tasks
    BY <2>3
  <2>4. CASE tasks' = Append(tasks, c) /\ Len(tasks) < QueueMax
    <3>1. Len(tasks) + 1 <= QueueMax
      BY <2>4
    <3> QED BY Zenon, <2>1, <2>4, <3>1
  <2> QED BY Zenon, <2>2, <2>3, <2>4
<1>2. client' \in [Clients -> ClientStates]
  BY DEF RequestConnect, Enqueue, ClientStates
<1>3. TypeOK'
  BY <1>1, <1>2 DEF RequestConnect, lobbyVars, IInv, TypeOK
<1> QED BY <1>3, ElsewhereInv DEF RequestConnect, lobbyVars, IInv, Published

LEMMA LeaveInv ==
  ASSUME IInv, NEW c \in Clients, Leave(c)
  PROVE  IInv'
<1>1. TypeOK'
  BY DEF Leave, lobbyVars, IInv, TypeOK, ClientStates
<1> QED BY <1>1, ElsewhereInv DEF Leave, lobbyVars, IInv, Published

LEMMA RedisLostInv ==
  ASSUME IInv, RedisLost
  PROVE  IInv'
<1>1. TypeOK'
  BY DEF RedisLost, lobbyVars, IInv, TypeOK
<1> QED BY <1>1, ElsewhereInv DEF RedisLost, lobbyVars, IInv, Published

-----------------------------------------------------------------------------
(* The worker *)

\* What a step of a scan has to keep, when nothing is published meanwhile.
LEMMA ScanInv ==
  ASSUME IInv, UNCHANGED <<lobbyVars, tasks, client, alive>>,
         auth' \in Scans,
         low' = low \/ low' = NoHistory,
         \A k \in auth'.page : redis[k] # NoRecord,
         \A k \in Keys : low'[k] > auth'.remain => k \in auth'.must \cup auth'.page,
         auth'.best = NoLobby <=> auth'.remain = 0,
         auth'.best # NoLobby => auth'.remain <= Capacity[auth'.best],
         auth'.step = "scan" => auth'.page = {},
         auth'.step = "read" => auth'.more \/ auth'.must = {},
         auth'.step = "respond" => auth'.page = {} /\ (auth'.must = {} \/ low' = NoHistory)
  PROVE  IInv'
<1> low \in [Keys -> Nat] /\ low' \in [Keys -> Nat]
  BY DEF IInv, TypeOK, NoHistory
<1>1. TypeOK'
  BY DEF lobbyVars, IInv, TypeOK
<1>2. LowHeld'
  BY DEF lobbyVars, IInv, LowHeld, NoHistory
<1>3. Published'
  BY DEF lobbyVars, IInv, Published
<1>4. Owed' /\ PortHasRoom' /\ Pages'
  BY DEF lobbyVars, Owed, PortHasRoom, Pages, At
<1> QED BY <1>1, <1>2, <1>3, <1>4 DEF IInv

\* The end of a page keeps what the page has found.
LEMMA PageEndKeeps ==
  ASSUME NEW a \in Scans
  PROVE  /\ PageEnd(a) \in Scans
         /\ PageEnd(a).page = a.page /\ PageEnd(a).must = a.must /\ PageEnd(a).more = a.more
         /\ PageEnd(a).best = a.best /\ PageEnd(a).remain = a.remain
         /\ PageEnd(a).step \in {"scan", "read", "respond"}
         /\ PageEnd(a).step = "read" => a.page # {}
         /\ PageEnd(a).step = "scan" => a.page = {} /\ a.more
         /\ PageEnd(a).step = "respond" => a.page = {} /\ ~ a.more
BY DEF PageEnd, Scans

LEMMA AccountCheckInv ==
  ASSUME IInv, AccountCheckFails \/ AccountChecked
  PROVE  IInv'
<1> tasks \in Seq(Clients) /\ tasks # <<>> /\ client \in [Clients -> ClientStates]
  BY DEF IInv, TypeOK, AccountCheckFails, AccountChecked
<1>1. Head(tasks) \in Clients /\ tasks' \in Seq(Clients) /\ Len(tasks') <= QueueMax
  <2>1. Head(tasks) \in Clients /\ Tail(tasks) \in Seq(Clients) /\ Len(Tail(tasks)) <= Len(tasks)
    OBVIOUS
  <2>2. Len(tasks) <= QueueMax /\ QueueMax \in Nat
    BY EntryAssumption DEF IInv, TypeOK
  <2>3. tasks' = Tail(tasks)
    BY DEF AccountCheckFails, AccountChecked
  <2> QED BY <2>1, <2>2, <2>3
<1>2. CASE AccountCheckFails
  <2>1. TypeOK'
    BY <1>1, <1>2 DEF AccountCheckFails, lobbyVars, IInv, TypeOK, ClientStates
  <2> QED BY <1>2, <2>1, ElsewhereInv DEF AccountCheckFails, lobbyVars, IInv, Published
<1>3. CASE AccountChecked
  <2> redis \in [Keys -> {NoRecord} \cup Records]
    BY DEF IInv, TypeOK
  <2>1. \A k \in Keys : /\ Offered(k) \in Nat
                        /\ Offered(k) > 0 => redis[k] # NoRecord /\ Offered(k) <= redis[k].capacity
    BY DEF Offered, AtLeastZero, Records
  <2>2. low' = [k \in Keys |-> Offered(k)]
    BY <1>3 DEF AccountChecked
  <2>3. auth' \in Scans /\ auth'.step = "scan" /\ auth'.page = {} /\ auth'.remain = 0
        /\ auth'.best = NoLobby /\ auth'.must = {k \in Keys : redis[k] # NoRecord}
    BY <1>1, <1>3, EntryAssumption DEF AccountChecked, Scans
  <2>4. TypeOK'
    BY <1>1, <1>3, <2>1, <2>2, <2>3 DEF AccountChecked, lobbyVars, IInv, TypeOK
  <2>5. LowHeld'
    BY <1>3, <2>1, <2>2 DEF AccountChecked, lobbyVars, LowHeld
  <2>6. Published'
    BY <1>3 DEF AccountChecked, lobbyVars, IInv, Published
  <2>7. Owed' /\ Pages' /\ PortHasRoom'
    BY <1>3, <2>1, <2>2, <2>3 DEF AccountChecked, lobbyVars, Owed, Pages, PortHasRoom, At
  <2> QED BY <2>4, <2>5, <2>6, <2>7 DEF IInv
<1> QED BY <1>2, <1>3

LEMMA ScanStepInv ==
  ASSUME IInv, Scan
  PROVE  IInv'
<1> auth \in Scans /\ auth.page = {}
  BY DEF IInv, TypeOK, Pages, Scan, At, AuthIdle
<1> PICK page \in SUBSET {k \in Keys : redis[k] # NoRecord}, more \in BOOLEAN :
       /\ auth.must \subseteq page \/ more
       /\ auth' = PageEnd([auth EXCEPT !.page = page, !.must = @ \ page, !.more = more,
                                       !.calls = @ + 1])
  BY DEF Scan
<1> DEFINE a == [auth EXCEPT !.page = page, !.must = auth.must \ page, !.more = more,
                             !.calls = auth.calls + 1]
<1>1. auth.calls < MaxPages
  BY DEF Scan
<1>2. a \in Scans /\ a.page = page /\ a.must = auth.must \ page /\ a.more = more
      /\ a.best = auth.best /\ a.remain = auth.remain
  <2>1. auth.calls + 1 \in 0 .. MaxPages
    BY <1>1, EntryAssumption DEF Scans
  <2>2. auth.must \ page \in SUBSET Keys /\ page \in SUBSET Keys
    BY DEF Scans
  <2>3. \A S, T : [auth EXCEPT !.page = S, !.must = T] \in
                  [step : {"scan", "read", "respond"}, client : Clients, more : BOOLEAN,
                   calls : 0 .. MaxPages, must : {T}, page : {S},
                   best : Lobbies \cup {NoLobby}, remain : Nat]
    BY DEF Scans
  <2>4. a = [[auth EXCEPT !.page = page, !.must = auth.must \ page]
               EXCEPT !.more = more, !.calls = auth.calls + 1]
    BY DEF Scans
  <2> QED BY <2>1, <2>2, <2>3, <2>4 DEF Scans
<1>3. auth' = PageEnd(a)
  OBVIOUS
<1> HIDE DEF a
<1>4. ~ At("idle")
  BY DEF Scan, At
<1>5. \A k \in Keys : low[k] > auth.remain => k \in auth.must
  BY <1>4 DEF IInv, Owed
<1>6. /\ auth.best = NoLobby <=> auth.remain = 0
      /\ auth.best # NoLobby => auth.remain <= Capacity[auth.best]
  BY <1>4 DEF IInv, PortHasRoom
<1>7. UNCHANGED <<lobbyVars, tasks, client, alive, low>>
  BY DEF Scan
<1> QED BY <1>2, <1>3, <1>5, <1>6, <1>7, PageEndKeeps, ScanInv

LEMMA ScanFailsInv ==
  ASSUME IInv, ScanFails
  PROVE  IInv'
<1> auth \in Scans /\ auth.page = {} /\ ~ At("idle")
  BY DEF IInv, TypeOK, Pages, ScanFails, At, AuthIdle
<1>1. auth' \in Scans /\ auth'.step = "respond" /\ auth'.page = {} /\ auth'.best = auth.best
      /\ auth'.remain = auth.remain
  BY DEF ScanFails, Scans
<1>2. \A k \in Keys : ~ low'[k] > auth'.remain
  BY <1>1 DEF ScanFails, NoHistory, Scans
<1>3. /\ auth.best = NoLobby <=> auth.remain = 0
      /\ auth.best # NoLobby => auth.remain <= Capacity[auth.best]
  BY DEF IInv, PortHasRoom
<1>4. UNCHANGED <<lobbyVars, tasks, client, alive>> /\ low' = NoHistory
  BY DEF ScanFails
<1> QED BY <1>1, <1>2, <1>3, <1>4, ScanInv

LEMMA ReadKeyInv ==
  ASSUME IInv, ReadKey
  PROVE  IInv'
<1> auth \in Scans /\ ~ At("idle")
  BY DEF IInv, TypeOK, ReadKey, At, AuthIdle
<1> PICK k \in auth.page : auth' = PageEnd([Take(redis[k]) EXCEPT !.page = @ \ {k}])
  BY DEF ReadKey
<1> k \in Keys /\ redis[k] \in Records
  BY DEF Scans, IInv, TypeOK, Pages
<1>1. redis[k].lobby \in Lobbies /\ redis[k].capacity \in Int
      /\ redis[k].capacity <= Capacity[redis[k].lobby]
  BY NoRecordAssumption DEF Records, IInv, Published
<1> DEFINE t == Take(redis[k])
           a == [t EXCEPT !.page = t.page \ {k}]
<1>2. t \in Scans /\ t.page = auth.page /\ t.must = auth.must /\ t.more = auth.more
      /\ t.remain >= auth.remain /\ t.remain >= redis[k].capacity
  <2>1. CASE ~ Better(redis[k])
    BY <1>1, <2>1 DEF Take, Better, Scans
  <2>2. CASE Better(redis[k])
    <3>1. redis[k].capacity > auth.remain /\ auth.remain \in Nat
      BY <2>2 DEF Better, Scans
    <3>2. t = [auth EXCEPT !.best = redis[k].lobby, !.remain = redis[k].capacity]
      BY <2>2 DEF Take
    <3>3. redis[k].capacity \in Nat
      BY <1>1, <3>1
    <3>4. redis[k].lobby \in Lobbies \cup {NoLobby}
      BY <1>1
    <3>5. t = [step |-> auth.step, client |-> auth.client, more |-> auth.more,
               calls |-> auth.calls, must |-> auth.must, page |-> auth.page,
               best |-> redis[k].lobby, remain |-> redis[k].capacity]
      BY <3>2 DEF Scans
    <3> QED BY <3>1, <3>3, <3>4, <3>5 DEF Scans
  <2> QED BY <2>1, <2>2
<1>3. /\ t.best = NoLobby <=> t.remain = 0
      /\ t.best # NoLobby => t.remain <= Capacity[t.best]
  <2>1. /\ auth.best = NoLobby <=> auth.remain = 0
        /\ auth.best # NoLobby => auth.remain <= Capacity[auth.best]
    BY DEF IInv, PortHasRoom
  <2> QED BY <1>1, <2>1, KeysAreNamed DEF Take, Better, Scans
<1> HIDE DEF t
<1>4. a \in Scans /\ a.page = auth.page \ {k} /\ a.must = auth.must /\ a.more = auth.more
      /\ a.remain = t.remain /\ a.best = t.best
  BY <1>2 DEF Scans
<1>5. auth' = PageEnd(a)
  BY DEF t
<1> HIDE DEF a
<1>6. UNCHANGED <<lobbyVars, tasks, client, alive, low>>
  BY DEF ReadKey
<1>7. \A j \in Keys : low[j] > t.remain => j \in auth.must \cup (auth.page \ {k})
  <2> SUFFICES ASSUME NEW j \in Keys, low[j] > t.remain
               PROVE  j \in auth.must \cup (auth.page \ {k})
    OBVIOUS
  <2> low[j] \in Nat /\ t.remain \in Nat /\ auth.remain \in Nat
    BY <1>2 DEF IInv, TypeOK, Scans
  <2>1. j # k
    BY <1>1, <1>2 DEF IInv, LowHeld
  <2>2. low[j] > auth.remain
    BY <1>2
  <2> QED BY <2>1, <2>2 DEF IInv, Owed
<1>8. auth.more \/ auth.must = {}
  BY DEF IInv, Pages, ReadKey
<1>9. \A j \in auth.page : redis[j] # NoRecord
  BY DEF IInv, Pages
<1>10. /\ auth' \in Scans
       /\ auth'.page = auth.page \ {k} /\ auth'.must = auth.must /\ auth'.more = auth.more
       /\ auth'.remain = t.remain /\ auth'.best = t.best
       /\ auth'.step = "scan" => auth'.page = {}
       /\ auth'.step = "respond" => auth'.page = {} /\ ~ auth.more
  <2>1. /\ auth' \in Scans
        /\ auth'.page = a.page /\ auth'.must = a.must /\ auth'.more = a.more
        /\ auth'.remain = a.remain /\ auth'.best = a.best
        /\ auth'.step = "scan" => a.page = {}
        /\ auth'.step = "respond" => a.page = {} /\ ~ a.more
    BY <1>4, <1>5, PageEndKeeps
  <2> QED BY <1>4, <2>1
<1> QED BY <1>3, <1>6, <1>7, <1>8, <1>9, <1>10, ScanInv

LEMMA ReadKeyFailsInv ==
  ASSUME IInv, ReadKeyFails
  PROVE  IInv'
<1> auth \in Scans /\ ~ At("idle")
  BY DEF IInv, TypeOK, ReadKeyFails, At, AuthIdle
<1> PICK k \in auth.page : auth' = PageEnd([auth EXCEPT !.page = @ \ {k}])
  BY DEF ReadKeyFails
<1> DEFINE a == [auth EXCEPT !.page = auth.page \ {k}]
<1>1. a \in Scans /\ a.page = auth.page \ {k} /\ a.must = auth.must /\ a.more = auth.more
      /\ a.remain = auth.remain /\ a.best = auth.best
  BY DEF Scans
<1>2. auth' = PageEnd(a)
  OBVIOUS
<1> HIDE DEF a
<1>3. UNCHANGED <<lobbyVars, tasks, client, alive>> /\ low' = NoHistory
  BY DEF ReadKeyFails
<1>4. \A j \in Keys : ~ low'[j] > auth.remain
  BY <1>3 DEF NoHistory, Scans
<1>5. auth.more \/ auth.must = {}
  BY DEF IInv, Pages, ReadKeyFails
<1>6. \A j \in auth.page : redis[j] # NoRecord
  BY DEF IInv, Pages
<1>7. /\ auth.best = NoLobby <=> auth.remain = 0
      /\ auth.best # NoLobby => auth.remain <= Capacity[auth.best]
  BY DEF IInv, PortHasRoom
<1>8. /\ auth' \in Scans
      /\ auth'.page = auth.page \ {k} /\ auth'.must = auth.must /\ auth'.more = auth.more
      /\ auth'.remain = auth.remain /\ auth'.best = auth.best
      /\ auth'.step = "scan" => auth'.page = {}
      /\ auth'.step = "respond" => auth'.page = {}
  BY <1>1, <1>2, PageEndKeeps
<1> QED BY <1>3, <1>4, <1>5, <1>6, <1>7, <1>8, ScanInv

LEMMA RespondInv ==
  ASSUME IInv, Respond
  PROVE  IInv'
<1> auth' = AuthIdle /\ auth'.step = "idle" /\ low' = NoHistory
  BY DEF Respond, AuthIdle
<1>1. TypeOK'
  <2>1. NoHistory \in [Keys -> Nat]
    BY DEF NoHistory
  <2>2. client' \in [Clients -> ClientStates]
    BY DEF Respond, IInv, TypeOK, ClientStates
  <2> QED BY <2>1, <2>2 DEF Respond, lobbyVars, IInv, TypeOK
<1>2. LowHeld' /\ Published'
  BY DEF Respond, lobbyVars, IInv, LowHeld, Published, NoHistory
<1>3. Owed' /\ Pages' /\ PortHasRoom'
  BY DEF Owed, Pages, PortHasRoom, At
<1> QED BY <1>1, <1>2, <1>3 DEF IInv

-----------------------------------------------------------------------------
(* The theorems *)

LEMMA NextIInv == IInv /\ [Next]_vars => IInv'
<1> SUFFICES ASSUME IInv, [Next]_vars
             PROVE  IInv'
  OBVIOUS
<1>1. CASE \E l \in Lobbies : Lobby(l)
  BY <1>1, LobbyInv
<1>2. CASE \E c \in Clients : RequestConnect(c) \/ Leave(c)
  BY <1>2, EnqueueInv, LeaveInv
<1>3. CASE Worker
  BY <1>3, AccountCheckInv, ScanStepInv, ScanFailsInv, ReadKeyInv, ReadKeyFailsInv, RespondInv
     DEF Worker
<1>4. CASE RedisLost
  BY <1>4, RedisLostInv
<1>5. CASE UNCHANGED vars
  BY <1>5, ElsewhereInv DEF vars, IInv, TypeOK, Published
<1> QED BY <1>1, <1>2, <1>3, <1>4, <1>5 DEF Next

\* The inductive invariant holds in every state, for all values of the constants.
THEOREM IInvCorrect == Spec => []IInv
<1>1. Init => IInv
  BY InitIInv
<1>2. IInv /\ [Next]_vars => IInv'
  BY NextIInv
<1> QED BY <1>1, <1>2, PTL DEF Spec

\* Every value stays in its type; the auth server's queue does not overflow.
THEOREM TypeCorrect == Spec => []TypeOK
<1>1. IInv => TypeOK
  BY DEF IInv
<1> QED BY <1>1, IInvCorrect, PTL

\* The port and the room that the scan has found belong to one lobby.
THEOREM PortHasRoomCorrect == Spec => []PortHasRoom
<1>1. IInv => PortHasRoom
  BY DEF IInv
<1> QED BY <1>1, IInvCorrect, PTL

\* When no reply is missing, no lobby offered more room throughout the scan than
\* CheckLobbyServerState answers with.
THEOREM BestOfScanCorrect == Spec => []BestOfScan
<1>1. IInv => BestOfScan
  <2> SUFFICES ASSUME IInv, At("respond"), NEW k \in Keys
               PROVE  low[k] <= auth.remain
    BY DEF BestOfScan
  <2> auth \in Scans /\ low[k] \in Nat /\ ~ At("idle")
    BY DEF IInv, TypeOK, At, AuthIdle
  <2>1. low[k] > auth.remain => k \in auth.must \cup auth.page
    BY DEF IInv, Owed
  <2>2. auth.page = {} /\ (auth.must = {} \/ low = NoHistory)
    BY DEF IInv, Pages
  <2> QED BY <2>1, <2>2 DEF NoHistory, Scans
<1> QED BY <1>1, IInvCorrect, PTL
=============================================================================
