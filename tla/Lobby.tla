------------------------------- MODULE Lobby -------------------------------
(***************************************************************************)
(* The session life cycle of one lobby server (Lobby/src/LobbyManager.cpp  *)
(* with the task queues of Common/src/database/Worker.cpp): sockets that   *)
(* are accepted, logged in, timed out and reused, and the session threads, *)
(* the event thread and the two database workers that race over them.      *)
(*                                                                         *)
(* A socket is the ULONG_PTR key of _activatedClientMap, which the server  *)
(* uses again for a later connection.  gen[s] is the serial number of its  *)
(* latest connection; the program does not keep it.  It is copied into     *)
(* events and tasks only so that a property can tell which connection they *)
(* were made for; no guard reads it.  The bound MaxConn is on the serials. *)
(*                                                                         *)
(* NetworkManager is present through its callbacks: a socket is waiting    *)
(* for a client (prepared, or its AcceptEx is pending), open, or being     *)
(* taken down.  Disconnect, on a session thread, and DisconnectRequest, on *)
(* the event thread, may both find a connection in _activatedClientMap and *)
(* then both run the callback of the lobby for it.  Sending changes no     *)
(* state of this module.  Timers are untimed: an event may be handled at   *)
(* any moment after it was queued.                                         *)
(*                                                                         *)
(* The task queues have several producers and one consumer, so pushes that *)
(* overlap lose tasks (CircleQueue).  Here a push is one step that may     *)
(* fail to leave its task in the queue, whatever room there is.            *)
(***************************************************************************)
EXTENDS Integers, Sequences, FiniteSets

CONSTANTS Sockets,    \* keys of _activatedClientMap
          Sessions,   \* session threads
          Timer,      \* the event thread
          Accounts,   \* account numbers; all of them exist in the database
          NoAccount,  \* no account
          Capacity,   \* CLIENT_CAPACITY of lobby_config.json
          UserQueueMax, \* how many tasks the queues of the two workers hold
          GameQueueMax, \* (1023 each in the code)
          MaxConn,    \* bound: connections accepted in a behaviour
          MayFail     \* the stored procedures that may fail

ASSUME LobbyAssumption == /\ IsFiniteSet(Sockets)
                          /\ Timer \notin Sessions
                          /\ NoAccount \notin Accounts
                          /\ Capacity \in Nat
                          /\ UserQueueMax \in Nat /\ GameQueueMax \in Nat
                          /\ MaxConn \in Nat

Threads == Sessions \cup {Timer}

UserProcedures == {"UserLogIn", "UserLogOut", "GetAccountData"}
GameProcedures == {"GetInventoryByAccount", "AddInventoryItem", "BreakInventoryItem"}

VARIABLES
  conn,          \* conn[s]: "waiting", "open" or "closing"
  gen,           \* gen[s]: serial number of the latest connection of s
  asked,         \* asked[s]: the account in the REQUEST_LOGIN of the open connection
  accepting,     \* accepted connections whose AcceptCallback has not run yet
  disconnect,    \* disconnect[t]: the next step of the disconnect that t runs
  notLoginSocketSet,
  socketLoginAccountMap,
  eventQueue,    \* timers: the rotation of the queue makes it a set
  userTasks,     \* task queue of _userDatabaseWorker
  gameTasks,     \* task queue of _gameDatabaseWorker
  login,         \* what the user database worker does in ProcessQueryResult
  isActive,      \* Account.IsActive in the user database
  redis,         \* redis[key]: the remaining capacity published, if any
  contested,     \* ghost: accounts whose entry two disconnects found, or that
                 \* was erased for another one's
  stuck,         \* ghost: accounts whose latest log-out was lost or failed
  broken         \* ghost: sockets whose AddInventoryItem was lost or failed after
                 \* their latest log-in

network == <<conn, gen, asked, accepting, disconnect>>
maps == <<notLoginSocketSet, socketLoginAccountMap>>
ghosts == <<contested, stuck, broken>>
vars == <<conn, gen, asked, accepting, disconnect, notLoginSocketSet,
          socketLoginAccountMap, eventQueue, userTasks, gameTasks, login,
          isActive, redis, contested, stuck, broken>>

Event(type, s, g) == [type |-> type, socket |-> s, gen |-> g]
Task(proc, s, g, a) == [proc |-> proc, socket |-> s, gen |-> g, account |-> a]

Gens   == 0 .. MaxConn
Conns  == [socket : Sockets, gen : Gens]
Events == [type : {"Login", "ItemGive"}, socket : Sockets, gen : Gens]
Tasks(procs) == [proc : procs, socket : Sockets, gen : Gens, account : Accounts]

\* account is the accountNumber that ProcessDisconnect has read.
Runs == [step : {"find", "rearm"}, socket : Sockets, account : Accounts \cup {NoAccount}]
          \cup [step : {"erase", "enqueue"}, socket : Sockets, account : Accounts]
Idle == [step |-> "idle"]

LoggedIn == {s \in Sockets : socketLoginAccountMap[s] # NoAccount}

TypeOK ==
  /\ conn \in [Sockets -> {"waiting", "open", "closing"}]
  /\ gen \in [Sockets -> Gens]
  /\ asked \in [Sockets -> Accounts \cup {NoAccount}]
  /\ accepting \subseteq Conns
  /\ disconnect \in [Threads -> {Idle} \cup Runs]
  /\ notLoginSocketSet \subseteq Sockets
  /\ socketLoginAccountMap \in [Sockets -> Accounts \cup {NoAccount}]
  /\ eventQueue \subseteq Events
  /\ userTasks \in Seq(Tasks(UserProcedures)) /\ Len(userTasks) <= UserQueueMax
  /\ gameTasks \in Seq(Tasks(GameProcedures)) /\ Len(gameTasks) <= GameQueueMax
  /\ login \in {Idle} \cup [step : {"publish", "record", "followUp"},
                            task : Tasks({"UserLogIn"})]
  /\ isActive \subseteq Accounts
  /\ redis \in [{"ServerName", "asd"} -> SUBSET Int]
  /\ contested \subseteq Accounts
  /\ stuck \subseteq Accounts
  /\ broken \subseteq Sockets

\* LobbyManager::Initialize and MainProcess: every socket has an AcceptEx
\* pending, and the remaining capacity is published under the server's name.
Init ==
  /\ conn = [s \in Sockets |-> "waiting"]
  /\ gen = [s \in Sockets |-> 0]
  /\ asked = [s \in Sockets |-> NoAccount]
  /\ accepting = {}
  /\ disconnect = [t \in Threads |-> Idle]
  /\ notLoginSocketSet = {}
  /\ socketLoginAccountMap = [s \in Sockets |-> NoAccount]
  /\ eventQueue = {}
  /\ userTasks = <<>>
  /\ gameTasks = <<>>
  /\ login = Idle
  /\ isActive = {}
  /\ redis = [key \in {"ServerName", "asd"} |->
                IF key = "ServerName" THEN {Capacity} ELSE {}]
  /\ contested = {} /\ stuck = {} /\ broken = {}

\* A slip of Enqueue: the queue has no limit.
EnqueueUnbounded(queue, max, task) == {queue, Append(queue, task)}

\* Worker::Enqueue ignores the result of push(): a full queue drops the task, and
\* one that another push overlaps may lose it.  These are the queues it may leave.
Enqueue(queue, max, task) ==
  {queue} \cup IF Len(queue) < max THEN {Append(queue, task)} ELSE {}

EnqueueUser(task) == userTasks' \in Enqueue(userTasks, UserQueueMax, task)
EnqueueGame(task) == gameTasks' \in Enqueue(gameTasks, GameQueueMax, task)

-----------------------------------------------------------------------------
(* Session threads: accept and receive *)

\* NetworkManager::Accept, up to the call of AcceptCallback: the receive is
\* armed first, so the client can be heard before it is registered.
Accept(s, g) ==
  /\ conn[s] = "waiting"
  /\ \A t \in Sockets : gen[t] < g
  /\ \E t \in Sockets : gen[t] + 1 = g
  /\ conn' = [conn EXCEPT ![s] = "open"]
  /\ gen' = [gen EXCEPT ![s] = g]
  /\ accepting' = accepting \cup {[socket |-> s, gen |-> g]}
  /\ UNCHANGED <<asked, disconnect, maps, eventQueue, userTasks, gameTasks, login, isActive,
                 redis, ghosts>>


ProcessAccept(c) ==
  /\ c \in accepting
  /\ accepting' = accepting \ {c}
  /\ notLoginSocketSet' = notLoginSocketSet \cup {c.socket}
  /\ eventQueue' = eventQueue \cup {Event("Login", c.socket, c.gen)}
  /\ UNCHANGED <<conn, gen, asked, disconnect, socketLoginAccountMap, userTasks, gameTasks,
                 login, isActive, redis, ghosts>>

\* ReadMessage, REQUEST_LOGIN: the client sends it once per connection.  A token
\* that does not verify leaves the task without a database, and nothing happens.
RequestLogin(s, a, verified) ==
  /\ conn[s] = "open"
  /\ asked[s] = NoAccount
  /\ asked' = [asked EXCEPT ![s] = a]
  /\ IF verified THEN EnqueueUser(Task("UserLogIn", s, gen[s], a))
                 ELSE UNCHANGED userTasks
  /\ UNCHANGED <<conn, gen, accepting, disconnect, maps, eventQueue, gameTasks, login,
                 isActive, redis, ghosts>>

\* ReadMessage, REQUEST_ITEM_BREAK, with the account number of the client.
\* Bound: one request is in the queue at a time.
RequestItemBreak(s) ==
  /\ conn[s] = "open"
  /\ asked[s] # NoAccount
  /\ \A i \in 1 .. Len(gameTasks) : gameTasks[i].proc # "BreakInventoryItem"
  /\ EnqueueGame(Task("BreakInventoryItem", s, gen[s], asked[s]))
  /\ UNCHANGED <<network, maps, eventQueue, userTasks, login, isActive, redis, ghosts>>

-----------------------------------------------------------------------------
(* Disconnect, on a session thread, and DisconnectRequest, on the event thread *)

\* Both find the entry of the socket in _activatedClientMap, read its socket and
\* shut it down.  Another thread may just have done so; once it has also called
\* Deinitialize (FindEntry) the socket read is null, and the server crashes.
BeginDisconnect(t, s) ==
  /\ disconnect[t] = Idle
  /\ conn[s] = "closing" =>
       \E u \in Threads : disconnect[u].step = "find" /\ disconnect[u].socket = s
  /\ conn' = [conn EXCEPT ![s] = "closing"]
  /\ disconnect' = [disconnect EXCEPT ![t] = [step |-> "find", socket |-> s,
                                              account |-> NoAccount]]

\* An operation of the socket completed with an error, or a receive with no bytes.
Disconnect(t, s) ==
  /\ t \in Sessions
  /\ BeginDisconnect(t, s)
  /\ UNCHANGED <<gen, asked, accepting, maps, eventQueue, userTasks, gameTasks, login,
                 isActive, redis, ghosts>>

Running(t, step) == disconnect[t].step = step

\* ProcessDisconnect, up to the reading of the account of the socket's entry.
FindEntry(t) ==
  /\ Running(t, "find")
  /\ LET s == disconnect[t].socket
     IN  /\ notLoginSocketSet' = notLoginSocketSet \ {s}
         /\ disconnect' = [disconnect EXCEPT
              ![t] = [step |-> IF s \in LoggedIn THEN "erase" ELSE "rearm", socket |-> s,
                      account |-> socketLoginAccountMap[s]]]
         /\ contested' = IF \E u \in Threads : Running(u, "erase") /\ disconnect[u].socket = s
                           THEN contested \cup ({socketLoginAccountMap[s]} \ {NoAccount})
                           ELSE contested
  /\ UNCHANGED <<conn, gen, asked, accepting, socketLoginAccountMap, eventQueue, userTasks,
                 gameTasks, login, isActive, redis, stuck, broken>>

\* A slip of EraseEntry: the entry of the socket stays in the map.
EraseEntryKeeps(t) ==
  /\ Running(t, "erase")
  /\ disconnect' = [disconnect EXCEPT ![t].step = "enqueue"]
  /\ UNCHANGED <<conn, gen, asked, accepting, maps, eventQueue, userTasks, gameTasks, login,
                 isActive, redis, ghosts>>

\* unsafe_erase is by the socket: it may hit the entry of a later log-in.
EraseEntry(t) ==
  /\ Running(t, "erase")
  /\ LET s == disconnect[t].socket
         other == {socketLoginAccountMap[s]} \ {NoAccount, disconnect[t].account}
     IN  /\ socketLoginAccountMap' = [socketLoginAccountMap EXCEPT ![s] = NoAccount]
         /\ contested' = contested \cup other
         /\ stuck' = stuck \cup other
  /\ disconnect' = [disconnect EXCEPT ![t].step = "enqueue"]
  /\ UNCHANGED <<conn, gen, asked, accepting, notLoginSocketSet, eventQueue, userTasks,
                 gameTasks, login, isActive, redis, broken>>

\* A slip of QueueLogOut: the log-out is forgotten.
QueueLogOutNone(t) ==
  /\ Running(t, "enqueue")
  /\ disconnect' = [disconnect EXCEPT ![t].step = "rearm"]
  /\ UNCHANGED <<conn, gen, asked, accepting, maps, eventQueue, userTasks, gameTasks, login,
                 isActive, redis, ghosts>>

QueueLogOut(t) ==
  /\ Running(t, "enqueue")
  /\ LET s == disconnect[t].socket
         a == disconnect[t].account
     IN  /\ EnqueueUser(Task("UserLogOut", s, gen[s], a))
         /\ stuck' = IF userTasks' = userTasks THEN stuck \cup {a} ELSE stuck
  /\ disconnect' = [disconnect EXCEPT ![t].step = "rearm"]
  /\ UNCHANGED <<conn, gen, asked, accepting, maps, eventQueue, gameTasks, login, isActive,
                 redis, contested, broken>>

\* The rest of Disconnect and DisconnectRequest: the socket accepts again.  When it
\* is done a second time, a client that came in between is forgotten, or heard
\* through the entry that is activated next.
Rearm(t) ==
  /\ Running(t, "rearm")
  /\ LET s == disconnect[t].socket
     IN  \/ /\ conn' = [conn EXCEPT ![s] = "waiting"]
            /\ asked' = [asked EXCEPT ![s] = NoAccount]
         \/ conn[s] = "open" /\ UNCHANGED <<conn, asked>>
  /\ disconnect' = [disconnect EXCEPT ![t] = Idle]
  /\ UNCHANGED <<gen, accepting, maps, eventQueue, userTasks, gameTasks, login, isActive,
                 redis, ghosts>>

-----------------------------------------------------------------------------
(* The event thread: it handles one event at a time *)

\* EventProcess, Login: DisconnectRequest finds an open socket, and a waiting one
\* too unless it is still in _preparedSocketQueue.
LoginTimeout(e) ==
  /\ e \in eventQueue /\ e.type = "Login"
  /\ disconnect[Timer] = Idle
  /\ eventQueue' = eventQueue \ {e}
  /\ \/ e.socket \notin LoggedIn /\ BeginDisconnect(Timer, e.socket)
     \/ /\ e.socket \in LoggedIn \/ conn[e.socket] # "open"
        /\ UNCHANGED <<conn, disconnect>>
  /\ UNCHANGED <<gen, asked, accepting, maps, userTasks, gameTasks, login, isActive, redis,
                 ghosts>>

\* EventProcess, ItemGive.
ItemGive(e) ==
  /\ e \in eventQueue /\ e.type = "ItemGive"
  /\ disconnect[Timer] = Idle
  /\ eventQueue' = eventQueue \ {e}
  /\ IF e.socket \in LoggedIn
       THEN /\ EnqueueGame(Task("AddInventoryItem", e.socket, e.gen,
                                socketLoginAccountMap[e.socket]))
            /\ broken' = IF gameTasks' = gameTasks THEN broken \cup {e.socket} ELSE broken
       ELSE UNCHANGED <<gameTasks, broken>>
  /\ UNCHANGED <<network, maps, userTasks, login, isActive, redis, contested, stuck>>

-----------------------------------------------------------------------------
(* The user database worker *)

NextUserTask(proc) == /\ login = Idle
                      /\ userTasks # <<>>
                      /\ Head(userTasks).proc = proc
                      /\ userTasks' = Tail(userTasks)

\* ExecuteStoredProcedure logs a failure and calls nobody back.
UserProcedureFails ==
  /\ \E proc \in MayFail \cap UserProcedures :
       /\ NextUserTask(proc)
       /\ stuck' = IF proc = "UserLogOut" THEN stuck \cup {Head(userTasks).account} ELSE stuck
  /\ UNCHANGED <<network, maps, eventQueue, gameTasks, login, isActive, redis, contested,
                 broken>>

\* UserLogIn refuses an account that is active: RESPONSE_LOGIN says so.
LogInRefused ==
  /\ NextUserTask("UserLogIn")
  /\ Head(userTasks).account \in isActive
  /\ UNCHANGED <<network, maps, eventQueue, gameTasks, login, isActive, redis, ghosts>>

\* A slip of UserLogIn: IsActive is not checked.
LogInUnchecked ==
  /\ NextUserTask("UserLogIn")
  /\ isActive' = isActive \cup {Head(userTasks).account}
  /\ login' = [step |-> "publish", task |-> Head(userTasks)]
  /\ UNCHANGED <<network, maps, eventQueue, gameTasks, redis, ghosts>>

LogInSucceeds ==
  /\ NextUserTask("UserLogIn")
  /\ Head(userTasks).account \notin isActive
  /\ isActive' = isActive \cup {Head(userTasks).account}
  /\ login' = [step |-> "publish", task |-> Head(userTasks)]
  /\ UNCHANGED <<network, maps, eventQueue, gameTasks, redis, ghosts>>

\* ProcessQueryResult, UserLogIn: the remaining capacity is computed before the
\* insert and published under "asd".
PublishRemaining ==
  /\ login.step = "publish"
  /\ redis' = [redis EXCEPT !["asd"] = {Capacity - Cardinality(LoggedIn)}]
  /\ login' = [login EXCEPT !.step = "record"]
  /\ UNCHANGED <<network, maps, eventQueue, userTasks, gameTasks, isActive, ghosts>>

\* insert() keeps the entry of a socket that has one.
RecordLogIn ==
  /\ login.step = "record"
  /\ socketLoginAccountMap' = [socketLoginAccountMap EXCEPT ![login.task.socket] =
                                 IF @ = NoAccount THEN login.task.account ELSE @]
  /\ notLoginSocketSet' = notLoginSocketSet \ {login.task.socket}
  /\ login' = [login EXCEPT !.step = "followUp"]
  /\ UNCHANGED <<network, eventQueue, userTasks, gameTasks, isActive, redis, ghosts>>

\* A slip of the follow-up: no item event is queued.
FollowUpNoItems ==
  /\ login.step = "followUp"
  /\ LET t == login.task
     IN  /\ EnqueueUser([t EXCEPT !.proc = "GetAccountData"])
         /\ EnqueueGame([t EXCEPT !.proc = "GetInventoryByAccount"])
  /\ broken' = broken \ {login.task.socket}
  /\ login' = Idle
  /\ UNCHANGED <<network, maps, eventQueue, isActive, redis, contested, stuck>>

FollowUp ==
  /\ login.step = "followUp"
  /\ LET t == login.task
     IN  /\ EnqueueUser([t EXCEPT !.proc = "GetAccountData"])
         /\ EnqueueGame([t EXCEPT !.proc = "GetInventoryByAccount"])
         /\ eventQueue' = eventQueue \cup {Event("ItemGive", t.socket, t.gen)}
  /\ broken' = broken \ {login.task.socket}
  /\ login' = Idle
  /\ UNCHANGED <<network, maps, isActive, redis, contested, stuck>>

\* UserLogOut: no callback work.
LogOut ==
  /\ NextUserTask("UserLogOut")
  /\ isActive' = isActive \ {Head(userTasks).account}
  /\ stuck' = stuck \ {Head(userTasks).account}
  /\ UNCHANGED <<network, maps, eventQueue, gameTasks, login, redis, contested, broken>>

\* GetAccountData: the result is sent.
AccountData ==
  /\ NextUserTask("GetAccountData")
  /\ UNCHANGED <<network, maps, eventQueue, gameTasks, login, isActive, redis, ghosts>>

-----------------------------------------------------------------------------
(* The game database worker *)

NextGameTask(proc) == /\ gameTasks # <<>>
                      /\ Head(gameTasks).proc = proc
                      /\ gameTasks' = Tail(gameTasks)

GameProcedureFails ==
  /\ \E proc \in MayFail \cap GameProcedures :
       /\ NextGameTask(proc)
       /\ broken' = IF proc = "AddInventoryItem" THEN broken \cup {Head(gameTasks).socket}
                                                 ELSE broken
  /\ UNCHANGED <<network, maps, eventQueue, userTasks, login, isActive, redis, contested,
                 stuck>>

\* A slip of AddInventoryItem's result: the event is not queued again.
AddItemOnce ==
  /\ NextGameTask("AddInventoryItem")
  /\ UNCHANGED <<network, maps, eventQueue, userTasks, login, isActive, redis, ghosts>>

\* AddInventoryItem: the result is sent and the next ItemGive is queued.
AddItem ==
  /\ NextGameTask("AddInventoryItem")
  /\ eventQueue' = eventQueue \cup
                     {Event("ItemGive", Head(gameTasks).socket, Head(gameTasks).gen)}
  /\ UNCHANGED <<network, maps, userTasks, login, isActive, redis, ghosts>>

\* GetInventoryByAccount and BreakInventoryItem: the result is sent.
InventoryOrBreak ==
  /\ NextGameTask("GetInventoryByAccount") \/ NextGameTask("BreakInventoryItem")
  /\ UNCHANGED <<network, maps, eventQueue, userTasks, login, isActive, redis, ghosts>>

-----------------------------------------------------------------------------
SessionThreads ==
  \/ \E s \in Sockets : \/ \E g \in Gens : Accept(s, g)
                        \/ \E a \in Accounts, verified \in BOOLEAN : RequestLogin(s, a, verified)
                        \/ RequestItemBreak(s)
                        \/ \E t \in Sessions : Disconnect(t, s)
  \/ \E c \in accepting : ProcessAccept(c)

DisconnectSteps(t) == FindEntry(t) \/ EraseEntry(t) \/ QueueLogOut(t) \/ Rearm(t)

EventThread == \E e \in eventQueue : LoginTimeout(e) \/ ItemGive(e)

UserWorker == \/ UserProcedureFails
              \/ LogInRefused
              \/ LogInSucceeds
              \/ PublishRemaining
              \/ RecordLogIn
              \/ FollowUp
              \/ LogOut
              \/ AccountData

GameWorker == \/ GameProcedureFails
              \/ AddItem
              \/ InventoryOrBreak

Next == \/ SessionThreads
        \/ \E t \in Threads : DisconnectSteps(t)
        \/ EventThread
        \/ UserWorker
        \/ GameWorker

Spec == Init /\ [][Next]_vars

\* The threads of the server keep running: a handler that has begun goes on, the
\* workers take their tasks, and every event in the rotating queue gets its turn.
\* Nothing is assumed of the clients.
Fairness == /\ \A c \in Conns : WF_vars(ProcessAccept(c))
            /\ \A t \in Threads : WF_vars(DisconnectSteps(t))
            /\ \A e \in Events : WF_vars(LoginTimeout(e)) /\ WF_vars(ItemGive(e))
            /\ WF_vars(UserWorker)
            /\ WF_vars(GameWorker)

FairSpec == Spec /\ Fairness

-----------------------------------------------------------------------------
(* Safety *)

LogOutsOf(a) == {i \in 1 .. Len(userTasks) : /\ userTasks[i].proc = "UserLogOut"
                                             /\ userTasks[i].account = a}

\* An account is logged in on one socket at most.  The lobby never looks for the
\* account in its map: it relies on IsActive and on the single user worker, and
\* both fail it once two disconnects have found one entry (LobbyManager.cpp:171).
OneSocketPerAccount ==
  \A s, t \in LoggedIn :
    socketLoginAccountMap[s] = socketLoginAccountMap[t] =>
      s = t \/ socketLoginAccountMap[s] \in contested

\* An account recorded on a socket is active in the database and nothing that is
\* queued will log it out, unless two disconnects have found its entry: otherwise
\* a UserLogOut follows the erasure of the entry.
RecordedIsActive ==
  \A s \in LoggedIn : \/ socketLoginAccountMap[s] \in contested
                      \/ /\ socketLoginAccountMap[s] \in isActive
                         /\ LogOutsOf(socketLoginAccountMap[s]) = {}

\* An account that is about to be logged out is still active, so that nobody else
\* has logged in to it meanwhile, and only one log-out of it is on its way, unless
\* two disconnects have found its entry.
LogOutOnce ==
  \A a \in Accounts \ contested :
    /\ \A i, j \in LogOutsOf(a) : a \in isActive /\ i = j
    /\ \A t \in Threads : Running(t, "enqueue") /\ disconnect[t].account = a =>
         a \in isActive /\ LogOutsOf(a) = {}

\* Where the next item of socket s will come from.
ItemEvents(s) == {e \in eventQueue : e.type = "ItemGive" /\ e.socket = s}
ItemTasks(s)  == {i \in 1 .. Len(gameTasks) : /\ gameTasks[i].proc = "AddInventoryItem"
                                              /\ gameTasks[i].socket = s}

\* Unless an AddInventoryItem of it was lost or has failed since its log-in, a
\* logged-in socket keeps a source of items (an event, a task that will queue one,
\* or the login that is about to): nothing else breaks the chain event - task -
\* event while the socket is logged in.
ItemsWillCome ==
  \A s \in LoggedIn \ broken : \/ ItemEvents(s) # {}
                               \/ ItemTasks(s) # {}
                               \/ login.step = "followUp" /\ login.task.socket = s

-----------------------------------------------------------------------------
(* Liveness *)


\* An account recorded on a socket whose disconnect reaches the callback becomes
\* free for a new login, unless its log-out is lost or fails, or its entry is
\* erased for another one's.
DisconnectLogsOut ==
  \A t \in Threads, s \in Sockets, a \in Accounts :
    Running(t, "find") /\ disconnect[t].socket = s /\ socketLoginAccountMap[s] = a
      ~> a \notin isActive \/ a \in stuck

\* A socket that stays logged in is given items again and again, as long as no
\* AddInventoryItem of it is lost or fails.
ItemsKeepComing ==
  \A s \in Sockets : []<>(s \in LoggedIn \ broken => ItemTasks(s) # {})

-----------------------------------------------------------------------------
(* What the documentation says and the program does not do *)

\* README.md line 130, UserDatabase.sql line 33: an account is active while its
\* user is connected, and a disconnect logs it out (what is lost or fails aside).
ActiveIsConnected ==
  \A a \in isActive \ stuck :
    \/ \E s \in LoggedIn : socketLoginAccountMap[s] = a /\ conn[s] # "waiting"
    \/ LogOutsOf(a) # {}
    \/ \E t \in Threads : disconnect[t] # Idle /\ disconnect[t].account = a
    \/ login # Idle /\ login.task.account = a
=============================================================================
