---------------------------- MODULE LobbyProofs ----------------------------
(***************************************************************************)
(* The safety invariants of Lobby, for any number of sockets and accounts, *)
(* any capacity of the task queues, and any procedures that may fail.      *)
(***************************************************************************)
EXTENDS Lobby, SequenceTheorems, FiniteSetTheorems, TLAPS

\* A login whose procedure succeeded and that is not recorded yet owns its account:
\* it is active, nobody will log it out, and no socket has it.
LogInOwnsAccount ==
  login.step \in {"publish", "record"} /\ login.task.account \notin contested =>
    /\ login.task.account \in isActive
    /\ LogOutsOf(login.task.account) = {}
    /\ \A s \in LoggedIn : socketLoginAccountMap[s] # login.task.account
    /\ \A t \in Threads : Running(t, "enqueue") => disconnect[t].account # login.task.account

\* A disconnect that has read the account of an entry finds it unchanged when it
\* erases it, and is the only one that will.
EraserOwnsEntry ==
  \A t \in Threads : Running(t, "erase") /\ disconnect[t].account \notin contested =>
    /\ socketLoginAccountMap[disconnect[t].socket] = disconnect[t].account
    /\ \A u \in Threads : Running(u, "erase") /\ disconnect[u].socket = disconnect[t].socket
                            => u = t

\* A disconnect that has erased an entry is the only one to log out the account,
\* which no socket has any more.
LoggerOutOwnsAccount ==
  \A t \in Threads : Running(t, "enqueue") /\ disconnect[t].account \notin contested =>
    /\ \A s \in LoggedIn : socketLoginAccountMap[s] # disconnect[t].account
    /\ \A u \in Threads : Running(u, "enqueue") /\ disconnect[u].account = disconnect[t].account
                            => u = t

Safe == /\ OneSocketPerAccount
        /\ RecordedIsActive
        /\ LogOutOnce
        /\ LogInOwnsAccount
        /\ EraserOwnsEntry
        /\ LoggerOutOwnsAccount

\* The inductive invariant.
IInv == TypeOK /\ Safe

-----------------------------------------------------------------------------
(* The task queues *)

\* A push that leaves its task or loses it keeps the type of the queue and its bound.
LEMMA EnqueueType ==
  ASSUME NEW S, NEW q \in Seq(S), NEW max \in Nat, NEW t \in S, Len(q) <= max
  PROVE  \A p \in Enqueue(q, max, t) : p \in Seq(S) /\ Len(p) <= max
<1>1. Append(q, t) \in Seq(S) /\ Len(Append(q, t)) = Len(q) + 1 /\ Len(q) \in Nat
  BY AppendProperties
<1> QED
  BY <1>1 DEF Enqueue

\* Taking the task at the head.
LEMMA TailType ==
  ASSUME NEW S, NEW q \in Seq(S), q # <<>>
  PROVE  /\ Head(q) \in S
         /\ Tail(q) \in Seq(S)
         /\ Len(Tail(q)) = Len(q) - 1
         /\ Len(q) \in Nat \ {0}
         /\ Head(q) = q[1]
         /\ \A i \in 1 .. Len(q) - 1 : Tail(q)[i] = q[i + 1]
  <1>1. /\ Head(q) \in S /\ Tail(q) \in Seq(S)
        /\ Len(Tail(q)) = Len(q) - 1
        /\ \A i \in 1 .. Len(Tail(q)) : Tail(q)[i] = q[i + 1]
        /\ Head(q) = q[1]
    BY HeadTailProperties
  <1>2. Len(q) \in Nat \ {0}
    BY EmptySeq
  <1> QED
    BY <1>1, <1>2

-----------------------------------------------------------------------------
(* Type correctness *)

\* The program starts in a typed state.
LEMMA InitTypeOK == Init => TypeOK
  BY LobbyAssumption DEF Init, TypeOK, LobbyAssumption, Gens, Idle

\* Every step keeps the types: the tasks and events that are built belong to
\* known sockets and accounts, and no queue grows past its bound.
LEMMA NextTypeOK == TypeOK /\ [Next]_vars => TypeOK'
<1> SUFFICES ASSUME TypeOK, [Next]_vars
             PROVE  TypeOK'
  OBVIOUS
<1> USE LobbyAssumption DEF LobbyAssumption
<1>user. ASSUME NEW proc, NextUserTask(proc)
         PROVE  /\ Head(userTasks) \in Tasks(UserProcedures) /\ Head(userTasks).proc = proc
                /\ userTasks' \in Seq(Tasks(UserProcedures)) /\ Len(userTasks') <= UserQueueMax
  <2>1. userTasks \in Seq(Tasks(UserProcedures)) /\ Len(userTasks) <= UserQueueMax
    BY DEF TypeOK
  <2> QED
    BY <1>user, <2>1, TailType DEF NextUserTask
<1>game. ASSUME NEW proc, NextGameTask(proc)
         PROVE  /\ Head(gameTasks) \in Tasks(GameProcedures) /\ Head(gameTasks).proc = proc
                /\ gameTasks' \in Seq(Tasks(GameProcedures)) /\ Len(gameTasks') <= GameQueueMax
  <2>1. gameTasks \in Seq(Tasks(GameProcedures)) /\ Len(gameTasks) <= GameQueueMax
    BY DEF TypeOK
  <2> QED
    BY <1>game, <2>1, TailType DEF NextGameTask
<1>toUser. ASSUME NEW t \in Tasks(UserProcedures), EnqueueUser(t)
           PROVE  userTasks' \in Seq(Tasks(UserProcedures)) /\ Len(userTasks') <= UserQueueMax
  BY <1>toUser, EnqueueType DEF EnqueueUser, TypeOK
<1>toGame. ASSUME NEW t \in Tasks(GameProcedures), EnqueueGame(t)
           PROVE  gameTasks' \in Seq(Tasks(GameProcedures)) /\ Len(gameTasks') <= GameQueueMax
  BY <1>toGame, EnqueueType DEF EnqueueGame, TypeOK
<1>begin. ASSUME NEW t \in Threads, NEW s \in Sockets, BeginDisconnect(t, s)
          PROVE  /\ conn' \in [Sockets -> {"waiting", "open", "closing"}]
                 /\ disconnect' \in [Threads -> {Idle} \cup Runs]
  <2>1. [step |-> "find", socket |-> s, account |-> NoAccount] \in Runs
    BY DEF Runs
  <2> QED
    BY <1>begin, <2>1 DEF BeginDisconnect, TypeOK
<1>run. ASSUME NEW t \in Threads, Running(t, "find") \/ Running(t, "erase") \/
                                  Running(t, "enqueue") \/ Running(t, "rearm")
        PROVE  disconnect[t] \in Runs
  BY <1>run DEF Running, TypeOK, Idle
<1>1. ASSUME NEW s \in Sockets, NEW g \in Gens, Accept(s, g)
      PROVE  TypeOK'
  BY <1>1 DEF Accept, TypeOK, Conns, Gens, maps, ghosts
<1>2. ASSUME NEW s \in Sockets, NEW a \in Accounts, NEW v \in BOOLEAN, RequestLogin(s, a, v)
      PROVE  TypeOK'
  <2>1. Task("UserLogIn", s, gen[s], a) \in Tasks(UserProcedures)
    BY DEF Task, Tasks, UserProcedures, TypeOK
  <2>2. userTasks' \in Seq(Tasks(UserProcedures)) /\ Len(userTasks') <= UserQueueMax
    BY <1>2, <2>1, <1>toUser DEF RequestLogin, TypeOK
  <2> QED
    BY <1>2, <2>2 DEF RequestLogin, TypeOK, maps, ghosts
<1>3. ASSUME NEW s \in Sockets, RequestItemBreak(s)
      PROVE  TypeOK'
  <2>1. Task("BreakInventoryItem", s, gen[s], asked[s]) \in Tasks(GameProcedures)
    BY <1>3 DEF RequestItemBreak, Task, Tasks, GameProcedures, TypeOK
  <2>2. gameTasks' \in Seq(Tasks(GameProcedures)) /\ Len(gameTasks') <= GameQueueMax
    BY <1>3, <2>1, <1>toGame DEF RequestItemBreak
  <2> QED
    BY <1>3, <2>2 DEF RequestItemBreak, TypeOK, network, maps, ghosts
<1>4. ASSUME NEW s \in Sockets, NEW t \in Sessions, Disconnect(t, s)
      PROVE  TypeOK'
  <2>1. BeginDisconnect(t, s) /\ t \in Threads
    BY <1>4 DEF Disconnect, Threads
  <2> QED
    BY <1>4, <2>1, <1>begin DEF Disconnect, TypeOK, maps, ghosts
<1>5. ASSUME NEW c \in accepting, ProcessAccept(c)
      PROVE  TypeOK'
  BY <1>5 DEF ProcessAccept, TypeOK, Conns, Event, Events, ghosts
<1>6. ASSUME NEW t \in Threads, FindEntry(t)
      PROVE  TypeOK'
  <2>1. disconnect[t] \in Runs
    BY <1>6, <1>run DEF FindEntry
  <2> DEFINE s == disconnect[t].socket
             x == [step |-> IF s \in LoggedIn THEN "erase" ELSE "rearm", socket |-> s,
                   account |-> socketLoginAccountMap[s]]
  <2>2. s \in Sockets /\ socketLoginAccountMap[s] \in Accounts \cup {NoAccount}
    BY <2>1 DEF Runs, TypeOK
  <2>3. x \in Runs
    BY <2>2 DEF Runs, LoggedIn
  <2>4. disconnect' = [disconnect EXCEPT ![t] = x]
    BY <1>6 DEF FindEntry
  <2> HIDE DEF x
  <2>5. disconnect' \in [Threads -> {Idle} \cup Runs]
    BY <2>3, <2>4 DEF TypeOK
  <2>6. contested' \subseteq Accounts
    BY <1>6, <2>2 DEF FindEntry, TypeOK
  <2> QED
    BY <1>6, <2>5, <2>6 DEF FindEntry, TypeOK
<1>7a. ASSUME NEW t \in Threads, EraseEntry(t)
       PROVE  TypeOK'
  <2>1. disconnect[t] \in Runs
    BY <1>7a, <1>run DEF EraseEntry
  <2>2. [disconnect[t] EXCEPT !.step = "enqueue"] \in Runs /\ disconnect[t].socket \in Sockets
    BY <1>7a, <2>1 DEF EraseEntry, Running, Runs
  <2>3. disconnect' \in [Threads -> {Idle} \cup Runs]
    BY <1>7a, <2>2 DEF EraseEntry, TypeOK
  <2>4. /\ socketLoginAccountMap' \in [Sockets -> Accounts \cup {NoAccount}]
        /\ contested' \subseteq Accounts /\ stuck' \subseteq Accounts
    BY <1>7a, <2>2 DEF EraseEntry, TypeOK
  <2> QED
    BY <1>7a, <2>3, <2>4 DEF EraseEntry, TypeOK
<1>7b. ASSUME NEW t \in Threads, QueueLogOut(t)
       PROVE  TypeOK'
  <2>1. disconnect[t] \in Runs
    BY <1>7b, <1>run DEF QueueLogOut
  <2> DEFINE s == disconnect[t].socket
             a == disconnect[t].account
             task == Task("UserLogOut", s, gen[s], a)
  <2>2. [disconnect[t] EXCEPT !.step = "rearm"] \in Runs /\ s \in Sockets
    BY <2>1 DEF Runs
  <2>3. a \in Accounts
    BY <1>7b, <2>1 DEF QueueLogOut, Running, Runs
  <2>4. task \in Tasks(UserProcedures)
    BY <2>2, <2>3 DEF Task, Tasks, UserProcedures, TypeOK
  <2>5. EnqueueUser(task)
    BY <1>7b DEF QueueLogOut
  <2>6. userTasks' \in Seq(Tasks(UserProcedures)) /\ Len(userTasks') <= UserQueueMax
    BY <2>4, <2>5, <1>toUser
  <2>7. disconnect' \in [Threads -> {Idle} \cup Runs] /\ stuck' \subseteq Accounts
    BY <1>7b, <2>2, <2>3 DEF QueueLogOut, TypeOK
  <2> QED
    BY <1>7b, <2>6, <2>7 DEF QueueLogOut, TypeOK, maps
<1>7c. ASSUME NEW t \in Threads, Rearm(t)
       PROVE  TypeOK'
  <2>1. disconnect[t] \in Runs
    BY <1>7c, <1>run DEF Rearm
  <2>2. disconnect[t].socket \in Sockets /\ disconnect' \in [Threads -> {Idle} \cup Runs]
    BY <1>7c, <2>1 DEF Rearm, Runs, TypeOK
  <2>3. /\ conn' \in [Sockets -> {"waiting", "open", "closing"}]
        /\ asked' \in [Sockets -> Accounts \cup {NoAccount}]
    BY <1>7c, <2>2 DEF Rearm, TypeOK
  <2> QED
    BY <1>7c, <2>2, <2>3 DEF Rearm, TypeOK, maps, ghosts
<1>8. ASSUME NEW e \in eventQueue, LoginTimeout(e)
      PROVE  TypeOK'
  <2>1. e.socket \in Sockets /\ eventQueue' \subseteq Events
    BY <1>8 DEF LoginTimeout, TypeOK, Events
  <2>2. /\ conn' \in [Sockets -> {"waiting", "open", "closing"}]
        /\ disconnect' \in [Threads -> {Idle} \cup Runs]
    <3>1. Timer \in Threads
      BY DEF Threads
    <3>2. BeginDisconnect(Timer, e.socket) \/ UNCHANGED <<conn, disconnect>>
      BY <1>8 DEF LoginTimeout
    <3>3. CASE BeginDisconnect(Timer, e.socket)
      BY <2>1, <3>1, <3>3, <1>begin
    <3>4. CASE UNCHANGED <<conn, disconnect>>
      BY <3>4 DEF TypeOK
    <3> QED
      BY <3>2, <3>3, <3>4
  <2> QED
    BY <1>8, <2>1, <2>2 DEF LoginTimeout, TypeOK, maps, ghosts
<1>9. ASSUME NEW e \in eventQueue, ItemGive(e)
      PROVE  TypeOK'
  <2>1. CASE e.socket \in LoggedIn
    <3>1. Task("AddInventoryItem", e.socket, e.gen, socketLoginAccountMap[e.socket])
            \in Tasks(GameProcedures)
      BY <2>1 DEF LoggedIn, Task, Tasks, GameProcedures, TypeOK, Events
    <3>2. gameTasks' \in Seq(Tasks(GameProcedures)) /\ Len(gameTasks') <= GameQueueMax
      BY <1>9, <2>1, <3>1, <1>toGame DEF ItemGive
    <3>3. broken' \subseteq Sockets
      BY <1>9, <2>1 DEF ItemGive, TypeOK, LoggedIn
    <3> QED
      BY <1>9, <3>2, <3>3 DEF ItemGive, TypeOK, network, maps
  <2>2. CASE e.socket \notin LoggedIn
    BY <1>9, <2>2 DEF ItemGive, TypeOK, network, maps
  <2> QED
    BY <2>1, <2>2
<1>10. CASE UserProcedureFails
  <2>1. PICK proc \in MayFail \cap UserProcedures :
          /\ NextUserTask(proc)
          /\ stuck' = IF proc = "UserLogOut" THEN stuck \cup {Head(userTasks).account} ELSE stuck
    BY <1>10 DEF UserProcedureFails
  <2>2. /\ Head(userTasks) \in Tasks(UserProcedures)
        /\ userTasks' \in Seq(Tasks(UserProcedures)) /\ Len(userTasks') <= UserQueueMax
    BY <2>1, <1>user
  <2>3. stuck' \subseteq Accounts
    BY <2>1, <2>2 DEF TypeOK, Tasks
  <2> QED
    BY <1>10, <2>2, <2>3 DEF UserProcedureFails, TypeOK, network, maps
<1>11. CASE LogInRefused
  BY <1>11, <1>user DEF LogInRefused, TypeOK, network, maps, ghosts
<1>12. CASE LogInSucceeds
  <2>1. /\ Head(userTasks) \in Tasks(UserProcedures) /\ Head(userTasks).proc = "UserLogIn"
        /\ userTasks' \in Seq(Tasks(UserProcedures)) /\ Len(userTasks') <= UserQueueMax
    BY <1>12, <1>user DEF LogInSucceeds
  <2>2. Head(userTasks) \in Tasks({"UserLogIn"})
    BY <2>1 DEF Tasks
  <2>3. isActive' \subseteq Accounts
    BY <1>12, <2>2 DEF LogInSucceeds, Tasks, TypeOK
  <2>4. login' \in [step : {"publish", "record", "followUp"}, task : Tasks({"UserLogIn"})]
    BY <1>12, <2>2 DEF LogInSucceeds
  <2> QED
    BY <1>12, <2>1, <2>3, <2>4 DEF LogInSucceeds, TypeOK, network, maps, ghosts
<1>13. CASE PublishRemaining
  <2>1. login \in [step : {"publish", "record", "followUp"}, task : Tasks({"UserLogIn"})]
    BY <1>13 DEF PublishRemaining, TypeOK, Idle
  <2>2. login' \in [step : {"publish", "record", "followUp"}, task : Tasks({"UserLogIn"})]
    BY <1>13, <2>1 DEF PublishRemaining
  <2>3. Cardinality(LoggedIn) \in Nat
    BY FS_Subset, FS_CardinalityType DEF LoggedIn
  <2>4. redis' \in [{"ServerName", "asd"} -> SUBSET Int]
    BY <1>13, <2>3 DEF PublishRemaining, TypeOK
  <2> QED
    BY <1>13, <2>2, <2>4 DEF PublishRemaining, TypeOK, network, maps, ghosts
<1>14. CASE RecordLogIn
  <2>1. login \in [step : {"publish", "record", "followUp"}, task : Tasks({"UserLogIn"})]
    BY <1>14 DEF RecordLogIn, TypeOK, Idle
  <2>2. login' \in [step : {"publish", "record", "followUp"}, task : Tasks({"UserLogIn"})]
    BY <1>14, <2>1 DEF RecordLogIn
  <2>3. login.task.socket \in Sockets /\ login.task.account \in Accounts
    BY <2>1 DEF Tasks
  <2>4. socketLoginAccountMap' \in [Sockets -> Accounts \cup {NoAccount}]
    BY <1>14, <2>3 DEF RecordLogIn, TypeOK
  <2> QED
    BY <1>14, <2>2, <2>4 DEF RecordLogIn, TypeOK, network, ghosts
<1>15. CASE FollowUp
  <2>1. login.task \in Tasks({"UserLogIn"})
    BY <1>15 DEF FollowUp, TypeOK, Idle
  <2> DEFINE t == login.task
  <2>2. /\ [t EXCEPT !.proc = "GetAccountData"] \in Tasks(UserProcedures)
        /\ [t EXCEPT !.proc = "GetInventoryByAccount"] \in Tasks(GameProcedures)
        /\ Event("ItemGive", t.socket, t.gen) \in Events
    BY <2>1 DEF Tasks, UserProcedures, GameProcedures, Event, Events
  <2>3. /\ userTasks' \in Seq(Tasks(UserProcedures)) /\ Len(userTasks') <= UserQueueMax
        /\ gameTasks' \in Seq(Tasks(GameProcedures)) /\ Len(gameTasks') <= GameQueueMax
    BY <1>15, <2>2, <1>toUser, <1>toGame DEF FollowUp
  <2>4. eventQueue' \subseteq Events
    BY <1>15, <2>2 DEF FollowUp, TypeOK
  <2> QED
    BY <1>15, <2>3, <2>4 DEF FollowUp, TypeOK, network, maps
<1>16. CASE LogOut
  <2>1. /\ Head(userTasks) \in Tasks(UserProcedures)
        /\ userTasks' \in Seq(Tasks(UserProcedures)) /\ Len(userTasks') <= UserQueueMax
    BY <1>16, <1>user DEF LogOut
  <2> QED
    BY <1>16, <2>1 DEF LogOut, TypeOK, network, maps
<1>17. CASE AccountData
  BY <1>17, <1>user DEF AccountData, TypeOK, network, maps, ghosts
<1>18. CASE GameProcedureFails
  <2>1. PICK proc \in MayFail \cap GameProcedures :
          /\ NextGameTask(proc)
          /\ broken' = IF proc = "AddInventoryItem" THEN broken \cup {Head(gameTasks).socket}
                                                    ELSE broken
    BY <1>18 DEF GameProcedureFails
  <2>2. /\ Head(gameTasks) \in Tasks(GameProcedures)
        /\ gameTasks' \in Seq(Tasks(GameProcedures)) /\ Len(gameTasks') <= GameQueueMax
    BY <2>1, <1>game
  <2>3. broken' \subseteq Sockets
    BY <2>1, <2>2 DEF TypeOK, Tasks
  <2> QED
    BY <1>18, <2>2, <2>3 DEF GameProcedureFails, TypeOK, network, maps
<1>19. CASE AddItem
  <2>1. /\ Head(gameTasks) \in Tasks(GameProcedures)
        /\ gameTasks' \in Seq(Tasks(GameProcedures)) /\ Len(gameTasks') <= GameQueueMax
    BY <1>19, <1>game DEF AddItem
  <2>2. Event("ItemGive", Head(gameTasks).socket, Head(gameTasks).gen) \in Events
    BY <2>1 DEF Tasks, Event, Events
  <2> QED
    BY <1>19, <2>1, <2>2 DEF AddItem, TypeOK, network, maps, ghosts
<1>20. CASE InventoryOrBreak
  BY <1>20, <1>game DEF InventoryOrBreak, TypeOK, network, maps, ghosts
<1>21. CASE UNCHANGED vars
  BY <1>21 DEF vars, TypeOK
<1> QED
  BY <1>1, <1>2, <1>3, <1>4, <1>5, <1>6, <1>7a, <1>7b, <1>7c, <1>8, <1>9, <1>10, <1>11, <1>12,
     <1>13, <1>14, <1>15, <1>16, <1>17, <1>18, <1>19, <1>20, <1>21
  DEF Next, SessionThreads, DisconnectSteps, EventThread, UserWorker, GameWorker

\* Whatever the clients, the timers and the failures do, every variable keeps its
\* type and the task queues their bounds.
THEOREM TypeCorrect == Spec => []TypeOK
<1>1. Init => TypeOK
  BY InitTypeOK
<1>2. TypeOK /\ [Next]_vars => TypeOK'
  BY NextTypeOK
<1> QED
  BY <1>1, <1>2, PTL DEF Spec

-----------------------------------------------------------------------------
(* How the queued log-outs change *)

\* No account gets a log-out it did not have, or a second one.
NoMoreLogOuts ==
  \A a \in Accounts :
    /\ LogOutsOf(a) = {} => LogOutsOf(a)' = {}
    /\ (\A i, j \in LogOutsOf(a) : i = j) => (\A i, j \in LogOutsOf(a)' : i = j)

\* A step that leaves the queue of the user worker alone.
LEMMA SameQueue ==
  ASSUME UNCHANGED userTasks
  PROVE  NoMoreLogOuts
<1>1. ASSUME NEW a \in Accounts
      PROVE  LogOutsOf(a)' = LogOutsOf(a)
  BY DEF LogOutsOf
<1> QED
  BY <1>1 DEF NoMoreLogOuts

\* The log-outs move up by one place when the worker takes a task.
LEMMA TakeLogOuts ==
  ASSUME TypeOK, NEW proc, NextUserTask(proc), NEW a
  PROVE  /\ LogOutsOf(a)' = {i \in 1 .. Len(userTasks) - 1 : i + 1 \in LogOutsOf(a)}
         /\ Head(userTasks) = userTasks[1] /\ Len(userTasks) \in Nat \ {0}
         /\ Head(userTasks) \in Tasks(UserProcedures) /\ Head(userTasks).proc = proc
         /\ userTasks # <<>>
<1>1. userTasks \in Seq(Tasks(UserProcedures)) /\ userTasks # <<>>
  BY DEF TypeOK, NextUserTask
<1>2. /\ Head(userTasks) \in Tasks(UserProcedures) /\ Head(userTasks) = userTasks[1]
      /\ Len(userTasks) \in Nat \ {0}
      /\ Len(Tail(userTasks)) = Len(userTasks) - 1
      /\ \A i \in 1 .. Len(userTasks) - 1 : Tail(userTasks)[i] = userTasks[i + 1]
  BY <1>1, TailType
<1>3. userTasks' = Tail(userTasks) /\ Head(userTasks).proc = proc
  BY DEF NextUserTask
<1>4. LogOutsOf(a)' = {i \in 1 .. Len(userTasks) - 1 :
                         /\ userTasks[i + 1].proc = "UserLogOut"
                         /\ userTasks[i + 1].account = a}
  BY <1>2, <1>3 DEF LogOutsOf
<1>5. \A i \in 1 .. Len(userTasks) - 1 :
        i + 1 \in LogOutsOf(a) <=> /\ userTasks[i + 1].proc = "UserLogOut"
                                   /\ userTasks[i + 1].account = a
  BY <1>2 DEF LogOutsOf
<1> QED
  BY <1>1, <1>2, <1>3, <1>4, <1>5

\* Taking a task of any kind.
LEMMA TakeTask ==
  ASSUME TypeOK, NEW proc, NextUserTask(proc)
  PROVE  NoMoreLogOuts
<1> SUFFICES ASSUME NEW a \in Accounts
             PROVE  /\ LogOutsOf(a) = {} => LogOutsOf(a)' = {}
                    /\ (\A i, j \in LogOutsOf(a) : i = j)
                         => (\A i, j \in LogOutsOf(a)' : i = j)
  BY DEF NoMoreLogOuts
<1>1. /\ LogOutsOf(a)' = {i \in 1 .. Len(userTasks) - 1 : i + 1 \in LogOutsOf(a)}
      /\ Len(userTasks) \in Nat
  BY TakeLogOuts
<1> QED
  BY <1>1

\* Queueing a task, which a full queue drops: only a log-out adds a log-out, and
\* only of its own account.
LEMMA EnqueueLogOuts ==
  ASSUME TypeOK, NEW t \in Tasks(UserProcedures), EnqueueUser(t), NEW a \in Accounts
  PROVE  /\ t.proc # "UserLogOut" \/ t.account # a => LogOutsOf(a)' = LogOutsOf(a)
         /\ LogOutsOf(a) = {} => \A i, j \in LogOutsOf(a)' : i = j
<1> DEFINE n == Len(userTasks)
<1>1. userTasks \in Seq(Tasks(UserProcedures)) /\ n \in Nat
  BY DEF TypeOK
<1>2. CASE userTasks' = Append(userTasks, t)
  <2>1. /\ Len(userTasks') = n + 1
        /\ \A i \in 1 .. n : userTasks'[i] = userTasks[i]
        /\ userTasks'[n + 1] = t
    BY <1>1, <1>2, AppendProperties
  <2>2. 1 .. n + 1 = 1 .. n \cup {n + 1}
    BY <1>1
  <2>3. LogOutsOf(a)' = LogOutsOf(a) \cup
          {i \in {n + 1} : t.proc = "UserLogOut" /\ t.account = a}
    BY <2>1, <2>2 DEF LogOutsOf
  <2> QED
    BY <2>3
<1>3. CASE userTasks' = userTasks
  BY <1>3 DEF LogOutsOf
<1> QED
  BY <1>2, <1>3 DEF EnqueueUser, Enqueue

\* Queueing a task other than a log-out.
LEMMA EnqueueOther ==
  ASSUME TypeOK, NEW t \in Tasks(UserProcedures), EnqueueUser(t), t.proc # "UserLogOut"
  PROVE  NoMoreLogOuts
<1>1. \A a \in Accounts : LogOutsOf(a)' = LogOutsOf(a)
  BY EnqueueLogOuts
<1> QED
  BY <1>1 DEF NoMoreLogOuts

-----------------------------------------------------------------------------
(* The inductive invariant *)

\* What the maps, the disconnects and the login name are accounts.
LEMMA Accounted ==
  ASSUME TypeOK
  PROVE  /\ \A s \in LoggedIn : s \in Sockets /\ socketLoginAccountMap[s] \in Accounts
         /\ \A t \in Threads : Running(t, "erase") \/ Running(t, "enqueue") =>
              disconnect[t].account \in Accounts /\ disconnect[t].socket \in Sockets
         /\ login.step \in {"publish", "record"} => login.task.account \in Accounts
         /\ NoAccount \notin Accounts
<1>1. \A s \in LoggedIn : s \in Sockets /\ socketLoginAccountMap[s] \in Accounts
  BY DEF LoggedIn, TypeOK
<1>2. ASSUME NEW t \in Threads, Running(t, "erase") \/ Running(t, "enqueue")
      PROVE  disconnect[t].account \in Accounts /\ disconnect[t].socket \in Sockets
  <2>1. disconnect[t] \in {Idle} \cup Runs /\ disconnect[t].step \in {"erase", "enqueue"}
    BY <1>2 DEF TypeOK, Running
  <2>2. disconnect[t] \in [step : {"erase", "enqueue"}, socket : Sockets, account : Accounts]
    BY <2>1 DEF Runs, Idle
  <2> QED
    BY <2>2
<1>3. login.step \in {"publish", "record"} => login.task.account \in Accounts
  BY DEF TypeOK, Idle, Tasks
<1> QED
  BY <1>1, <1>2, <1>3, LobbyAssumption DEF LobbyAssumption

\* The disconnects keep what they own while the maps and the disconnects stay.
LEMMA SameDisconnects ==
  ASSUME Safe, UNCHANGED <<socketLoginAccountMap, disconnect, contested>>
  PROVE  EraserOwnsEntry' /\ LoggerOutOwnsAccount'
  BY DEF Safe, EraserOwnsEntry, LoggerOutOwnsAccount, Running, LoggedIn

\* A step that changes nobody's login and erases nothing keeps all but the
\* ownership of the entries.
LEMMA QuietRest ==
  ASSUME TypeOK, Safe, NoMoreLogOuts, contested \subseteq contested',
         UNCHANGED <<socketLoginAccountMap, isActive, login>>,
         \A t \in Threads : Running(t, "enqueue")' => disconnect'[t] = disconnect[t]
  PROVE  /\ OneSocketPerAccount' /\ RecordedIsActive' /\ LogOutOnce'
         /\ LogInOwnsAccount' /\ LoggerOutOwnsAccount'
<1>1. LoggedIn' = LoggedIn
  BY DEF LoggedIn
<1>2. \A t \in Threads : Running(t, "enqueue")' =>
        Running(t, "enqueue") /\ disconnect'[t] = disconnect[t]
  BY DEF Running
<1>3. OneSocketPerAccount'
  BY <1>1 DEF Safe, OneSocketPerAccount
<1>4. RecordedIsActive'
  BY <1>1, Accounted DEF Safe, RecordedIsActive, NoMoreLogOuts
<1>5. LogOutOnce'
  <2> SUFFICES ASSUME NEW a \in Accounts, a \notin contested'
               PROVE  /\ \A i, j \in LogOutsOf(a)' : a \in isActive /\ i = j
                      /\ \A t \in Threads : Running(t, "enqueue")' /\ disconnect'[t].account = a =>
                           a \in isActive /\ LogOutsOf(a)' = {}
    BY DEF LogOutOnce
  <2>1. /\ \A i, j \in LogOutsOf(a) : a \in isActive /\ i = j
        /\ \A t \in Threads : Running(t, "enqueue") /\ disconnect[t].account = a =>
             a \in isActive /\ LogOutsOf(a) = {}
    BY DEF Safe, LogOutOnce
  <2> QED
    BY <1>2, <2>1 DEF NoMoreLogOuts
<1>6. LogInOwnsAccount'
  <2> SUFFICES ASSUME login.step \in {"publish", "record"}, login.task.account \notin contested
               PROVE  /\ login.task.account \in isActive
                      /\ LogOutsOf(login.task.account)' = {}
                      /\ \A s \in LoggedIn : socketLoginAccountMap[s] # login.task.account
                      /\ \A t \in Threads : Running(t, "enqueue")' =>
                           disconnect'[t].account # login.task.account
    BY <1>1 DEF LogInOwnsAccount
  <2>1. /\ login.task.account \in isActive
        /\ LogOutsOf(login.task.account) = {}
        /\ \A s \in LoggedIn : socketLoginAccountMap[s] # login.task.account
        /\ \A t \in Threads : Running(t, "enqueue") =>
             disconnect[t].account # login.task.account
    BY DEF Safe, LogInOwnsAccount
  <2>2. LogOutsOf(login.task.account)' = {}
    BY <2>1, Accounted DEF NoMoreLogOuts
  <2> QED
    BY <1>2, <2>1, <2>2
<1>7. LoggerOutOwnsAccount'
  BY <1>1, <1>2 DEF Safe, LoggerOutOwnsAccount
<1> QED
  BY <1>3, <1>4, <1>5, <1>6, <1>7

\* A step that changes nobody's login and brings no disconnect to an entry.
LEMMA QuietStep ==
  ASSUME TypeOK, Safe, NoMoreLogOuts,
         UNCHANGED <<socketLoginAccountMap, isActive, login, contested>>,
         \A t \in Threads : Running(t, "erase")' \/ Running(t, "enqueue")' =>
           disconnect'[t] = disconnect[t]
  PROVE  Safe'
<1>1. /\ OneSocketPerAccount' /\ RecordedIsActive' /\ LogOutOnce'
      /\ LogInOwnsAccount' /\ LoggerOutOwnsAccount'
  BY QuietRest
<1>2. \A t \in Threads : Running(t, "erase")' =>
        Running(t, "erase") /\ disconnect'[t] = disconnect[t]
  BY DEF Running
<1>3. EraserOwnsEntry'
  BY <1>2 DEF Safe, EraserOwnsEntry
<1> QED
  BY <1>1, <1>3 DEF Safe

\* A disconnect reads an entry: alone, it will find it again; otherwise the account
\* is contested from here on (LobbyManager.cpp line 171).
LEMMA FindEntrySafe ==
  ASSUME TypeOK, Safe, NEW t \in Threads, FindEntry(t)
  PROVE  Safe'
<1> PICK s : s = disconnect[t].socket
  OBVIOUS
<1>1. s \in Sockets /\ disconnect[t] \in Runs
  BY DEF FindEntry, Running, TypeOK, Runs, Idle
<1> PICK x : x = [step |-> IF s \in LoggedIn THEN "erase" ELSE "rearm", socket |-> s,
                  account |-> socketLoginAccountMap[s]]
  OBVIOUS
<1>2. /\ disconnect' = [disconnect EXCEPT ![t] = x]
      /\ contested \subseteq contested'
      /\ UNCHANGED <<socketLoginAccountMap, isActive, login, userTasks>>
  BY DEF FindEntry
<1>3. /\ disconnect'[t] = x
      /\ \A u \in Threads : u # t => disconnect'[u] = disconnect[u]
      /\ Running(t, "find")
  BY <1>2 DEF TypeOK, FindEntry
<1>4. \A u \in Threads : Running(u, "enqueue")' => disconnect'[u] = disconnect[u]
  BY <1>3 DEF Running
<1>5. /\ OneSocketPerAccount' /\ RecordedIsActive' /\ LogOutOnce'
      /\ LogInOwnsAccount' /\ LoggerOutOwnsAccount'
  BY <1>2, <1>4, QuietRest, SameQueue
<1>6. EraserOwnsEntry'
  <2> SUFFICES ASSUME NEW u \in Threads, Running(u, "erase")',
                      disconnect'[u].account \notin contested'
               PROVE  /\ socketLoginAccountMap[disconnect'[u].socket] = disconnect'[u].account
                      /\ \A v \in Threads : Running(v, "erase")'
                           /\ disconnect'[v].socket = disconnect'[u].socket => v = u
    BY <1>2 DEF EraserOwnsEntry
  <2>1. \A v \in Threads : Running(v, "erase")' =>
          \/ v # t /\ Running(v, "erase") /\ disconnect'[v] = disconnect[v]
          \/ v = t /\ disconnect'[v] = x /\ s \in LoggedIn
    BY <1>3 DEF Running
  <2>2. ASSUME NEW v \in Threads, Running(v, "erase"), disconnect[v].socket = s, s \in LoggedIn
        PROVE  socketLoginAccountMap[s] \in contested'
    BY <2>2 DEF FindEntry, LoggedIn
  <2>3. CASE u = t
    BY <2>1, <2>2, <2>3
  <2>4. CASE u # t
    <3>1. Running(u, "erase") /\ disconnect'[u] = disconnect[u] /\ disconnect[u].account \notin contested
      BY <1>2, <2>1, <2>4
    <3>2. /\ socketLoginAccountMap[disconnect[u].socket] = disconnect[u].account
          /\ \A v \in Threads : Running(v, "erase") /\ disconnect[v].socket = disconnect[u].socket
               => v = u
      BY <3>1 DEF Safe, EraserOwnsEntry
    <3> QED
      BY <2>1, <2>2, <3>1, <3>2
  <2> QED
    BY <2>3, <2>4
<1> QED
  BY <1>5, <1>6 DEF Safe

\* A disconnect erases an entry: its account is still active, no log-out of it is
\* queued, and nobody else is about to queue one (LobbyManager.cpp line 178).
LEMMA EraseEntrySafe ==
  ASSUME TypeOK, Safe, NEW t \in Threads, EraseEntry(t)
  PROVE  Safe'
<1> PICK s : s = disconnect[t].socket
  OBVIOUS
<1> PICK a : a = disconnect[t].account
  OBVIOUS
<1>1. Running(t, "erase") /\ s \in Sockets /\ a \in Accounts /\ a # NoAccount
  BY Accounted DEF EraseEntry
<1>2. /\ disconnect' = [disconnect EXCEPT ![t].step = "enqueue"]
      /\ socketLoginAccountMap' = [socketLoginAccountMap EXCEPT ![s] = NoAccount]
      /\ contested' = contested \cup ({socketLoginAccountMap[s]} \ {NoAccount, a})
      /\ UNCHANGED <<isActive, login, userTasks>>
  BY DEF EraseEntry
<1>3. /\ disconnect'[t].step = "enqueue" /\ disconnect'[t].account = a
      /\ \A u \in Threads : u # t => disconnect'[u] = disconnect[u]
  BY <1>1, <1>2 DEF TypeOK, Running, Idle, Runs
<1>4. /\ LoggedIn' = LoggedIn \ {s}
      /\ \A r \in Sockets : r # s => socketLoginAccountMap'[r] = socketLoginAccountMap[r]
  BY <1>2 DEF LoggedIn, TypeOK
<1>5. \A b \in Accounts : LogOutsOf(b)' = LogOutsOf(b)
  BY <1>2 DEF LogOutsOf
<1>6. a \notin contested' =>
        /\ s \in LoggedIn /\ socketLoginAccountMap[s] = a
        /\ \A u \in Threads : Running(u, "erase") /\ disconnect[u].socket = s => u = t
  BY <1>1, <1>2 DEF Safe, EraserOwnsEntry, LoggedIn
<1>7. \A u \in Threads : Running(u, "enqueue")' =>
        \/ u # t /\ Running(u, "enqueue") /\ disconnect'[u] = disconnect[u]
        \/ u = t /\ disconnect'[u].account = a
  BY <1>3 DEF Running
<1>8. \A u \in Threads : Running(u, "erase")' =>
        u # t /\ Running(u, "erase") /\ disconnect'[u] = disconnect[u]
  BY <1>3 DEF Running
<1>9. contested \subseteq contested' /\ LoggedIn \subseteq Sockets
  BY <1>2 DEF LoggedIn
<1>10. OneSocketPerAccount'
  BY <1>4, <1>9 DEF Safe, OneSocketPerAccount
<1>11. RecordedIsActive'
  BY <1>2, <1>4, <1>5, <1>9, Accounted DEF Safe, RecordedIsActive
<1>12. a \notin contested' => a \in isActive /\ LogOutsOf(a) = {}
  BY <1>6, <1>9 DEF Safe, RecordedIsActive
<1>13. LogOutOnce'
  <2> SUFFICES ASSUME NEW b \in Accounts, b \notin contested'
               PROVE  /\ \A i, j \in LogOutsOf(b)' : b \in isActive /\ i = j
                      /\ \A u \in Threads : Running(u, "enqueue")' /\ disconnect'[u].account = b =>
                           b \in isActive /\ LogOutsOf(b)' = {}
    BY <1>2 DEF LogOutOnce
  <2>1. /\ \A i, j \in LogOutsOf(b) : b \in isActive /\ i = j
        /\ \A u \in Threads : Running(u, "enqueue") /\ disconnect[u].account = b =>
             b \in isActive /\ LogOutsOf(b) = {}
    BY <1>9 DEF Safe, LogOutOnce
  <2> QED
    BY <1>5, <1>7, <1>12, <2>1
<1>14. LogInOwnsAccount'
  <2> SUFFICES ASSUME NEW b \in Accounts, login.step \in {"publish", "record"},
                      b = login.task.account, b \notin contested'
               PROVE  /\ b \in isActive
                      /\ LogOutsOf(b)' = {}
                      /\ \A r \in LoggedIn' : socketLoginAccountMap'[r] # b
                      /\ \A u \in Threads : Running(u, "enqueue")' => disconnect'[u].account # b
    BY <1>2, <1>5, Accounted DEF LogInOwnsAccount
  <2>1. /\ b \in isActive
        /\ LogOutsOf(b) = {}
        /\ \A r \in LoggedIn : socketLoginAccountMap[r] # b
        /\ \A u \in Threads : Running(u, "enqueue") => disconnect[u].account # b
    BY <1>9 DEF Safe, LogInOwnsAccount
  <2> QED
    BY <1>4, <1>5, <1>6, <1>7, <1>9, <2>1
<1>15. EraserOwnsEntry'
  <2> SUFFICES ASSUME NEW u \in Threads, Running(u, "erase")',
                      disconnect'[u].account \notin contested'
               PROVE  /\ socketLoginAccountMap'[disconnect'[u].socket] = disconnect'[u].account
                      /\ \A v \in Threads : Running(v, "erase")'
                           /\ disconnect'[v].socket = disconnect'[u].socket => v = u
    BY DEF EraserOwnsEntry
  <2>1. /\ u # t /\ Running(u, "erase") /\ disconnect'[u] = disconnect[u]
        /\ disconnect[u].account \notin contested /\ disconnect[u].socket \in Sockets
    BY <1>8, <1>9, Accounted
  <2>2. /\ socketLoginAccountMap[disconnect[u].socket] = disconnect[u].account
        /\ \A v \in Threads : Running(v, "erase") /\ disconnect[v].socket = disconnect[u].socket
             => v = u
    BY <2>1 DEF Safe, EraserOwnsEntry
  <2>3. disconnect[u].socket # s
    BY <1>1, <2>1, <2>2
  <2> QED
    BY <1>4, <1>8, <2>1, <2>2, <2>3
<1>16. LoggerOutOwnsAccount'
  <2> SUFFICES ASSUME NEW u \in Threads, Running(u, "enqueue")',
                      disconnect'[u].account \notin contested'
               PROVE  /\ \A r \in LoggedIn' : socketLoginAccountMap'[r] # disconnect'[u].account
                      /\ \A v \in Threads : Running(v, "enqueue")'
                           /\ disconnect'[v].account = disconnect'[u].account => v = u
    BY DEF LoggerOutOwnsAccount
  <2>1. \A v \in Threads : Running(v, "enqueue") /\ disconnect[v].account \notin contested =>
          /\ \A r \in LoggedIn : socketLoginAccountMap[r] # disconnect[v].account
          /\ \A w \in Threads : Running(w, "enqueue")
               /\ disconnect[w].account = disconnect[v].account => w = v
    BY DEF Safe, LoggerOutOwnsAccount
  <2>2. CASE u = t
    <3>1. disconnect'[u].account = a /\ a \notin contested' /\ a \notin contested
      BY <1>3, <1>9, <2>2
    <3>2. \A r \in LoggedIn' : socketLoginAccountMap'[r] # a
      BY <1>4, <1>6, <1>9, <3>1 DEF Safe, OneSocketPerAccount
    <3>3. \A v \in Threads : Running(v, "enqueue") => disconnect[v].account # a
      BY <1>6, <2>1, <3>1
    <3> QED
      BY <1>7, <2>2, <3>1, <3>2, <3>3
  <2>3. CASE u # t
    <3>1. Running(u, "enqueue") /\ disconnect'[u] = disconnect[u] /\ disconnect[u].account \notin contested
      BY <1>7, <1>9, <2>3
    <3>2. a # disconnect[u].account
      BY <1>6, <2>1, <3>1
    <3> QED
      BY <1>4, <1>7, <1>9, <2>1, <3>1, <3>2
  <2> QED
    BY <2>2, <2>3
<1> QED
  BY <1>10, <1>11, <1>13, <1>14, <1>15, <1>16 DEF Safe

\* A disconnect queues the only log-out of its account, or loses it (LobbyManager.cpp
\* lines 179-182).
LEMMA QueueLogOutSafe ==
  ASSUME TypeOK, Safe, NEW t \in Threads, QueueLogOut(t)
  PROVE  Safe'
<1> PICK s : s = disconnect[t].socket
  OBVIOUS
<1> PICK a : a = disconnect[t].account
  OBVIOUS
<1> DEFINE task == Task("UserLogOut", s, gen[s], a)
<1>1. Running(t, "enqueue") /\ s \in Sockets /\ a \in Accounts
  BY Accounted DEF QueueLogOut
<1>2. /\ task \in Tasks(UserProcedures) /\ task.account = a
      /\ EnqueueUser(task)
  BY <1>1 DEF QueueLogOut, Task, Tasks, UserProcedures, TypeOK
<1> HIDE DEF task
<1>3. /\ disconnect' = [disconnect EXCEPT ![t].step = "rearm"]
      /\ UNCHANGED <<socketLoginAccountMap, isActive, login, contested>>
      /\ LoggedIn' = LoggedIn
  BY DEF QueueLogOut, maps, LoggedIn
<1>4. /\ \A b \in Accounts : b # a => LogOutsOf(b)' = LogOutsOf(b)
      /\ LogOutsOf(a) = {} => \A i, j \in LogOutsOf(a)' : i = j
  BY <1>1, <1>2, EnqueueLogOuts
<1>5. /\ disconnect'[t].step = "rearm"
      /\ \A u \in Threads : u # t => disconnect'[u] = disconnect[u]
  BY <1>1, <1>3 DEF TypeOK, Running, Runs, Idle
<1>6. \A u \in Threads : \A step \in {"erase", "enqueue"} : Running(u, step)' =>
        u # t /\ Running(u, step) /\ disconnect'[u] = disconnect[u]
  BY <1>5 DEF Running
<1>7. a \notin contested =>
        /\ a \in isActive /\ LogOutsOf(a) = {}
        /\ \A r \in LoggedIn : socketLoginAccountMap[r] # a
        /\ \A u \in Threads : Running(u, "enqueue") /\ disconnect[u].account = a => u = t
  BY <1>1 DEF Safe, LogOutOnce, LoggerOutOwnsAccount
<1>8. OneSocketPerAccount'
  BY <1>3 DEF Safe, OneSocketPerAccount
<1>9. RecordedIsActive'
  BY <1>3, <1>4, <1>7, Accounted DEF Safe, RecordedIsActive
<1>10. LogOutOnce'
  <2> SUFFICES ASSUME NEW b \in Accounts, b \notin contested
               PROVE  /\ \A i, j \in LogOutsOf(b)' : b \in isActive /\ i = j
                      /\ \A u \in Threads : Running(u, "enqueue")' /\ disconnect'[u].account = b =>
                           b \in isActive /\ LogOutsOf(b)' = {}
    BY <1>3 DEF LogOutOnce
  <2>1. /\ \A i, j \in LogOutsOf(b) : b \in isActive /\ i = j
        /\ \A u \in Threads : Running(u, "enqueue") /\ disconnect[u].account = b =>
             b \in isActive /\ LogOutsOf(b) = {}
    BY DEF Safe, LogOutOnce
  <2>2. CASE b = a
    BY <1>4, <1>6, <1>7, <2>2
  <2>3. CASE b # a
    BY <1>4, <1>6, <2>1, <2>3
  <2> QED
    BY <2>2, <2>3
<1>11. LogInOwnsAccount'
  <2> SUFFICES ASSUME NEW b \in Accounts, login.step \in {"publish", "record"},
                      b = login.task.account, b \notin contested
               PROVE  /\ b \in isActive
                      /\ LogOutsOf(b)' = {}
                      /\ \A r \in LoggedIn : socketLoginAccountMap[r] # b
                      /\ \A u \in Threads : Running(u, "enqueue")' => disconnect'[u].account # b
    <3>1. login.step \in {"publish", "record"} =>
            \A b \in Accounts : b = login.task.account => LogOutsOf(login.task.account)' = LogOutsOf(b)'
      BY <1>3
    <3> QED
      BY <1>3, <3>1, Accounted DEF LogInOwnsAccount
  <2>1. /\ b \in isActive
        /\ LogOutsOf(b) = {}
        /\ \A r \in LoggedIn : socketLoginAccountMap[r] # b
        /\ \A u \in Threads : Running(u, "enqueue") => disconnect[u].account # b
    BY DEF Safe, LogInOwnsAccount
  <2> QED
    BY <1>1, <1>4, <1>6, <2>1
<1>12. EraserOwnsEntry'
  BY <1>3, <1>6 DEF Safe, EraserOwnsEntry
<1>13. LoggerOutOwnsAccount'
  BY <1>3, <1>6 DEF Safe, LoggerOutOwnsAccount
<1> QED
  BY <1>8, <1>9, <1>10, <1>11, <1>12, <1>13 DEF Safe

\* A log-in takes an account that is not active: no socket has it, and no log-out
\* of it is queued or about to be (UserDatabase.sql lines 297-314).
LEMMA LogInSucceedsSafe ==
  ASSUME TypeOK, Safe, LogInSucceeds
  PROVE  Safe'
<1> DEFINE t == Head(userTasks)
           b == t.account
<1>1. /\ NextUserTask("UserLogIn") /\ b \notin isActive /\ login = Idle
      /\ isActive' = isActive \cup {b} /\ login' = [step |-> "publish", task |-> t]
      /\ UNCHANGED <<socketLoginAccountMap, disconnect, contested>>
  BY DEF LogInSucceeds, NextUserTask, network, maps, ghosts
<1>2. NoMoreLogOuts /\ b \in Accounts
  BY <1>1, TakeTask, TakeLogOuts DEF Tasks
<1>3. LoggedIn' = LoggedIn /\ \A s \in LoggedIn : socketLoginAccountMap[s] \in Accounts
  BY <1>1 DEF LoggedIn, TypeOK
<1>4. OneSocketPerAccount'
  BY <1>1, <1>3 DEF Safe, OneSocketPerAccount
<1>5. RecordedIsActive'
  BY <1>1, <1>2, <1>3 DEF Safe, RecordedIsActive, NoMoreLogOuts
<1>6. LogOutOnce'
  BY <1>1, <1>2 DEF Safe, LogOutOnce, NoMoreLogOuts, Running
<1>7. b \notin contested =>
        /\ LogOutsOf(b) = {} /\ \A s \in LoggedIn : socketLoginAccountMap[s] # b
        /\ \A u \in Threads : Running(u, "enqueue") => disconnect[u].account # b
  BY <1>1, <1>2 DEF Safe, LogOutOnce, RecordedIsActive
<1>8. LogInOwnsAccount'
  BY <1>1, <1>2, <1>3, <1>7 DEF LogInOwnsAccount, NoMoreLogOuts, Running
<1> QED
  BY <1>1, <1>4, <1>5, <1>6, <1>8, SameDisconnects DEF Safe

\* The account of a login is recorded while it still owns it (LobbyManager.cpp
\* lines 261-268); an entry the socket already has stays.
LEMMA RecordLogInSafe ==
  ASSUME TypeOK, Safe, RecordLogIn
  PROVE  Safe'
<1> DEFINE b == login.task.account
           r == login.task.socket
<1>1. /\ r \in Sockets /\ b \in Accounts /\ login'.step = "followUp"
      /\ UNCHANGED <<userTasks, isActive, disconnect, contested>>
  <2>1. login \in [step : {"publish", "record", "followUp"}, task : Tasks({"UserLogIn"})]
    BY DEF RecordLogIn, TypeOK, Idle
  <2>2. login' = [login EXCEPT !.step = "followUp"]
    BY DEF RecordLogIn
  <2>3. login'.step = "followUp"
    BY <2>1, <2>2
  <2> QED
    BY <2>1, <2>3 DEF RecordLogIn, Tasks, network, ghosts
<1>2. b \notin contested =>
        /\ b \in isActive /\ LogOutsOf(b) = {}
        /\ \A s \in LoggedIn : socketLoginAccountMap[s] # b
        /\ \A t \in Threads : Running(t, "enqueue") => disconnect[t].account # b
  BY DEF RecordLogIn, Safe, LogInOwnsAccount
<1>3. NoMoreLogOuts
  BY <1>1, SameQueue
<1>4. \A s \in LoggedIn' : \/ s \in LoggedIn /\ socketLoginAccountMap'[s] = socketLoginAccountMap[s]
                           \/ s = r /\ socketLoginAccountMap'[s] = b
  BY <1>1 DEF RecordLogIn, LoggedIn, TypeOK
<1>5. OneSocketPerAccount'
  BY <1>1, <1>2, <1>4 DEF Safe, OneSocketPerAccount
<1>6. RecordedIsActive'
  <2>1. \A s \in LoggedIn : socketLoginAccountMap[s] \in Accounts
    BY DEF LoggedIn, TypeOK
  <2> QED
    BY <1>1, <1>2, <1>3, <1>4, <2>1 DEF Safe, RecordedIsActive, NoMoreLogOuts
<1>7. LogOutOnce'
  BY <1>1, <1>3 DEF Safe, LogOutOnce, NoMoreLogOuts, Running
<1>8. LogInOwnsAccount'
  BY <1>1 DEF LogInOwnsAccount
<1>9. EraserOwnsEntry'
  <2>1. \A s \in LoggedIn : socketLoginAccountMap'[s] = socketLoginAccountMap[s]
    BY <1>1 DEF RecordLogIn, LoggedIn, TypeOK
  <2>2. \A t \in Threads : Running(t, "erase") /\ disconnect[t].account \notin contested =>
          disconnect[t].socket \in LoggedIn
    BY Accounted DEF Safe, EraserOwnsEntry, LoggedIn
  <2> QED
    BY <1>1, <2>1, <2>2 DEF Safe, EraserOwnsEntry, Running
<1>10. LoggerOutOwnsAccount'
  BY <1>1, <1>2, <1>4 DEF Safe, LoggerOutOwnsAccount, Running
<1> QED
  BY <1>5, <1>6, <1>7, <1>8, <1>9, <1>10 DEF Safe

\* A log-out runs while no socket, no login and no disconnect has its account, and
\* it is the last one queued (UserDatabase.sql lines 335-386).
LEMMA LogOutSafe ==
  ASSUME TypeOK, Safe, LogOut
  PROVE  Safe'
<1> PICK b \in Accounts : b = Head(userTasks).account
  <2>1. NextUserTask("UserLogOut")
    BY DEF LogOut
  <2> QED
    BY <2>1, TakeLogOuts DEF Tasks
<1>1. /\ NextUserTask("UserLogOut") /\ isActive' = isActive \ {b}
      /\ login = Idle /\ UNCHANGED <<socketLoginAccountMap, login, disconnect, contested>>
  BY DEF LogOut, NextUserTask, network, maps
<1>2. /\ NoMoreLogOuts /\ Len(userTasks) \in Nat \ {0} /\ 1 \in LogOutsOf(b)
      /\ LogOutsOf(b)' = {i \in 1 .. Len(userTasks) - 1 : i + 1 \in LogOutsOf(b)}
  <2>1. NoMoreLogOuts
    BY <1>1, TakeTask
  <2>2. /\ Head(userTasks) \in Tasks(UserProcedures) /\ Head(userTasks) = userTasks[1]
        /\ Head(userTasks).proc = "UserLogOut" /\ Len(userTasks) \in Nat \ {0}
        /\ LogOutsOf(b)' = {i \in 1 .. Len(userTasks) - 1 : i + 1 \in LogOutsOf(b)}
    BY <1>1, TakeLogOuts
  <2>3. 1 \in LogOutsOf(b)
    BY <2>2 DEF LogOutsOf
  <2> QED
    BY <2>1, <2>2, <2>3
<1>3. b \notin contested => LogOutsOf(b)' = {}
  <2>1. b \notin contested => \A i, j \in LogOutsOf(b) : i = j
    BY DEF Safe, LogOutOnce
  <2> QED
    BY <1>2, <2>1
<1>4. LoggedIn' = LoggedIn /\ \A s \in LoggedIn : socketLoginAccountMap[s] \in Accounts
  BY <1>1 DEF LoggedIn, TypeOK
<1>5. OneSocketPerAccount'
  BY <1>1, <1>4 DEF Safe, OneSocketPerAccount
<1>6. RecordedIsActive'
  BY <1>1, <1>2, <1>4 DEF Safe, RecordedIsActive, NoMoreLogOuts
<1>7. LogOutOnce'
  <2> SUFFICES ASSUME NEW a \in Accounts, a \notin contested
               PROVE  /\ \A i, j \in LogOutsOf(a)' : a \in isActive' /\ i = j
                      /\ \A t \in Threads : Running(t, "enqueue") /\ disconnect[t].account = a =>
                           a \in isActive' /\ LogOutsOf(a)' = {}
    BY <1>1 DEF LogOutOnce, Running
  <2>1. /\ \A i, j \in LogOutsOf(a) : a \in isActive /\ i = j
        /\ \A t \in Threads : Running(t, "enqueue") /\ disconnect[t].account = a =>
             a \in isActive /\ LogOutsOf(a) = {}
    BY DEF Safe, LogOutOnce
  <2>2. CASE a = b
    BY <1>2, <1>3, <2>1, <2>2
  <2>3. CASE a # b
    BY <1>1, <1>2, <2>1, <2>3 DEF NoMoreLogOuts
  <2> QED
    BY <2>2, <2>3
<1>8. LogInOwnsAccount'
  <2>1. login'.step = "idle"
    BY <1>1 DEF Idle
  <2> QED
    BY <2>1 DEF LogInOwnsAccount
<1> QED
  BY <1>1, <1>5, <1>6, <1>7, <1>8, SameDisconnects DEF Safe

\* The remaining steps of a login: what Redis is told, and the follow-up tasks.
LEMMA LogInStepsSafe ==
  ASSUME TypeOK, Safe, PublishRemaining \/ FollowUp
  PROVE  Safe'
<1>1. login \in [step : {"publish", "record", "followUp"}, task : Tasks({"UserLogIn"})]
  BY DEF PublishRemaining, FollowUp, TypeOK, Idle
<1>2. /\ UNCHANGED <<socketLoginAccountMap, isActive, disconnect, contested>>
      /\ LoggedIn' = LoggedIn
  BY DEF PublishRemaining, FollowUp, LoggedIn, network, maps, ghosts
<1>3. NoMoreLogOuts
  <2>1. CASE PublishRemaining
    BY <2>1, SameQueue DEF PublishRemaining
  <2>2. CASE FollowUp
    <3> DEFINE t == [login.task EXCEPT !.proc = "GetAccountData"]
    <3>1. t \in Tasks(UserProcedures) /\ t.proc # "UserLogOut"
      BY <1>1 DEF Tasks, UserProcedures
    <3>2. EnqueueUser(t)
      BY <2>2 DEF FollowUp
    <3> QED
      BY <3>1, <3>2, EnqueueOther
  <2> QED
    BY <2>1, <2>2
<1>4. \/ login' = Idle
      \/ login.step = "publish" /\ login'.task = login.task
  <2>1. CASE PublishRemaining
    <3>1. login' = [login EXCEPT !.step = "record"] /\ login.step = "publish"
      BY <2>1 DEF PublishRemaining
    <3> QED
      BY <1>1, <3>1
  <2> QED
    BY <2>1 DEF FollowUp
<1>5. OneSocketPerAccount'
  BY <1>2 DEF Safe, OneSocketPerAccount
<1>6. RecordedIsActive'
  <2>1. \A s \in LoggedIn : socketLoginAccountMap[s] \in Accounts
    BY DEF LoggedIn, TypeOK
  <2> QED
    BY <1>2, <1>3, <2>1 DEF Safe, RecordedIsActive, NoMoreLogOuts
<1>7. LogOutOnce'
  BY <1>2, <1>3 DEF Safe, LogOutOnce, NoMoreLogOuts, Running
<1>8. LogInOwnsAccount'
  <2>1. CASE login' = Idle
    <3>1. login'.step = "idle"
      BY <2>1 DEF Idle
    <3> QED
      BY <3>1 DEF LogInOwnsAccount
  <2>2. CASE login.step = "publish" /\ login'.task = login.task
    <3> PICK a \in Accounts : a = login.task.account
      BY <1>1 DEF Tasks
    <3>1. a \notin contested =>
            /\ a \in isActive /\ LogOutsOf(a) = {}
            /\ \A s \in LoggedIn : socketLoginAccountMap[s] # a
            /\ \A t \in Threads : Running(t, "enqueue") => disconnect[t].account # a
      BY <2>2 DEF Safe, LogInOwnsAccount
    <3>2. login'.task.account = a /\ (a \notin contested => LogOutsOf(a)' = {})
      BY <1>3, <2>2, <3>1 DEF NoMoreLogOuts
    <3> QED
      BY <1>2, <3>1, <3>2 DEF LogInOwnsAccount, Running
  <2> QED
    BY <1>4, <2>1, <2>2
<1> QED
  BY <1>2, <1>5, <1>6, <1>7, <1>8, SameDisconnects DEF Safe

\* At the start nobody is logged in and nothing is queued.
LEMMA InitIInv == Init => IInv
<1> SUFFICES ASSUME Init
             PROVE  IInv
  OBVIOUS
<1>1. TypeOK
  BY InitTypeOK
<1>2. LoggedIn = {} /\ \A a \in Accounts : LogOutsOf(a) = {}
  BY DEF Init, LoggedIn, LogOutsOf
<1>3. login.step = "idle" /\ \A t \in Threads : disconnect[t].step = "idle"
  BY DEF Init, Idle
<1> QED
  BY <1>1, <1>2, <1>3
  DEF IInv, Safe, OneSocketPerAccount, RecordedIsActive, LogOutOnce, LogInOwnsAccount,
      EraserOwnsEntry, LoggerOutOwnsAccount, Running

\* Every step of every thread keeps the inductive invariant.
LEMMA NextIInv == IInv /\ [Next]_vars => IInv'
<1> SUFFICES ASSUME TypeOK, Safe, [Next]_vars
             PROVE  Safe'
  BY NextTypeOK DEF IInv
<1>1. ASSUME UNCHANGED <<socketLoginAccountMap, isActive, login, userTasks, disconnect,
                         contested>>
      PROVE  Safe'
  BY <1>1, QuietStep, SameQueue
<1>begin. ASSUME NEW t \in Threads, NEW s \in Sockets, BeginDisconnect(t, s),
                 UNCHANGED <<socketLoginAccountMap, isActive, login, userTasks, contested>>
          PROVE  Safe'
  <2>1. \A u \in Threads : Running(u, "erase")' \/ Running(u, "enqueue")' =>
          disconnect'[u] = disconnect[u]
    BY <1>begin DEF BeginDisconnect, Running, TypeOK
  <2> QED
    BY <1>begin, <2>1, QuietStep, SameQueue
<1>2. ASSUME NEW s \in Sockets, NEW a \in Accounts, NEW v \in BOOLEAN, RequestLogin(s, a, v)
      PROVE  Safe'
  <2>1. CASE v
    <3> DEFINE t == Task("UserLogIn", s, gen[s], a)
    <3>1. t \in Tasks(UserProcedures) /\ t.proc # "UserLogOut"
      BY DEF Task, Tasks, UserProcedures, TypeOK
    <3>2. EnqueueUser(t) /\ UNCHANGED <<socketLoginAccountMap, isActive, login, disconnect,
                                       contested>>
      BY <1>2, <2>1 DEF RequestLogin, maps, ghosts
    <3> QED
      BY <3>1, <3>2, EnqueueOther, QuietStep
  <2>2. CASE ~v
    BY <1>1, <1>2, <2>2 DEF RequestLogin, maps, ghosts
  <2> QED
    BY <2>1, <2>2
<1>3. ASSUME NEW s \in Sockets,
             (\E g \in Gens : Accept(s, g)) \/ RequestItemBreak(s)
      PROVE  Safe'
  BY <1>1, <1>3 DEF Accept, RequestItemBreak, network, maps, ghosts
<1>4. ASSUME NEW c \in accepting, ProcessAccept(c)
      PROVE  Safe'
  BY <1>1, <1>4 DEF ProcessAccept, ghosts
<1>5. ASSUME NEW s \in Sockets, NEW t \in Sessions, Disconnect(t, s)
      PROVE  Safe'
  BY <1>5, <1>begin DEF Disconnect, Threads, maps, ghosts
<1>6. ASSUME NEW t \in Threads, Rearm(t)
      PROVE  Safe'
  <2>1. \A u \in Threads : Running(u, "erase")' \/ Running(u, "enqueue")' =>
          disconnect'[u] = disconnect[u]
    BY <1>6 DEF Rearm, Running, TypeOK, Idle
  <2> QED
    BY <1>6, <2>1, QuietStep, SameQueue DEF Rearm, maps, ghosts
<1>7. ASSUME NEW t \in Threads, FindEntry(t) \/ EraseEntry(t) \/ QueueLogOut(t)
      PROVE  Safe'
  BY <1>7, FindEntrySafe, EraseEntrySafe, QueueLogOutSafe
<1>8. ASSUME NEW e \in eventQueue, LoginTimeout(e)
      PROVE  Safe'
  <2>1. e.socket \in Sockets /\ Timer \in Threads
    BY DEF TypeOK, Events, Threads
  <2>2. CASE BeginDisconnect(Timer, e.socket)
    BY <1>8, <1>begin, <2>1, <2>2 DEF LoginTimeout, maps, ghosts
  <2>3. CASE UNCHANGED disconnect
    BY <1>1, <1>8, <2>3 DEF LoginTimeout, maps, ghosts
  <2> QED
    BY <1>8, <2>2, <2>3 DEF LoginTimeout
<1>9. ASSUME NEW e \in eventQueue, ItemGive(e)
      PROVE  Safe'
  BY <1>1, <1>9 DEF ItemGive, network, maps
<1>10. ASSUME NEW proc, NextUserTask(proc),
              UNCHANGED <<socketLoginAccountMap, isActive, login, disconnect, contested>>
       PROVE  Safe'
  BY <1>10, TakeTask, QuietStep
<1>11. CASE UserProcedureFails \/ LogInRefused \/ AccountData
  BY <1>10, <1>11 DEF UserProcedureFails, LogInRefused, AccountData, network, maps, ghosts
<1>12. CASE LogInSucceeds
  BY <1>12, LogInSucceedsSafe
<1>13. CASE PublishRemaining \/ FollowUp
  BY <1>13, LogInStepsSafe
<1>14. CASE RecordLogIn
  BY <1>14, RecordLogInSafe
<1>15. CASE LogOut
  BY <1>15, LogOutSafe
<1>16. CASE GameWorker
  BY <1>1, <1>16
  DEF GameWorker, GameProcedureFails, AddItem, InventoryOrBreak, network, maps, ghosts
<1>17. CASE UNCHANGED vars
  BY <1>1, <1>17 DEF vars
<1> QED
  BY <1>2, <1>3, <1>4, <1>5, <1>6, <1>7, <1>8, <1>9, <1>11, <1>12, <1>13, <1>14, <1>15,
     <1>16, <1>17
  DEF Next, SessionThreads, DisconnectSteps, EventThread, UserWorker

\* The inductive invariant holds in every reachable state.
THEOREM Invariance == Spec => []IInv
<1>1. Init => IInv
  BY InitIInv
<1>2. IInv /\ [Next]_vars => IInv'
  BY NextIInv
<1> QED
  BY <1>1, <1>2, PTL DEF Spec

-----------------------------------------------------------------------------
(* The theorems *)

\* No account is logged in on two sockets of the lobby, although the map is never
\* searched for the account and a login is recorded several steps after the database
\* allowed it (LobbyManager.cpp lines 246-268), whatever tasks are lost, unless two
\* disconnects have found its entry.
THEOREM OneSocketPerAccountCorrect == Spec => []OneSocketPerAccount
<1>1. IInv => OneSocketPerAccount
  BY DEF IInv, Safe
<1> QED
  BY <1>1, Invariance, PTL

\* A recorded account is active in the database, and no log-out that would free it
\* is queued, also when tasks are lost and procedures fail, unless two disconnects
\* have found its entry.
THEOREM RecordedIsActiveCorrect == Spec => []RecordedIsActive
<1>1. IInv => RecordedIsActive
  BY DEF IInv, Safe
<1> QED
  BY <1>1, Invariance, PTL

\* A log-out, queued or about to be, is the only one of its account, which stays
\* active until it runs, unless two disconnects have found its entry: it can never
\* free an account that somebody else logged in to meanwhile.
THEOREM LogOutOnceCorrect == Spec => []LogOutOnce
<1>1. IInv => LogOutOnce
  BY DEF IInv, Safe
<1> QED
  BY <1>1, Invariance, PTL

-----------------------------------------------------------------------------
(* Items *)

\* The socket has an event or a task that will give it an item, or lost one.
HasSource(s) == s \in broken \/ ItemEvents(s) # {} \/ ItemTasks(s) # {}

\* A push keeps the tasks of every socket, and adds one of the new task's unless it
\* loses the task.
LEMMA EnqueueItems ==
  ASSUME TypeOK, NEW t, EnqueueGame(t)
  PROVE  /\ \A s \in Sockets : ItemTasks(s) \subseteq ItemTasks(s)'
         /\ gameTasks' # gameTasks /\ t.proc = "AddInventoryItem"
              => \A s \in Sockets : s = t.socket => ItemTasks(s)' # {}
<1> DEFINE n == Len(gameTasks)
<1>1. gameTasks \in Seq(Tasks(GameProcedures)) /\ n \in Nat
  BY DEF TypeOK
<1>2. CASE gameTasks' = Append(gameTasks, t)
  <2>1. /\ Len(gameTasks') = n + 1
        /\ \A i \in 1 .. n : gameTasks'[i] = gameTasks[i]
        /\ gameTasks'[n + 1] = t
    BY <1>1, <1>2, AppendProperties
  <2>2. \A i \in 1 .. n : i \in 1 .. n + 1
    BY <1>1
  <2>3. \A s \in Sockets : ItemTasks(s) \subseteq ItemTasks(s)'
    BY <2>1, <2>2 DEF ItemTasks
  <2>4. t.proc = "AddInventoryItem"
          => \A s \in Sockets : s = t.socket => n + 1 \in ItemTasks(s)'
    BY <1>1, <2>1 DEF ItemTasks
  <2> QED
    BY <2>3, <2>4
<1>3. CASE gameTasks' = gameTasks
  BY <1>3 DEF ItemTasks
<1> QED
  BY <1>2, <1>3 DEF EnqueueGame, Enqueue

\* Taking a task that gives no item to s keeps those that do.
LEMMA TakeItems ==
  ASSUME TypeOK, NEW proc, NextGameTask(proc), NEW s \in Sockets,
         ItemTasks(s) # {}, proc # "AddInventoryItem" \/ Head(gameTasks).socket # s
  PROVE  ItemTasks(s)' # {}
<1>1. /\ gameTasks \in Seq(Tasks(GameProcedures)) /\ gameTasks # <<>>
      /\ gameTasks' = Tail(gameTasks) /\ Head(gameTasks).proc = proc
  BY DEF TypeOK, NextGameTask
<1>2. /\ Head(gameTasks) = gameTasks[1] /\ Len(gameTasks) \in Nat \ {0}
      /\ Len(Tail(gameTasks)) = Len(gameTasks) - 1
      /\ \A i \in 1 .. Len(gameTasks) - 1 : Tail(gameTasks)[i] = gameTasks[i + 1]
  BY <1>1, TailType
<1>3. PICK i \in 1 .. Len(gameTasks) : /\ gameTasks[i].proc = "AddInventoryItem"
                                       /\ gameTasks[i].socket = s
  BY DEF ItemTasks
<1>4. i # 1
  BY <1>1, <1>2, <1>3
<1>5. i - 1 \in 1 .. Len(gameTasks) - 1 /\ gameTasks'[i - 1] = gameTasks[i]
  BY <1>1, <1>2, <1>3, <1>4
<1>6. i - 1 \in ItemTasks(s)'
  BY <1>1, <1>2, <1>3, <1>5 DEF ItemTasks
<1> QED
  BY <1>6

\* A step that logs nobody in keeps the chain if it keeps every socket's source.
LEMMA KeepsSources ==
  ASSUME ItemsWillCome, LoggedIn' \subseteq LoggedIn,
         \A s \in LoggedIn' : HasSource(s) => HasSource(s)',
         \A s \in LoggedIn' : login.step = "followUp" /\ login.task.socket = s
                                => UNCHANGED login \/ HasSource(s)'
  PROVE  ItemsWillCome'
<1> SUFFICES ASSUME NEW s \in LoggedIn'
             PROVE  HasSource(s)' \/ (login'.step = "followUp" /\ login'.task.socket = s)
  BY DEF ItemsWillCome, HasSource
<1>1. s \in LoggedIn
  OBVIOUS
<1>2. HasSource(s) \/ (login.step = "followUp" /\ login.task.socket = s)
  BY <1>1 DEF ItemsWillCome, HasSource
<1> QED
  BY <1>2

\* A step of the game worker that takes a task which gives no item.
LEMMA OtherTask ==
  ASSUME TypeOK, ItemsWillCome, NEW proc, NextGameTask(proc), proc # "AddInventoryItem",
         UNCHANGED <<socketLoginAccountMap, eventQueue, login, broken>>
  PROVE  ItemsWillCome'
<1>1. LoggedIn' = LoggedIn /\ LoggedIn \subseteq Sockets
  BY DEF LoggedIn
<1>2. ASSUME NEW s \in Sockets, HasSource(s)
      PROVE  HasSource(s)'
  BY <1>2, TakeItems DEF HasSource, ItemEvents
<1> QED
  BY <1>1, <1>2, KeepsSources

\* The event of a socket leaves the queue as its task enters that of the worker
\* (LobbyManager.cpp lines 385-401), or the task is lost.
LEMMA ItemGiveSource ==
  ASSUME TypeOK, ItemsWillCome, NEW e \in eventQueue, ItemGive(e)
  PROVE  ItemsWillCome'
<1>1. LoggedIn' = LoggedIn /\ LoggedIn \subseteq Sockets /\ UNCHANGED login
  BY DEF ItemGive, LoggedIn, maps
<1>2. CASE e.socket \in LoggedIn
  <2> DEFINE t == Task("AddInventoryItem", e.socket, e.gen, socketLoginAccountMap[e.socket])
  <2>1. /\ EnqueueGame(t) /\ t.proc = "AddInventoryItem" /\ t.socket = e.socket
        /\ broken' = IF gameTasks' = gameTasks THEN broken \cup {e.socket} ELSE broken
    BY <1>2 DEF ItemGive, Task
  <2> HIDE DEF t
  <2>2. /\ \A s \in Sockets : ItemTasks(s) \subseteq ItemTasks(s)'
        /\ gameTasks' # gameTasks => \A s \in Sockets : s = t.socket => ItemTasks(s)' # {}
    BY <2>1, EnqueueItems
  <2>4. ASSUME NEW s \in Sockets, HasSource(s)
        PROVE  HasSource(s)'
    <3>1. CASE s = e.socket
      BY <2>1, <2>2, <3>1 DEF HasSource
    <3>2. CASE s # e.socket
      <4>1. ItemEvents(s) \subseteq ItemEvents(s)'
        BY <3>2 DEF ItemEvents, ItemGive
      <4> QED
        BY <2>1, <2>2, <2>4, <4>1 DEF HasSource
    <3> QED
      BY <3>1, <3>2
  <2> QED
    BY <1>1, <2>4, KeepsSources
<1>3. CASE e.socket \notin LoggedIn
  <2>1. UNCHANGED <<gameTasks, broken>> /\ eventQueue' = eventQueue \ {e}
    BY <1>3 DEF ItemGive
  <2>2. ASSUME NEW s \in LoggedIn, HasSource(s)
        PROVE  HasSource(s)'
    BY <1>3, <2>1, <2>2 DEF HasSource, ItemEvents, ItemTasks
  <2> QED
    BY <1>1, <2>2, KeepsSources
<1> QED
  BY <1>2, <1>3

\* The result of AddInventoryItem queues the next event of its socket
\* (LobbyManager.cpp lines 307-320).
LEMMA AddItemSource ==
  ASSUME TypeOK, ItemsWillCome, AddItem
  PROVE  ItemsWillCome'
<1>1. LoggedIn' = LoggedIn /\ LoggedIn \subseteq Sockets /\ UNCHANGED <<login, broken>>
  BY DEF AddItem, LoggedIn, maps, ghosts
<1>2. NextGameTask("AddInventoryItem")
  BY DEF AddItem
<1>3. ASSUME NEW s \in Sockets, HasSource(s)
      PROVE  HasSource(s)'
  <2>1. CASE s = Head(gameTasks).socket
    <3>1. Event("ItemGive", s, Head(gameTasks).gen) \in ItemEvents(s)'
      BY <2>1 DEF AddItem, ItemEvents, Event
    <3> QED
      BY <3>1 DEF HasSource
  <2>2. CASE s # Head(gameTasks).socket
    <3>1. ItemEvents(s) \subseteq ItemEvents(s)'
      BY DEF AddItem, ItemEvents
    <3> QED
      BY <1>1, <1>2, <1>3, <2>2, <3>1, TakeItems DEF HasSource
  <2> QED
    BY <2>1, <2>2
<1> QED
  BY <1>1, <1>3, KeepsSources

\* The follow-up of a login queues the first event of its socket.
LEMMA FollowUpSource ==
  ASSUME TypeOK, ItemsWillCome, FollowUp
  PROVE  ItemsWillCome'
<1>1. LoggedIn' = LoggedIn /\ LoggedIn \subseteq Sockets
  BY DEF FollowUp, LoggedIn, maps
<1> PICK t : t = login.task
  OBVIOUS
<1>2. /\ EnqueueGame([t EXCEPT !.proc = "GetInventoryByAccount"])
      /\ eventQueue' = eventQueue \cup {Event("ItemGive", t.socket, t.gen)}
      /\ broken' = broken \ {t.socket}
  BY DEF FollowUp
<1>3. \A s \in Sockets : ItemTasks(s) \subseteq ItemTasks(s)'
  BY <1>2, EnqueueItems
<1>4. \A s \in Sockets : ItemEvents(s) \subseteq ItemEvents(s)'
  BY <1>2 DEF ItemEvents
<1>5. Event("ItemGive", t.socket, t.gen) \in ItemEvents(t.socket)'
  BY <1>2 DEF ItemEvents, Event
<1>6. \A s \in Sockets : s = login.task.socket => HasSource(s)'
  <2>1. \A s \in Sockets : s = t.socket => Event("ItemGive", t.socket, t.gen) \in ItemEvents(s)'
    BY <1>2 DEF ItemEvents, Event
  <2> QED
    BY <2>1 DEF HasSource
<1>7. \A s \in Sockets : HasSource(s) => HasSource(s)'
  <2>1. ASSUME NEW s \in Sockets, HasSource(s), s # t.socket
        PROVE  HasSource(s)'
    BY <1>2, <1>3, <1>4, <2>1 DEF HasSource
  <2> QED
    BY <1>6, <2>1
<1> QED
  BY <1>1, <1>6, <1>7, KeepsSources

\* A login is recorded together with the promise to queue the socket's first event
\* (LobbyManager.cpp lines 261-279).
LEMMA RecordLogInSource ==
  ASSUME TypeOK, ItemsWillCome, RecordLogIn
  PROVE  ItemsWillCome'
<1>1. login \in [step : {"publish", "record", "followUp"}, task : Tasks({"UserLogIn"})]
  BY DEF RecordLogIn, TypeOK, Idle
<1>2. login'.step = "followUp" /\ login'.task = login.task
  <2>1. login' = [login EXCEPT !.step = "followUp"]
    BY DEF RecordLogIn
  <2> QED
    BY <1>1, <2>1
<1>3. \A s \in LoggedIn' : s \in LoggedIn \/ s = login.task.socket
  BY DEF RecordLogIn, LoggedIn, TypeOK
<1>4. /\ \A s \in Sockets : ItemEvents(s)' = ItemEvents(s) /\ ItemTasks(s)' = ItemTasks(s)
      /\ UNCHANGED broken
  BY DEF RecordLogIn, ItemEvents, ItemTasks, ghosts
<1>5. login.step = "record"
  BY DEF RecordLogIn
<1> SUFFICES ASSUME NEW s \in LoggedIn'
             PROVE  HasSource(s)' \/ (login'.step = "followUp" /\ login'.task.socket = s)
  BY DEF ItemsWillCome, HasSource
<1>6. s \in Sockets
  BY DEF LoggedIn
<1>7. CASE s \in LoggedIn
  BY <1>4, <1>5, <1>6, <1>7 DEF ItemsWillCome, HasSource
<1> QED
  BY <1>2, <1>3, <1>7

\* Steps that have nothing to do with items, and log nobody in.
LEMMA OtherSource ==
  ASSUME TypeOK, ItemsWillCome, LoggedIn' \subseteq LoggedIn,
         \A s \in Sockets : ItemTasks(s) \subseteq ItemTasks(s)',
         \A s \in Sockets : ItemEvents(s) \subseteq ItemEvents(s)',
         UNCHANGED broken,
         UNCHANGED login \/ login.step # "followUp"
  PROVE  ItemsWillCome'
<1>1. LoggedIn \subseteq Sockets
  BY DEF LoggedIn
<1>2. \A s \in Sockets : HasSource(s) => HasSource(s)'
  BY DEF HasSource
<1> QED
  BY <1>1, <1>2, KeepsSources

\* A task of the game worker fails: that of a socket waiting for an item breaks its
\* chain.
LEMMA FailureSource ==
  ASSUME TypeOK, ItemsWillCome, GameProcedureFails
  PROVE  ItemsWillCome'
<1>1. LoggedIn' = LoggedIn /\ LoggedIn \subseteq Sockets /\ UNCHANGED <<login, eventQueue>>
  BY DEF GameProcedureFails, LoggedIn, maps
<1> PICK proc \in MayFail \cap GameProcedures :
      /\ NextGameTask(proc)
      /\ broken' = IF proc = "AddInventoryItem" THEN broken \cup {Head(gameTasks).socket}
                                                ELSE broken
  BY DEF GameProcedureFails
<1>2. ASSUME NEW s \in Sockets, HasSource(s)
      PROVE  HasSource(s)'
  <2>1. CASE proc = "AddInventoryItem" /\ Head(gameTasks).socket = s
    BY <2>1 DEF HasSource
  <2>2. CASE proc # "AddInventoryItem" \/ Head(gameTasks).socket # s
    <3>1. ItemTasks(s) # {} => ItemTasks(s)' # {}
      BY <2>2, TakeItems
    <3> QED
      BY <1>1, <1>2, <3>1 DEF HasSource, ItemEvents
  <2> QED
    BY <2>1, <2>2
<1> QED
  BY <1>1, <1>2, KeepsSources

\* Every step keeps the chain of items, or its socket counts as broken.
LEMMA NextItems ==
  ASSUME TypeOK, ItemsWillCome, [Next]_vars
  PROVE  ItemsWillCome'
<1>same. ASSUME UNCHANGED <<socketLoginAccountMap, eventQueue, gameTasks, broken>>,
                UNCHANGED login \/ login.step # "followUp"
         PROVE  ItemsWillCome'
  <2>1. LoggedIn' = LoggedIn
    BY <1>same DEF LoggedIn
  <2>2. \A s \in Sockets : ItemTasks(s)' = ItemTasks(s) /\ ItemEvents(s)' = ItemEvents(s)
    BY <1>same DEF ItemTasks, ItemEvents
  <2> QED
    BY <1>same, <2>1, <2>2, OtherSource
<1>1. ASSUME NEW s \in Sockets,
             \/ \E g \in Gens : Accept(s, g)
             \/ \E a \in Accounts, v \in BOOLEAN : RequestLogin(s, a, v)
             \/ \E t \in Sessions : Disconnect(t, s)
      PROVE  ItemsWillCome'
  BY <1>same, <1>1 DEF Accept, RequestLogin, Disconnect, maps, ghosts
<1>2. ASSUME NEW s \in Sockets, RequestItemBreak(s)
      PROVE  ItemsWillCome'
  <2>1. /\ \A r \in Sockets : ItemTasks(r) \subseteq ItemTasks(r)'
        /\ \A r \in Sockets : ItemEvents(r)' = ItemEvents(r)
        /\ LoggedIn' = LoggedIn /\ UNCHANGED <<login, broken>>
    BY <1>2, EnqueueItems DEF RequestItemBreak, ItemEvents, LoggedIn, maps, ghosts
  <2> QED
    BY <2>1, OtherSource
<1>3. ASSUME NEW c \in accepting, ProcessAccept(c)
      PROVE  ItemsWillCome'
  <2>1. /\ \A r \in Sockets : ItemTasks(r)' = ItemTasks(r)
        /\ \A r \in Sockets : ItemEvents(r) \subseteq ItemEvents(r)'
        /\ LoggedIn' = LoggedIn /\ UNCHANGED <<login, broken>>
    BY <1>3 DEF ProcessAccept, ItemEvents, ItemTasks, LoggedIn, ghosts
  <2> QED
    BY <2>1, OtherSource
<1>4. ASSUME NEW t \in Threads, EraseEntry(t)
      PROVE  ItemsWillCome'
  <2>1. /\ \A r \in Sockets : ItemTasks(r)' = ItemTasks(r)
        /\ \A r \in Sockets : ItemEvents(r)' = ItemEvents(r)
        /\ UNCHANGED <<login, broken>>
    BY <1>4 DEF EraseEntry, ItemEvents, ItemTasks
  <2>2. LoggedIn' \subseteq LoggedIn
    BY <1>4 DEF EraseEntry, LoggedIn, TypeOK
  <2> QED
    BY <2>1, <2>2, OtherSource
<1>5. ASSUME NEW t \in Threads, FindEntry(t) \/ QueueLogOut(t) \/ Rearm(t)
      PROVE  ItemsWillCome'
  BY <1>same, <1>5 DEF FindEntry, QueueLogOut, Rearm, maps, ghosts
<1>6. ASSUME NEW e \in eventQueue, LoginTimeout(e)
      PROVE  ItemsWillCome'
  <2>1. /\ \A r \in Sockets : ItemTasks(r)' = ItemTasks(r)
        /\ \A r \in Sockets : ItemEvents(r)' = ItemEvents(r)
        /\ LoggedIn' = LoggedIn /\ UNCHANGED <<login, broken>>
    BY <1>6 DEF LoginTimeout, ItemEvents, ItemTasks, LoggedIn, maps, ghosts
  <2> QED
    BY <2>1, OtherSource
<1>7. ASSUME NEW e \in eventQueue, ItemGive(e)
      PROVE  ItemsWillCome'
  BY <1>7, ItemGiveSource
<1>8. CASE \/ UserProcedureFails \/ LogInRefused \/ LogInSucceeds \/ LogOut \/ AccountData
  <2>1. \E proc \in UserProcedures : NextUserTask(proc)
    BY <1>8 DEF UserProcedureFails, LogInRefused, LogInSucceeds, LogOut, AccountData,
                UserProcedures
  <2>2. login.step # "followUp"
    BY <2>1 DEF NextUserTask, Idle
  <2> QED
    BY <1>same, <1>8, <2>2
    DEF UserProcedureFails, LogInRefused, LogInSucceeds, LogOut, AccountData, maps, ghosts
<1>9. CASE PublishRemaining
  BY <1>same, <1>9 DEF PublishRemaining, maps, ghosts
<1>10. CASE RecordLogIn
  BY <1>10, RecordLogInSource
<1>11. CASE FollowUp
  BY <1>11, FollowUpSource
<1>12. CASE AddItem
  BY <1>12, AddItemSource
<1>13. CASE GameProcedureFails
  BY <1>13, FailureSource
<1>14. CASE InventoryOrBreak
  <2>1. PICK proc : NextGameTask(proc) /\ proc # "AddInventoryItem"
    BY <1>14 DEF InventoryOrBreak
  <2> QED
    BY <1>14, <2>1, OtherTask DEF InventoryOrBreak, maps, ghosts
<1>15. CASE UNCHANGED vars
  BY <1>same, <1>15 DEF vars
<1> QED
  BY <1>1, <1>2, <1>3, <1>4, <1>5, <1>6, <1>7, <1>8, <1>9, <1>10, <1>11, <1>12, <1>13,
     <1>14, <1>15
  DEF Next, SessionThreads, DisconnectSteps, EventThread, UserWorker, GameWorker

\* A logged-in socket never loses its source of items, whatever connects, leaves,
\* times out or fails, as long as no AddInventoryItem of it is lost or fails: the
\* event, the task that comes of it and the event that follows hand it on from the
\* event thread to the worker and back (LobbyManager.cpp lines 276-279, 316-319 and
\* 385-401), and a later log-in on the socket starts anew.
THEOREM ItemsWillComeCorrect == Spec => []ItemsWillCome
<1>1. Init => ItemsWillCome
  BY DEF Init, ItemsWillCome, LoggedIn
<1>2. TypeOK /\ ItemsWillCome /\ [Next]_vars => ItemsWillCome'
  BY NextItems
<1> QED
  BY <1>1, <1>2, TypeCorrect, PTL DEF Spec

=============================================================================
