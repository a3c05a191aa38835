----------------------------- MODULE GameClient -----------------------------
(***************************************************************************)
(* The client program (Client/src): a user per test client, who connects   *)
(* to the auth server, gets an account and a token, closes that socket,    *)
(* opens one to a lobby and logs in there.  Each server has an IOCP module *)
(* with a few threads (NetManagerModule::Work); the callbacks of           *)
(* GameManager run on all of them.                                         *)
(*                                                                         *)
(* Sockets are known to the maps and to the completions by the address of  *)
(* the SOCKET on the heap.  Client::Deinitialize frees it, and a later     *)
(* socket can get it again while completions of the old one are queued.    *)
(* The maps are taken to be linearizable.  The servers are external: they  *)
(* answer each request once, or drop the connection if Faults.  What the   *)
(* lobby sends after RESPONSE_LOGIN changes the data of the user only, and *)
(* is left out.                                                            *)
(*                                                                         *)
(* The pool of overlapped objects is left out as well: its pop() is taken  *)
(* to give each caller an object of its own.  It does not when it is empty *)
(* (a null pointer, which ends the program) or when calls of two threads   *)
(* overlap (CircleQueue).                                                  *)
(***************************************************************************)
EXTENDS Integers, FiniteSets

CONSTANTS Users,        \* TestClientCount users
          Addresses,    \* heap addresses of SOCKET objects
          NoAddress, NoUser,
          AuthThreads, LobbyThreads,   \* ThreadCount, for each module
          Faults        \* whether connections fail

ASSUME ClientAssumption ==
  /\ IsFiniteSet(Users) /\ NoUser \notin Users /\ NoAddress \notin Addresses
  /\ AuthThreads \in Nat \ {0} /\ LobbyThreads \in Nat \ {0}
  /\ Faults \in BOOLEAN

Servers == {"auth", "lobby"}
Sockets == Users \X Servers

UserOf(s)   == s[1]
ServerOf(s) == s[2]
Auth(u)     == <<u, "auth">>
Lobby(u)    == <<u, "lobby">>

VARIABLES
  sock,      \* sock[s]: the socket of a user to a server, its operations and handlers
  users,     \* _socketUserMap
  clients,   \* clients[srv]: the keys of the module's _clientMap
  loggedIn,  \* the users whose _isLogin is set
  missed,    \* history: users whose answer was read before they were in _socketUserMap
  stale      \* history: users whose new socket took an address with completions that
             \* nobody had the time to take

vars == <<sock, users, clients, loggedIn, missed, stale>>

Ends == {"ok", "zero", "reset", "other"}   \* other: an error that Work ignores

SocketStates ==
  [address : Addresses \cup {NoAddress},
   conn    : {"none", "connecting", "open", "dropped", "closed"},
   connect : {"none", "pending"} \cup Ends,
   send    : {"none", "pending"} \cup Ends,
   recv    : {"none", "pending"} \cup Ends,
   accept  : {"none", "arm", "request", "insert"},
   read    : {"none", "arm", "find", "erase", "sleep", "return"},
   talk    : {"quiet", "asked", "answered", "taken"}]

Unused == [address |-> NoAddress, conn |-> "none", connect |-> "none", send |-> "none",
           recv |-> "none", accept |-> "none", read |-> "none", talk |-> "quiet"]

Connecting(a) == [Unused EXCEPT !.address = a, !.conn = "connecting", !.connect = "pending"]

\* Values stay in their types.
TypeOK ==
  /\ sock \in [Sockets -> SocketStates]
  /\ users \in [Addresses -> Users \cup {NoUser}]
  /\ clients \in [Servers -> SUBSET Addresses]
  /\ loggedIn \subseteq Users /\ missed \subseteq Users /\ stale \subseteq Users

\* GameManager::Initialize connects every client; the threads start afterwards.
Init ==
  /\ \E address \in [Users -> Addresses] :
       /\ \A u, v \in Users : u # v => address[u] # address[v]
       /\ sock = [s \in Sockets |-> IF ServerOf(s) = "auth" THEN Connecting(address[UserOf(s)])
                                    ELSE Unused]
       /\ clients = [srv \in Servers |-> IF srv = "auth" THEN {address[u] : u \in Users} ELSE {}]
  /\ users = [a \in Addresses |-> NoUser]
  /\ loggedIn = {} /\ missed = {} /\ stale = {}

Handlers(srv) ==
  Cardinality({s \in Sockets : ServerOf(s) = srv /\ sock[s].accept # "none"})
    + Cardinality({s \in Sockets : ServerOf(s) = srv /\ sock[s].read # "none"})

\* A thread of the module waits in GetQueuedCompletionStatus.
ThreadFree(srv) == Handlers(srv) < (IF srv = "auth" THEN AuthThreads ELSE LobbyThreads)

Known(s) == sock[s].address \in clients[ServerOf(s)]
Owner(s) == users[sock[s].address]

Outstanding(s) == sock[s].connect # "none" \/ sock[s].send # "none" \/ sock[s].recv # "none"

-----------------------------------------------------------------------------
(* The network and the servers *)

External == UNCHANGED <<users, clients, loggedIn, missed, stale>>

Connected(s) ==
  /\ sock[s].connect = "pending"
  /\ \/ sock' = [sock EXCEPT ![s].connect = "ok", ![s].conn = "open"]
     \/ Faults /\ sock' = [sock EXCEPT ![s].connect = "other", ![s].conn = "dropped"]
  /\ External

\* A server answers a request once; a send can be taken by the server before its
\* own completion is.
Answer(s) ==
  /\ sock[s].talk = "asked"
  /\ sock[s].conn = "open"
  /\ sock' = [sock EXCEPT ![s].talk = "answered"]
  /\ External

SendDone(s) ==
  /\ sock[s].send = "pending"
  /\ \E end \in IF sock[s].conn = "open" THEN {"ok"} ELSE {"ok", "reset", "other"} :
       sock' = [sock EXCEPT ![s].send = end]
  /\ External

\* A receive ends with the answer, or, on a closed socket, without bytes or with
\* an error.
ReceiveDone(s) ==
  /\ sock[s].recv = "pending"
  /\ \/ /\ sock[s].talk = "answered"
        /\ sock' = [sock EXCEPT ![s].recv = "ok", ![s].talk = "taken"]
     \/ /\ sock[s].conn \in {"dropped", "closed"}
        /\ \E end \in {"zero", "reset", "other"} : sock' = [sock EXCEPT ![s].recv = end]
  /\ External

Drop(s) ==
  /\ Faults
  /\ sock[s].conn = "open"
  /\ sock' = [sock EXCEPT ![s].conn = "dropped"]
  /\ External

Network(s) == Connected(s) \/ Answer(s) \/ SendDone(s) \/ ReceiveDone(s)

-----------------------------------------------------------------------------
(* NetManagerModule::Work takes a completion *)

\* DisconnectCallback.
Disconnect(a) == users' = [users EXCEPT ![a] = NoUser]

\* An operation that ended with an error, or without bytes.
Failed(s, end) ==
  \/ /\ end = "reset"
     /\ clients' = [clients EXCEPT ![ServerOf(s)] = @ \ {sock[s].address}]
     /\ Disconnect(sock[s].address)
  \/ /\ end = "zero"
     /\ IF Known(s) THEN Disconnect(sock[s].address) ELSE UNCHANGED users
     /\ UNCHANGED clients
  \/ end = "other" /\ UNCHANGED <<users, clients>>

TakeConnect(s) ==
  /\ \/ /\ sock[s].connect = "ok"
        /\ sock' = [sock EXCEPT ![s].connect = "none",
                                ![s].accept = IF Known(s) THEN "arm" ELSE @]
        /\ UNCHANGED <<users, clients>>
     \/ /\ sock[s].connect = "other"
        /\ sock' = [sock EXCEPT ![s].connect = "none"]
        /\ Failed(s, "other")
  /\ UNCHANGED <<loggedIn, missed, stale>>

TakeSend(s) ==
  /\ sock' = [sock EXCEPT ![s].send = "none"]
  /\ \/ sock[s].send = "ok" /\ UNCHANGED <<users, clients>>
     \/ sock[s].send \in {"reset", "other"} /\ Failed(s, sock[s].send)
  /\ UNCHANGED <<loggedIn, missed, stale>>

TakeReceive(s) ==
  /\ \/ /\ sock[s].recv = "ok"
        /\ sock' = [sock EXCEPT ![s].recv = "none",
                                ![s].read = IF Known(s) THEN "arm" ELSE @]
        /\ UNCHANGED <<users, clients>>
     \/ /\ sock[s].recv \in {"zero", "reset", "other"}
        /\ sock' = [sock EXCEPT ![s].recv = "none"]
        /\ Failed(s, sock[s].recv)
  /\ UNCHANGED <<loggedIn, missed, stale>>

Take(s) == ThreadFree(ServerOf(s)) /\ (TakeConnect(s) \/ TakeSend(s) \/ TakeReceive(s))

-----------------------------------------------------------------------------
(* AcceptCallback *)

\* ReceiveReady posts nothing when the socket is not in _clientMap or has an error.
ReceiveReady(s, field, step) ==
  \/ /\ Known(s)
     /\ sock' = [sock EXCEPT ![s].recv = "pending", ![s][field] = step]
  \/ /\ ~ Known(s) \/ sock[s].conn # "open"
     /\ sock' = [sock EXCEPT ![s][field] = step]

AcceptArm(s) ==
  /\ sock[s].accept = "arm"
  /\ ReceiveReady(s, "accept", "request")
  /\ UNCHANGED <<users, clients, loggedIn, missed, stale>>

\* A slip of AcceptRequest: nobody logs in at the lobby.
AcceptRequestAuthOnly(s) ==
  /\ sock[s].accept = "request"
  /\ IF ServerOf(s) = "auth"
     THEN /\ sock' = [sock EXCEPT ![s].send = "pending", ![s].accept = "insert",
                                  ![s].talk = IF @ = "quiet" THEN "asked" ELSE @]
     ELSE sock' = [sock EXCEPT ![s].accept = "insert"]
  /\ UNCHANGED <<users, clients, loggedIn, missed, stale>>

\* RequestConnect for a new user, or RequestLogIn for the user of the socket.  A
\* user found there that is not its own has no client (ReadConnect): the program
\* ends on the null pointer, and the handler goes no further.
AcceptRequest(s) ==
  /\ sock[s].accept = "request"
  /\ IF ServerOf(s) = "auth" \/ Owner(s) # NoUser
     THEN /\ ServerOf(s) = "auth" \/ Owner(s) = UserOf(s)
          /\ sock' = [sock EXCEPT ![s].send = "pending", ![s].accept = "insert",
                                  ![s].talk = IF @ = "quiet" THEN "asked" ELSE @]
     ELSE sock' = [sock EXCEPT ![s].accept = "insert"]
  /\ UNCHANGED <<users, clients, loggedIn, missed, stale>>

\* The auth server's user is inserted only now, after its request is out.
AcceptInsert(s) ==
  /\ sock[s].accept = "insert"
  /\ users' = IF ServerOf(s) = "auth" /\ Owner(s) = NoUser
              THEN [users EXCEPT ![sock[s].address] = UserOf(s)] ELSE users
  /\ sock' = [sock EXCEPT ![s].accept = "none"]
  /\ UNCHANGED <<clients, loggedIn, missed, stale>>

Accept(s) == AcceptArm(s) \/ AcceptRequest(s) \/ AcceptInsert(s)

-----------------------------------------------------------------------------
(* ReceiveCallback *)

ReadArm(s) ==
  /\ sock[s].read = "arm"
  /\ ReceiveReady(s, "read", "find")
  /\ UNCHANGED <<users, clients, loggedIn, missed, stale>>

\* An answer for a socket that is not in _socketUserMap is dropped.
ReadNobody(s) ==
  /\ sock[s].read = "find"
  /\ Owner(s) = NoUser
  /\ sock' = [sock EXCEPT ![s].read = "none"]
  /\ missed' = IF sock[s].accept = "insert" THEN missed \cup {UserOf(s)} ELSE missed
  /\ UNCHANGED <<users, clients, loggedIn, stale>>

\* RESPONSE_LOGIN.
ReadLogin(s) ==
  /\ sock[s].read = "find"
  /\ ServerOf(s) = "lobby" /\ Owner(s) # NoUser
  /\ loggedIn' = loggedIn \cup {Owner(s)}
  /\ sock' = [sock EXCEPT ![s].read = "none"]
  /\ UNCHANGED <<users, clients, missed, stale>>

\* RESPONSE_CONNECT: the user's socket is closed and its address freed ...
ReadConnect(s) ==
  /\ sock[s].read = "find"
  /\ ServerOf(s) = "auth" /\ Owner(s) # NoUser
  /\ sock' = [sock EXCEPT ![s].read = "erase", ![s].conn = "closed"]
  /\ UNCHANGED <<users, clients, loggedIn, missed, stale>>

\* A slip of ReadErase: the old entry stays.
ReadEraseKeeps(s) ==
  /\ sock[s].read = "erase"
  /\ sock' = [sock EXCEPT ![s].read = "sleep"]
  /\ UNCHANGED <<users, clients, loggedIn, missed, stale>>

ReadErase(s) ==
  /\ sock[s].read = "erase"
  /\ users' = [users EXCEPT ![sock[s].address] = NoUser]
  /\ sock' = [sock EXCEPT ![s].read = "sleep"]
  /\ UNCHANGED <<clients, loggedIn, missed, stale>>

\* A slip of Slept: nothing is waited for.
NotSlept(s) == TRUE

\* ... a second is enough to take what the close has completed, if there is a
\* thread to take it ...
Slept(s) == ThreadFree(ServerOf(s)) => ~ Outstanding(s)

\* Freed addresses: those of closed auth sockets.  A lobby socket is kept by its
\* Client in _clientMap or in the user.
InUse == {sock[s].address : s \in {s \in Sockets : ServerOf(s) = "lobby" \/ sock[s].conn # "closed"}}

\* The address can still be that of completions in the queue: of its own socket
\* when every thread is busy, or of one that another user has just closed and
\* perhaps not yet erased.
Stale(s, a) ==
  \E r \in Sockets : /\ sock[r].address = a
                    /\ (Outstanding(r) \/ sock[r].read = "erase")
                    /\ (r # s \/ ~ ThreadFree("auth"))

\* A slip of ReadRenew: the client is registered before it has its socket.
ReadRenewEarly(s) ==
  /\ sock[s].read = "sleep"
  /\ Slept(s)
  /\ \E a \in Addresses \ InUse :
       /\ users' = [users EXCEPT ![a] = IF @ = NoUser THEN UserOf(s) ELSE @]
       /\ stale' = IF Stale(s, a) THEN stale \cup {UserOf(s)} ELSE stale
       /\ sock' = [sock EXCEPT ![s].read = "return", ![Lobby(UserOf(s))] = Connecting(a)]
       /\ clients' = [clients EXCEPT !["lobby"] = @ \cup {sock[Lobby(UserOf(s))].address}]
  /\ UNCHANGED <<loggedIn, missed>>

\* ... and the user goes on with a new socket, on its way to the lobby.
ReadRenew(s) ==
  /\ sock[s].read = "sleep"
  /\ Slept(s)
  /\ \E a \in Addresses \ InUse :
       /\ users' = [users EXCEPT ![a] = IF @ = NoUser THEN UserOf(s) ELSE @]
       /\ stale' = IF Stale(s, a) THEN stale \cup {UserOf(s)} ELSE stale
       /\ sock' = [sock EXCEPT ![s].read = "return", ![Lobby(UserOf(s))] = Connecting(a)]
       /\ clients' = [clients EXCEPT !["lobby"] = @ \cup {a}]
  /\ UNCHANGED <<loggedIn, missed>>

ReadReturn(s) ==
  /\ sock[s].read = "return"
  /\ sock' = [sock EXCEPT ![s].read = "none"]
  /\ UNCHANGED <<users, clients, loggedIn, missed, stale>>

Read(s) ==
  \/ ReadArm(s)
  \/ ReadNobody(s)
  \/ ReadLogin(s)
  \/ ReadConnect(s)
  \/ ReadErase(s)
  \/ ReadRenew(s)
  \/ ReadReturn(s)

-----------------------------------------------------------------------------
Next == \E s \in Sockets : Network(s) \/ Drop(s) \/ Take(s) \/ Accept(s) \/ Read(s)

Spec == Init /\ [][Next]_vars

\* The servers answer, the threads of the modules run, and those that run a
\* handler go on with it.
FairSpec ==
  /\ Spec
  /\ \A s \in Sockets : WF_vars(Network(s)) /\ WF_vars(Take(s)) /\ WF_vars(Accept(s)) /\ WF_vars(Read(s))

-----------------------------------------------------------------------------
(* Properties *)

\* ReadAuthMessage moves a user from one socket to another: no user is in
\* _socketUserMap under two keys, and never under one that is not its own.
UserOnce ==
  \A a \in Addresses : users[a] # NoUser =>
    /\ a \in {sock[Auth(users[a])].address, sock[Lobby(users[a])].address}
    /\ \A b \in Addresses : users[b] = users[a] => b = a

\* The user of a lobby socket that is up is found under its address, so that the
\* lobby's messages reach it, whatever the completions of the closed auth sockets
\* do; except when the address was taken while some of them were still queued.
Reachable ==
  \A u \in Users :
    sock[Lobby(u)].conn \in {"connecting", "open"} /\ u \notin stale =>
      users[sock[Lobby(u)].address] = u

Broken(u) == \E srv \in Servers : sock[<<u, srv>>].conn = "dropped"

\* Every user logs in, unless a connection fails, its answer was read before it
\* was in _socketUserMap, its new socket was mistaken for an old one, or the pool
\* (left out here) was empty or handed an object out twice.
LogsIn == \A u \in Users : <>(u \in loggedIn \/ Broken(u) \/ u \in missed \cup stale)
=============================================================================
