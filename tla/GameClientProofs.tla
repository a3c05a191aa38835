-------------------------- MODULE GameClientProofs --------------------------
(***************************************************************************)
(* The users of GameClient keep their sockets: for any number of users,    *)
(* addresses and threads, and with every failure.                          *)
(*                                                                         *)
(* An address is used again only after its auth socket was closed, and     *)
(* such a socket starts nothing more (ByUser): what can still happen to    *)
(* its address are the completions and the erase that were under way when  *)
(* the address was taken, and if there were any the user is stale (Kept).  *)
(***************************************************************************)
EXTENDS GameClient, TLAPS

\* One socket: its only answer is read once, and operations fail on closed sockets.
BySocket(s) ==
  /\ sock[s].conn \in {"none", "connecting"} =>
       /\ sock[s].send = "none" /\ sock[s].recv = "none"
       /\ sock[s].accept = "none" /\ sock[s].read = "none"
       /\ sock[s].connect \in {"none", "pending"}
  /\ sock[s].accept # "none" => sock[s].connect = "none"
  /\ sock[s].recv = "ok" => sock[s].read = "none" /\ sock[s].conn # "closed"
  /\ sock[s].recv = "ok" \/ sock[s].read # "none" \/ sock[s].conn = "closed" =>
       sock[s].talk = "taken"
  /\ sock[s].recv \in {"zero", "reset", "other"} => sock[s].conn \in {"dropped", "closed"}
  /\ sock[s].send \in {"reset", "other"} => sock[s].conn \in {"dropped", "closed"}

\* The two sockets of a user: the second comes when the first is closed.
ByUser(u) ==
  /\ sock[Auth(u)].address \in Addresses
  /\ sock[Lobby(u)].address = NoAddress => sock[Lobby(u)] = Unused
  /\ sock[Lobby(u)].conn # "closed" /\ sock[Lobby(u)].read \in {"none", "arm", "find"}
  /\ sock[Auth(u)].conn = "closed" => /\ sock[Auth(u)].accept = "none"
                                      /\ sock[Auth(u)].connect = "none"
                                      /\ sock[Auth(u)].read \notin {"arm", "find"}
  /\ sock[Auth(u)].read \in {"erase", "sleep", "return"} => sock[Auth(u)].conn = "closed"
  /\ sock[Auth(u)].read \in {"erase", "sleep"} => sock[Lobby(u)].address = NoAddress
  /\ sock[Auth(u)].conn = "closed" /\ sock[Auth(u)].read \in {"none", "return"} =>
       sock[Lobby(u)].address # NoAddress
  /\ sock[Lobby(u)].address # NoAddress => sock[Auth(u)].conn = "closed"

\* Sockets that are not closed have addresses of their own.
Distinct ==
  /\ \A u, v \in Users : u # v => sock[Auth(u)].address # sock[Auth(v)].address
  /\ \A u, v \in Users : u # v /\ sock[Lobby(u)].address # NoAddress =>
                           sock[Lobby(u)].address # sock[Lobby(v)].address
  /\ \A u, v \in Users : sock[Auth(v)].conn # "closed" =>
                           sock[Auth(v)].address # sock[Lobby(u)].address

\* A user is entered under the first socket when that has done its part of
\* AcceptCallback, or under the second.
OwnAddress(a, u) ==
  \/ /\ a = sock[Auth(u)].address /\ sock[Lobby(u)].address = NoAddress
     /\ sock[Auth(u)].accept = "none" /\ sock[Auth(u)].connect = "none"
     /\ sock[Auth(u)].read \notin {"sleep", "return"}
  \/ a = sock[Lobby(u)].address
Owned == \A a \in Addresses, u \in Users : users[a] = u => OwnAddress(a, u)

\* Nothing is left that could take the user of a socket out of the map.
Up(u) == sock[Lobby(u)].conn \in {"connecting", "open"} /\ u \notin stale
Kept ==
  \A u \in Users : Up(u) =>
    /\ users[sock[Lobby(u)].address] = u
    /\ \A v \in Users : sock[Auth(v)].address = sock[Lobby(u)].address =>
         ~ Outstanding(Auth(v)) /\ sock[Auth(v)].read # "erase"

IInv == /\ TypeOK
        /\ \A s \in Sockets : BySocket(s)
        /\ \A u \in Users : ByUser(u)
        /\ Distinct /\ Owned /\ Kept

-----------------------------------------------------------------------------
LEMMA NamedSockets ==
  /\ \A u \in Users : /\ Auth(u) \in Sockets /\ Lobby(u) \in Sockets
                      /\ UserOf(Auth(u)) = u /\ UserOf(Lobby(u)) = u
                      /\ ServerOf(Auth(u)) = "auth" /\ ServerOf(Lobby(u)) = "lobby"
  /\ \A u, v \in Users : /\ Auth(u) # Lobby(v)
                         /\ Auth(u) = Auth(v) => u = v
                         /\ Lobby(u) = Lobby(v) => u = v
  /\ \A s \in Sockets :
       /\ UserOf(s) \in Users
       /\ \/ s = Auth(UserOf(s)) /\ ServerOf(s) = "auth"
          \/ s = Lobby(UserOf(s)) /\ ServerOf(s) = "lobby"
  /\ NoUser \notin Users /\ NoAddress \notin Addresses
  /\ "auth" \in Servers /\ "lobby" \in Servers
BY ClientAssumption DEF Sockets, Servers, Auth, Lobby, UserOf, ServerOf

LEMMA FirstSockets ==
  /\ \A a \in Addresses :
       /\ Connecting(a) \in SocketStates
       /\ Connecting(a).address = a /\ Connecting(a).conn = "connecting"
       /\ Connecting(a).connect = "pending" /\ Connecting(a).send = "none"
       /\ Connecting(a).recv = "none" /\ Connecting(a).accept = "none"
       /\ Connecting(a).read = "none"
  /\ Unused \in SocketStates /\ Unused.address = NoAddress /\ Unused.conn = "none"
  /\ Unused.connect = "none" /\ Unused.send = "none" /\ Unused.recv = "none"
  /\ Unused.accept = "none" /\ Unused.read = "none"
BY DEF Connecting, Unused, SocketStates, Ends

LEMMA InitIInv == Init => IInv
<1> SUFFICES ASSUME Init PROVE IInv
  OBVIOUS
<1> USE NamedSockets
<1>1. PICK address \in [Users -> Addresses] :
        /\ \A u, v \in Users : u # v => address[u] # address[v]
        /\ sock = [s \in Sockets |-> IF ServerOf(s) = "auth" THEN Connecting(address[UserOf(s)])
                                     ELSE Unused]
        /\ clients = [srv \in Servers |-> IF srv = "auth" THEN {address[u] : u \in Users} ELSE {}]
  BY DEF Init
<1>2. \A u \in Users : /\ sock[Auth(u)] = Connecting(address[u])
                       /\ sock[Lobby(u)] = Unused
  BY <1>1
<1>3. \A u \in Users : address[u] \in Addresses
  OBVIOUS
<1> USE FirstSockets
<1>5. TypeOK
  <2>1. sock \in [Sockets -> SocketStates]
    BY <1>1, <1>3
  <2>2. clients \in [Servers -> SUBSET Addresses]
    BY <1>1
  <2> QED BY <2>1, <2>2 DEF Init, TypeOK
<1>6. \A s \in Sockets : BySocket(s)
  <2> TAKE s \in Sockets
  <2>1. sock[s] = Unused \/ \E u \in Users : sock[s] = Connecting(address[u])
    BY <1>2
  <2>2. CASE sock[s] = Unused
    BY <2>2 DEF BySocket
  <2>3. ASSUME NEW u \in Users, sock[s] = Connecting(address[u]) PROVE BySocket(s)
    BY <1>3, <2>3 DEF BySocket
  <2> QED BY <2>1, <2>2, <2>3
<1>7. \A u \in Users : ByUser(u)
  BY <1>2, <1>3 DEF ByUser
<1>8. Distinct
  BY <1>1, <1>2, <1>3 DEF Distinct
<1>9. Owned /\ Kept
  BY <1>2 DEF Init, Owned, Kept, Up
<1> QED BY <1>5, <1>6, <1>7, <1>8, <1>9 DEF IInv

-----------------------------------------------------------------------------
\* A step of socket s alone.
Only(s) == /\ sock' \in [Sockets -> SocketStates]
           /\ \A r \in Sockets : r # s => sock'[r] = sock[r]
           /\ sock'[s].address = sock[s].address
           /\ sock[s].conn = "closed" => sock'[s].conn = "closed"
           /\ sock'[s].conn \in {"connecting", "open"} => sock[s].conn \in {"connecting", "open"}

\* What is left to be shown of a step of s that enters nobody in _socketUserMap.
LEMMA FrameInv ==
  ASSUME IInv, TypeOK', NEW s \in Sockets, Only(s),
         BySocket(s)', ByUser(UserOf(s))', UNCHANGED stale,
         \A a \in Addresses : a # sock[s].address => users'[a] = users[a],
         sock[s].address \in Addresses =>
           \/ users'[sock[s].address] \in {users[sock[s].address], NoUser}
           \/ users'[sock[s].address] = UserOf(s) /\ OwnAddress(sock[s].address, UserOf(s))',
         \/ UNCHANGED users
         \/ users[sock[s].address] = NoUser
         \/ /\ Outstanding(s) \/ (ServerOf(s) = "auth" /\ sock[s].read = "erase")
            /\ ServerOf(s) = "lobby" => sock[s].conn \notin {"connecting", "open"},
         ServerOf(s) = "auth" /\ sock[s].accept = "none" /\ sock[s].connect = "none" =>
           /\ sock'[s].accept = "none" /\ sock'[s].connect = "none"
           /\ sock'[s].read \in {"sleep", "return"} =>
                 \/ sock[s].read \in {"sleep", "return"}
                 \/ users'[sock[s].address] = NoUser,
         ServerOf(s) = "auth" /\ sock[s].conn = "closed" =>
           /\ Outstanding(s)' => Outstanding(s)
           /\ sock'[s].read = "erase" => sock[s].read = "erase"
  PROVE  IInv'
<1> USE NamedSockets
<1> \A u \in Users : sock[Auth(u)].address \in Addresses
  BY DEF IInv, ByUser
<1>0. \A r \in Sockets : r # s => /\ sock'[r] = sock[r]
                                  /\ Outstanding(r)' <=> Outstanding(r)
  BY DEF Only, Outstanding
<1>a. \A r \in Sockets : sock'[r].address = sock[r].address
  BY DEF Only
<1>b. \A r \in Sockets : sock[r].conn = "closed" => sock'[r].conn = "closed"
  BY DEF Only
<1>1. \A r \in Sockets : BySocket(r)'
  BY <1>0 DEF IInv, BySocket
<1>2. \A u \in Users : ByUser(u)'
  <2> TAKE u \in Users
  <2>1. CASE u = UserOf(s)
    BY <2>1
  <2>2. CASE u # UserOf(s)
    BY <1>0, <2>2 DEF IInv, ByUser
  <2> QED BY <2>1, <2>2
<1>3. Distinct'
  BY <1>a, <1>b DEF IInv, Distinct
<1>4. Owned'
  <2> SUFFICES ASSUME NEW a \in Addresses, NEW u \in Users, users'[a] = u
               PROVE  OwnAddress(a, u)'
    BY DEF Owned
  <2>0. CASE users[a] # u
    <3>1. a = sock[s].address /\ users'[a] = UserOf(s) /\ OwnAddress(sock[s].address, UserOf(s))'
      BY <2>0
    <3>2. u = UserOf(s)
      BY <3>1
    <3> QED BY <3>1, <3>2, <1>a DEF OwnAddress
  <2>1. CASE users[a] = u
    <3>2. OwnAddress(a, u)
      BY <2>1 DEF IInv, Owned
    <3>3. CASE a = sock[Lobby(u)].address
      BY <3>3, <1>a DEF OwnAddress
    <3>4. CASE a # sock[Lobby(u)].address /\ s = Auth(u)
      BY <3>2, <3>4, <1>a DEF OwnAddress
    <3>5. CASE a # sock[Lobby(u)].address /\ s # Auth(u)
      BY <3>2, <3>5, <1>0, <1>a DEF OwnAddress
    <3> QED BY <3>3, <3>4, <3>5
  <2> QED BY <2>0, <2>1
<1>5. Kept'
  <2> SUFFICES ASSUME NEW u \in Users, Up(u)'
               PROVE  /\ users'[sock'[Lobby(u)].address] = u
                      /\ \A v \in Users : sock'[Auth(v)].address = sock'[Lobby(u)].address =>
                           ~ Outstanding(Auth(v))' /\ sock'[Auth(v)].read # "erase"
    BY DEF Kept
  <2>1. Up(u)
    BY DEF Up, Only
  <2> DEFINE a == sock[Lobby(u)].address
  <2>2. /\ users[a] = u
        /\ \A v \in Users : sock[Auth(v)].address = a =>
             ~ Outstanding(Auth(v)) /\ sock[Auth(v)].read # "erase"
    BY <2>1 DEF IInv, Kept
  <2>3. a \in Addresses
    <3>1. a # NoAddress
      BY <2>1 DEF IInv, ByUser, Up, Unused
    <3>2. sock[Lobby(u)] \in SocketStates
      BY DEF IInv, TypeOK
    <3> QED BY <3>1, <3>2 DEF SocketStates
  <2>4. users'[a] = u
    <3>1. CASE a # sock[s].address
      BY <3>1, <2>2, <2>3
    <3>2. CASE UNCHANGED users \/ users[sock[s].address] = NoUser
      BY <3>2, <2>2, <2>3
    <3>3. CASE /\ a = sock[s].address
               /\ Outstanding(s) \/ (ServerOf(s) = "auth" /\ sock[s].read = "erase")
               /\ ServerOf(s) = "lobby" => sock[s].conn \notin {"connecting", "open"}
      <4>1. CASE s = Auth(UserOf(s))
        BY <3>3, <4>1, <2>2
      <4>2. CASE s = Lobby(UserOf(s)) /\ UserOf(s) = u
        BY <3>3, <4>2, <2>1 DEF Up
      <4>3. CASE s = Lobby(UserOf(s)) /\ UserOf(s) # u
        BY <3>3, <4>3, <2>3 DEF IInv, Distinct
      <4> QED BY <4>1, <4>2, <4>3
    <3> QED BY <3>1, <3>2, <3>3
  <2>5. ASSUME NEW v \in Users, sock[Auth(v)].address = a
        PROVE  ~ Outstanding(Auth(v))' /\ sock'[Auth(v)].read # "erase"
    <3>1. sock[Auth(v)].conn = "closed"
      BY <2>5 DEF IInv, Distinct
    <3>2. CASE s # Auth(v)
      BY <3>2, <2>2, <2>5, <1>0
    <3>3. CASE s = Auth(v)
      BY <3>1, <3>3, <2>2, <2>5
    <3> QED BY <3>2, <3>3
  <2> HIDE DEF a
  <2> QED BY <2>4, <2>5, <1>a DEF a
<1> QED BY <1>1, <1>2, <1>3, <1>4, <1>5 DEF IInv

-----------------------------------------------------------------------------
LEMMA InvOfSocket ==
  ASSUME IInv, NEW s \in Sockets
  PROVE  /\ sock \in [Sockets -> SocketStates] /\ sock[s] \in SocketStates
         /\ users \in [Addresses -> Users \cup {NoUser}]
         /\ clients \in [Servers -> SUBSET Addresses]
         /\ loggedIn \subseteq Users /\ missed \subseteq Users /\ stale \subseteq Users
         /\ BySocket(s) /\ ByUser(UserOf(s))
         /\ sock[s].address = NoAddress => sock[s] = Unused
         /\ sock[s].address # NoAddress => sock[s].address \in Addresses
BY NamedSockets DEF IInv, TypeOK, ByUser, SocketStates

\* A socket stays one when a field is given a value of its own.
LEMMA ConnTyped ==
  ASSUME NEW r \in SocketStates, NEW x \in {"none", "connecting", "open", "dropped", "closed"}
  PROVE  [r EXCEPT !.conn = x] \in SocketStates
BY DEF SocketStates

LEMMA ConnectTyped ==
  ASSUME NEW r \in SocketStates, NEW x \in {"none", "pending", "ok", "zero", "reset", "other"}
  PROVE  [r EXCEPT !.connect = x] \in SocketStates
BY DEF SocketStates, Ends

LEMMA SendTyped ==
  ASSUME NEW r \in SocketStates, NEW x \in {"none", "pending", "ok", "zero", "reset", "other"}
  PROVE  [r EXCEPT !.send = x] \in SocketStates
BY DEF SocketStates, Ends

LEMMA RecvTyped ==
  ASSUME NEW r \in SocketStates, NEW x \in {"none", "pending", "ok", "zero", "reset", "other"}
  PROVE  [r EXCEPT !.recv = x] \in SocketStates
BY DEF SocketStates, Ends

LEMMA AcceptTyped ==
  ASSUME NEW r \in SocketStates, NEW x \in {"none", "arm", "request", "insert"}
  PROVE  [r EXCEPT !.accept = x] \in SocketStates
BY DEF SocketStates

LEMMA ReadTyped ==
  ASSUME NEW r \in SocketStates, NEW x \in {"none", "arm", "find", "erase", "sleep", "return"}
  PROVE  [r EXCEPT !.read = x] \in SocketStates
BY DEF SocketStates

LEMMA TalkTyped ==
  ASSUME NEW r \in SocketStates, NEW x \in {"quiet", "asked", "answered", "taken"}
  PROVE  [r EXCEPT !.talk = x] \in SocketStates
BY DEF SocketStates

LEMMA ConnectedInv ==
  ASSUME IInv, NEW s \in Sockets, Connected(s)
  PROVE  IInv'
<1>0. sock \in [Sockets -> SocketStates] /\ sock[s] \in SocketStates
  BY InvOfSocket
<1>a. sock'[s] \in SocketStates
  <2>1. \/ sock'[s] = [sock[s] EXCEPT !.connect = "ok", !.conn = "open"]
        \/ sock'[s] = [sock[s] EXCEPT !.connect = "other", !.conn = "dropped"]
    BY <1>0 DEF Connected
  <2>2. [sock[s] EXCEPT !.connect = "ok", !.conn = "open"] \in SocketStates
    BY <1>0, ConnectTyped, ConnTyped
  <2>3. [sock[s] EXCEPT !.connect = "other", !.conn = "dropped"] \in SocketStates
    BY <1>0, ConnectTyped, ConnTyped
  <2> QED BY <2>1, <2>2, <2>3
<1>b. /\ sock' = [r \in Sockets |-> sock'[r]]
      /\ \A r \in Sockets : r # s => sock'[r] = sock[r]
  BY <1>0 DEF Connected, External
<1>c. sock' \in [Sockets -> SocketStates]
  BY <1>0, <1>a, <1>b
<1> USE NamedSockets, InvOfSocket
<1>1. TypeOK'
  BY <1>c DEF Connected, External, TypeOK
<1>2. Only(s)
  BY <1>b, <1>c DEF Connected, External, Only, SocketStates
<1>3. BySocket(s)'
  BY DEF Connected, External, BySocket, SocketStates, Ends
<1>4. ByUser(UserOf(s))'
  <2>1. CASE s = Auth(UserOf(s))
    BY <2>1, <1>b DEF Connected, External, BySocket, ByUser, Unused, SocketStates
  <2>2. CASE s = Lobby(UserOf(s))
    BY <2>2, <1>b DEF Connected, External, BySocket, ByUser, Unused, SocketStates
  <2> QED BY <2>1, <2>2
<1>5. UNCHANGED <<users, stale>>
  BY DEF Connected, External
<1> QED BY <1>1, <1>2, <1>3, <1>4, <1>5, FrameInv DEF Connected, External, Outstanding, BySocket, ByUser

LEMMA AnswerInv ==
  ASSUME IInv, NEW s \in Sockets, Answer(s)
  PROVE  IInv'
<1>0. sock \in [Sockets -> SocketStates] /\ sock[s] \in SocketStates
  BY InvOfSocket
<1>a. sock'[s] \in SocketStates
  <2>1. sock'[s] = [sock[s] EXCEPT !.talk = "answered"]
    BY <1>0 DEF Answer
  <2>2. [sock[s] EXCEPT !.talk = "answered"] \in SocketStates
    BY <1>0, TalkTyped
  <2> QED BY <2>1, <2>2
<1>b. /\ sock' = [r \in Sockets |-> sock'[r]]
      /\ \A r \in Sockets : r # s => sock'[r] = sock[r]
  BY <1>0 DEF Answer, External
<1>c. sock' \in [Sockets -> SocketStates]
  BY <1>0, <1>a, <1>b
<1> USE NamedSockets, InvOfSocket
<1>1. TypeOK'
  BY <1>c DEF Answer, External, TypeOK
<1>2. Only(s)
  BY <1>b, <1>c DEF Answer, External, Only, SocketStates
<1>3. BySocket(s)'
  BY DEF Answer, External, BySocket, SocketStates, Ends
<1>4. ByUser(UserOf(s))'
  BY DEF Answer, External, BySocket, ByUser, Unused, SocketStates
<1>5. UNCHANGED <<users, stale>>
  BY DEF Answer, External
<1> QED BY <1>1, <1>2, <1>3, <1>4, <1>5, FrameInv DEF Answer, External, Outstanding, BySocket, ByUser

LEMMA SendDoneInv ==
  ASSUME IInv, NEW s \in Sockets, SendDone(s)
  PROVE  IInv'
<1>0. sock \in [Sockets -> SocketStates] /\ sock[s] \in SocketStates
  BY InvOfSocket
<1>a. sock'[s] \in SocketStates
  <2>1. \E end \in {"ok", "reset", "other"} : sock'[s] = [sock[s] EXCEPT !.send = end]
    BY <1>0 DEF SendDone
  <2>2. \A end \in {"ok", "reset", "other"} : [sock[s] EXCEPT !.send = end] \in SocketStates
    BY <1>0, SendTyped
  <2> QED BY <2>1, <2>2
<1>b. /\ sock' = [r \in Sockets |-> sock'[r]]
      /\ \A r \in Sockets : r # s => sock'[r] = sock[r]
  BY <1>0 DEF SendDone, External
<1>c. sock' \in [Sockets -> SocketStates]
  BY <1>0, <1>a, <1>b
<1> USE NamedSockets, InvOfSocket
<1>1. TypeOK'
  BY <1>c DEF SendDone, External, TypeOK
<1>2. Only(s)
  BY <1>b, <1>c DEF SendDone, External, Only, SocketStates
<1>3. BySocket(s)'
  BY DEF SendDone, External, BySocket, SocketStates, Ends
<1>4. ByUser(UserOf(s))'
  BY DEF SendDone, External, BySocket, ByUser, Unused, SocketStates
<1>5. UNCHANGED <<users, stale>>
  BY DEF SendDone, External
<1> QED BY <1>1, <1>2, <1>3, <1>4, <1>5, FrameInv DEF SendDone, External, Outstanding, BySocket, ByUser

LEMMA ReceiveDoneInv ==
  ASSUME IInv, NEW s \in Sockets, ReceiveDone(s)
  PROVE  IInv'
<1>0. sock \in [Sockets -> SocketStates] /\ sock[s] \in SocketStates
  BY InvOfSocket
<1>a. sock'[s] \in SocketStates
  <2>1. \/ sock'[s] = [sock[s] EXCEPT !.recv = "ok", !.talk = "taken"]
        \/ \E end \in {"zero", "reset", "other"} : sock'[s] = [sock[s] EXCEPT !.recv = end]
    BY <1>0 DEF ReceiveDone
  <2>2. [sock[s] EXCEPT !.recv = "ok", !.talk = "taken"] \in SocketStates
    BY <1>0, RecvTyped, TalkTyped
  <2>3. \A end \in {"zero", "reset", "other"} : [sock[s] EXCEPT !.recv = end] \in SocketStates
    BY <1>0, RecvTyped
  <2> QED BY <2>1, <2>2, <2>3
<1>b. /\ sock' = [r \in Sockets |-> sock'[r]]
      /\ \A r \in Sockets : r # s => sock'[r] = sock[r]
  BY <1>0 DEF ReceiveDone, External
<1>c. sock' \in [Sockets -> SocketStates]
  BY <1>0, <1>a, <1>b
<1> USE NamedSockets, InvOfSocket
<1>1. TypeOK'
  BY <1>c DEF ReceiveDone, External, TypeOK
<1>2. Only(s)
  BY <1>b, <1>c DEF ReceiveDone, External, Only, SocketStates
<1>3. BySocket(s)'
  BY DEF ReceiveDone, External, BySocket, SocketStates, Ends
<1>4. ByUser(UserOf(s))'
  <2>0. /\ sock'[s].conn = sock[s].conn /\ sock'[s].address = sock[s].address
        /\ sock'[s].accept = sock[s].accept /\ sock'[s].connect = sock[s].connect
        /\ sock'[s].read = sock[s].read
        /\ sock[s].address # NoAddress
    BY DEF ReceiveDone, Unused, SocketStates
  <2>1. CASE s = Auth(UserOf(s))
    <3>1. Lobby(UserOf(s)) # s /\ Lobby(UserOf(s)) \in Sockets /\ UserOf(s) \in Users
      BY <2>1
    <3>2. sock'[Lobby(UserOf(s))] = sock[Lobby(UserOf(s))]
      BY <3>1, <1>b
    <3> QED BY <2>0, <2>1, <3>2 DEF ByUser, Unused
  <2>2. CASE s = Lobby(UserOf(s))
    <3>1. Auth(UserOf(s)) # s /\ Auth(UserOf(s)) \in Sockets /\ UserOf(s) \in Users
      BY <2>2
    <3>2. sock'[Auth(UserOf(s))] = sock[Auth(UserOf(s))]
      BY <3>1, <1>b
    <3> QED BY <2>0, <2>2, <3>2 DEF ByUser, Unused
  <2> QED BY <2>1, <2>2
<1>5. UNCHANGED <<users, stale>>
  BY DEF ReceiveDone, External
<1>7. /\ sock'[s].accept = sock[s].accept /\ sock'[s].connect = sock[s].connect
      /\ sock'[s].read \in {sock[s].read, "arm", "find"}
      /\ sock[s].conn = "closed" /\ Outstanding(s)' => Outstanding(s)
  BY DEF ReceiveDone, Outstanding, ByUser, BySocket, SocketStates
<1> QED BY <1>7, <1>1, <1>2, <1>3, <1>4, <1>5, FrameInv DEF ReceiveDone, External, Outstanding, BySocket, ByUser

LEMMA DropInv ==
  ASSUME IInv, NEW s \in Sockets, Drop(s)
  PROVE  IInv'
<1>0. sock \in [Sockets -> SocketStates] /\ sock[s] \in SocketStates
  BY InvOfSocket
<1>a. sock'[s] \in SocketStates
  <2>1. sock'[s] = [sock[s] EXCEPT !.conn = "dropped"]
    BY <1>0 DEF Drop
  <2>2. [sock[s] EXCEPT !.conn = "dropped"] \in SocketStates
    BY <1>0, ConnTyped
  <2> QED BY <2>1, <2>2
<1>b. /\ sock' = [r \in Sockets |-> sock'[r]]
      /\ \A r \in Sockets : r # s => sock'[r] = sock[r]
  BY <1>0 DEF Drop, External
<1>c. sock' \in [Sockets -> SocketStates]
  BY <1>0, <1>a, <1>b
<1> USE NamedSockets, InvOfSocket
<1>1. TypeOK'
  BY <1>c DEF Drop, External, TypeOK
<1>2. Only(s)
  BY <1>b, <1>c DEF Drop, External, Only, SocketStates
<1>3. BySocket(s)'
  BY DEF Drop, External, BySocket, SocketStates, Ends
<1>4. ByUser(UserOf(s))'
  BY DEF Drop, External, BySocket, ByUser, Unused, SocketStates
<1>5. UNCHANGED <<users, stale>>
  BY DEF Drop, External
<1> QED BY <1>1, <1>2, <1>3, <1>4, <1>5, FrameInv DEF Drop, External, Outstanding, BySocket, ByUser

LEMMA TakeConnectInv ==
  ASSUME IInv, NEW s \in Sockets, TakeConnect(s)
  PROVE  IInv'
<1>0. sock \in [Sockets -> SocketStates] /\ sock[s] \in SocketStates
  BY InvOfSocket
<1>a. sock'[s] \in SocketStates
  <2>1. \/ sock'[s] = [sock[s] EXCEPT !.connect = "none", !.accept = "arm"]
        \/ sock'[s] = [sock[s] EXCEPT !.connect = "none", !.accept = @]
        \/ sock'[s] = [sock[s] EXCEPT !.connect = "none"]
    BY <1>0 DEF TakeConnect
  <2>2. [sock[s] EXCEPT !.connect = "none", !.accept = "arm"] \in SocketStates
    BY <1>0, ConnectTyped, AcceptTyped
  <2>3. sock[s].accept \in {"none", "arm", "request", "insert"}
    BY <1>0 DEF SocketStates
  <2>4. [sock[s] EXCEPT !.connect = "none", !.accept = @] \in SocketStates
    BY <1>0, ConnectTyped, AcceptTyped, <2>3
  <2>5. [sock[s] EXCEPT !.connect = "none"] \in SocketStates
    BY <1>0, ConnectTyped
  <2> QED BY <2>1, <2>2, <2>4, <2>5
<1>b. /\ sock' = [r \in Sockets |-> sock'[r]]
      /\ \A r \in Sockets : r # s => sock'[r] = sock[r]
  BY <1>0 DEF TakeConnect, Failed
<1>c. sock' \in [Sockets -> SocketStates]
  BY <1>0, <1>a, <1>b
<1> USE NamedSockets, InvOfSocket
<1>1. TypeOK'
  BY <1>c DEF TakeConnect, Failed, TypeOK
<1>2. Only(s)
  BY <1>b, <1>c DEF TakeConnect, Failed, Only, SocketStates
<1>3. BySocket(s)'
  BY DEF TakeConnect, Failed, BySocket, SocketStates, Ends
<1>4. ByUser(UserOf(s))'
  <2>1. CASE s = Auth(UserOf(s))
    BY <2>1, <1>b DEF TakeConnect, Failed, BySocket, ByUser, Unused, SocketStates
  <2>2. CASE s = Lobby(UserOf(s))
    BY <2>2, <1>b DEF TakeConnect, Failed, BySocket, ByUser, Unused, SocketStates
  <2> QED BY <2>1, <2>2
<1>5. UNCHANGED <<users, stale>>
  BY DEF TakeConnect, Failed
<1> QED BY <1>1, <1>2, <1>3, <1>4, <1>5, FrameInv DEF TakeConnect, Failed, Outstanding, BySocket, ByUser

LEMMA TakeSendInv ==
  ASSUME IInv, NEW s \in Sockets, TakeSend(s)
  PROVE  IInv'
<1>0. sock \in [Sockets -> SocketStates] /\ sock[s] \in SocketStates
  BY InvOfSocket
<1>a. sock'[s] \in SocketStates
  <2>1. sock'[s] = [sock[s] EXCEPT !.send = "none"]
    BY <1>0 DEF TakeSend
  <2>2. [sock[s] EXCEPT !.send = "none"] \in SocketStates
    BY <1>0, SendTyped
  <2> QED BY <2>1, <2>2
<1>b. /\ sock' = [r \in Sockets |-> sock'[r]]
      /\ \A r \in Sockets : r # s => sock'[r] = sock[r]
  BY <1>0 DEF TakeSend, Failed, Disconnect
<1>c. sock' \in [Sockets -> SocketStates]
  BY <1>0, <1>a, <1>b
<1> USE NamedSockets, InvOfSocket
<1>1. TypeOK'
  BY <1>c DEF TakeSend, Failed, Disconnect, TypeOK
<1>2. Only(s)
  BY <1>b, <1>c DEF TakeSend, Failed, Disconnect, Only, SocketStates
<1>3. BySocket(s)'
  BY DEF TakeSend, Failed, Disconnect, BySocket, SocketStates, Ends
<1>4. ByUser(UserOf(s))'
  BY DEF TakeSend, Failed, Disconnect, BySocket, ByUser, Unused, SocketStates
<1>5. /\ UNCHANGED stale
      /\ \A a \in Addresses : a # sock[s].address => users'[a] = users[a]
      /\ sock[s].address \in Addresses =>
           users'[sock[s].address] \in {users[sock[s].address], NoUser}
  BY DEF TakeSend, Failed, Disconnect, Unused
<1>6. \/ UNCHANGED users
      \/ /\ Outstanding(s) \/ (ServerOf(s) = "auth" /\ sock[s].read = "erase")
         /\ ServerOf(s) = "lobby" => sock[s].conn \notin {"connecting", "open"}
  BY DEF TakeSend, Failed, Disconnect, Outstanding, BySocket, ByUser
<1> QED BY <1>1, <1>2, <1>3, <1>4, <1>5, <1>6, FrameInv DEF TakeSend, Failed, Disconnect, Outstanding, BySocket, ByUser

LEMMA TakeReceiveInv ==
  ASSUME IInv, NEW s \in Sockets, TakeReceive(s)
  PROVE  IInv'
<1>0. sock \in [Sockets -> SocketStates] /\ sock[s] \in SocketStates
  BY InvOfSocket
<1>a. sock'[s] \in SocketStates
  <2>1. \/ sock'[s] = [sock[s] EXCEPT !.recv = "none", !.read = "arm"]
        \/ sock'[s] = [sock[s] EXCEPT !.recv = "none", !.read = @]
        \/ sock'[s] = [sock[s] EXCEPT !.recv = "none"]
    BY <1>0 DEF TakeReceive
  <2>2. [sock[s] EXCEPT !.recv = "none", !.read = "arm"] \in SocketStates
    BY <1>0, RecvTyped, ReadTyped
  <2>3. sock[s].read \in {"none", "arm", "find", "erase", "sleep", "return"}
    BY <1>0 DEF SocketStates
  <2>4. [sock[s] EXCEPT !.recv = "none", !.read = @] \in SocketStates
    BY <1>0, RecvTyped, ReadTyped, <2>3
  <2>5. [sock[s] EXCEPT !.recv = "none"] \in SocketStates
    BY <1>0, RecvTyped
  <2> QED BY <2>1, <2>2, <2>4, <2>5
<1>b. /\ sock' = [r \in Sockets |-> sock'[r]]
      /\ \A r \in Sockets : r # s => sock'[r] = sock[r]
  BY <1>0 DEF TakeReceive, Failed, Disconnect
<1>c. sock' \in [Sockets -> SocketStates]
  BY <1>0, <1>a, <1>b
<1> USE NamedSockets, InvOfSocket
<1>1. TypeOK'
  BY <1>c DEF TakeReceive, Failed, Disconnect, TypeOK
<1>2. Only(s)
  BY <1>b, <1>c DEF TakeReceive, Failed, Disconnect, Only, SocketStates
<1>3. BySocket(s)'
  BY DEF TakeReceive, Failed, Disconnect, BySocket, SocketStates, Ends
<1>4. ByUser(UserOf(s))'
  <2>1. CASE s = Auth(UserOf(s))
    BY <2>1, <1>b DEF TakeReceive, Failed, Disconnect, BySocket, ByUser, Unused, SocketStates
  <2>2. CASE s = Lobby(UserOf(s))
    BY <2>2, <1>b DEF TakeReceive, Failed, Disconnect, BySocket, ByUser, Unused, SocketStates
  <2> QED BY <2>1, <2>2
<1>5. /\ UNCHANGED stale
      /\ \A a \in Addresses : a # sock[s].address => users'[a] = users[a]
      /\ sock[s].address \in Addresses =>
           users'[sock[s].address] \in {users[sock[s].address], NoUser}
  BY DEF TakeReceive, Failed, Disconnect, Unused
<1>6. \/ UNCHANGED users
      \/ /\ Outstanding(s) \/ (ServerOf(s) = "auth" /\ sock[s].read = "erase")
         /\ ServerOf(s) = "lobby" => sock[s].conn \notin {"connecting", "open"}
  BY DEF TakeReceive, Failed, Disconnect, Outstanding, BySocket, ByUser
<1>7. /\ sock'[s].accept = sock[s].accept /\ sock'[s].connect = sock[s].connect
      /\ sock'[s].read \in {sock[s].read, "arm", "find"}
      /\ sock[s].conn = "closed" /\ Outstanding(s)' => Outstanding(s)
  BY DEF TakeReceive, Failed, Outstanding, ByUser, BySocket, SocketStates
<1> QED BY <1>7, <1>1, <1>2, <1>3, <1>4, <1>5, <1>6, FrameInv DEF TakeReceive, Failed, Disconnect, Outstanding, BySocket, ByUser

LEMMA AcceptArmInv ==
  ASSUME IInv, NEW s \in Sockets, AcceptArm(s)
  PROVE  IInv'
<1>0. sock \in [Sockets -> SocketStates] /\ sock[s] \in SocketStates
  BY InvOfSocket
<1>a. sock'[s] \in SocketStates
  <2>1. \/ sock'[s] = [sock[s] EXCEPT !.recv = "pending", !.accept = "request"]
        \/ sock'[s] = [sock[s] EXCEPT !.accept = "request"]
    BY <1>0 DEF AcceptArm, ReceiveReady
  <2>2. [sock[s] EXCEPT !.recv = "pending", !.accept = "request"] \in SocketStates
    BY <1>0, RecvTyped, AcceptTyped
  <2>3. [sock[s] EXCEPT !.accept = "request"] \in SocketStates
    BY <1>0, AcceptTyped
  <2> QED BY <2>1, <2>2, <2>3
<1>b. /\ sock' = [r \in Sockets |-> sock'[r]]
      /\ \A r \in Sockets : r # s => sock'[r] = sock[r]
  BY <1>0 DEF AcceptArm, ReceiveReady
<1>c. sock' \in [Sockets -> SocketStates]
  BY <1>0, <1>a, <1>b
<1> USE NamedSockets, InvOfSocket
<1>1. TypeOK'
  BY <1>c DEF AcceptArm, ReceiveReady, TypeOK
<1>2. Only(s)
  BY <1>b, <1>c DEF AcceptArm, ReceiveReady, Only, SocketStates
<1>3. BySocket(s)'
  BY DEF AcceptArm, ReceiveReady, BySocket, SocketStates, Ends
<1>4. ByUser(UserOf(s))'
  BY DEF AcceptArm, ReceiveReady, BySocket, ByUser, Unused, SocketStates
<1>5. UNCHANGED <<users, stale>>
  BY DEF AcceptArm, ReceiveReady
<1> QED BY <1>1, <1>2, <1>3, <1>4, <1>5, FrameInv DEF AcceptArm, ReceiveReady, Outstanding, BySocket, ByUser

LEMMA AcceptRequestInv ==
  ASSUME IInv, NEW s \in Sockets, AcceptRequest(s)
  PROVE  IInv'
<1>0. sock \in [Sockets -> SocketStates] /\ sock[s] \in SocketStates
  BY InvOfSocket
<1>a. sock'[s] \in SocketStates
  <2>1. \/ sock'[s] = [sock[s] EXCEPT !.send = "pending", !.accept = "insert", !.talk = "asked"]
        \/ sock'[s] = [sock[s] EXCEPT !.send = "pending", !.accept = "insert", !.talk = @]
        \/ sock'[s] = [sock[s] EXCEPT !.accept = "insert"]
    BY <1>0 DEF AcceptRequest
  <2>2. [sock[s] EXCEPT !.send = "pending", !.accept = "insert", !.talk = "asked"] \in SocketStates
    BY <1>0, SendTyped, AcceptTyped, TalkTyped
  <2>3. sock[s].talk \in {"quiet", "asked", "answered", "taken"}
    BY <1>0 DEF SocketStates
  <2>4. [sock[s] EXCEPT !.send = "pending", !.accept = "insert", !.talk = @] \in SocketStates
    BY <1>0, SendTyped, AcceptTyped, TalkTyped, <2>3
  <2>5. [sock[s] EXCEPT !.accept = "insert"] \in SocketStates
    BY <1>0, AcceptTyped
  <2> QED BY <2>1, <2>2, <2>4, <2>5
<1>b. /\ sock' = [r \in Sockets |-> sock'[r]]
      /\ \A r \in Sockets : r # s => sock'[r] = sock[r]
  BY <1>0 DEF AcceptRequest
<1>c. sock' \in [Sockets -> SocketStates]
  BY <1>0, <1>a, <1>b
<1> USE NamedSockets, InvOfSocket
<1>1. TypeOK'
  BY <1>c DEF AcceptRequest, TypeOK
<1>2. Only(s)
  BY <1>b, <1>c DEF AcceptRequest, Only, SocketStates
<1>3. BySocket(s)'
  <2>1. /\ sock'[s].conn = sock[s].conn /\ sock'[s].connect = sock[s].connect
        /\ sock'[s].recv = sock[s].recv /\ sock'[s].read = sock[s].read
        /\ sock[s].accept # "none" /\ sock'[s].accept # "none"
    BY DEF AcceptRequest, SocketStates
  <2>2. /\ sock'[s].send \in {sock[s].send, "pending"}
        /\ sock[s].talk = "taken" => sock'[s].talk = "taken"
    BY DEF AcceptRequest, SocketStates
  <2> QED BY <2>1, <2>2 DEF BySocket
<1>4. ByUser(UserOf(s))'
  BY DEF AcceptRequest, BySocket, ByUser, Unused, SocketStates
<1>5. UNCHANGED <<users, stale>>
  BY DEF AcceptRequest
<1> QED BY <1>1, <1>2, <1>3, <1>4, <1>5, FrameInv DEF AcceptRequest, Outstanding, BySocket, ByUser

LEMMA ReadArmInv ==
  ASSUME IInv, NEW s \in Sockets, ReadArm(s)
  PROVE  IInv'
<1>0. sock \in [Sockets -> SocketStates] /\ sock[s] \in SocketStates
  BY InvOfSocket
<1>a. sock'[s] \in SocketStates
  <2>1. \/ sock'[s] = [sock[s] EXCEPT !.recv = "pending", !.read = "find"]
        \/ sock'[s] = [sock[s] EXCEPT !.read = "find"]
    BY <1>0 DEF ReadArm, ReceiveReady
  <2>2. [sock[s] EXCEPT !.recv = "pending", !.read = "find"] \in SocketStates
    BY <1>0, RecvTyped, ReadTyped
  <2>3. [sock[s] EXCEPT !.read = "find"] \in SocketStates
    BY <1>0, ReadTyped
  <2> QED BY <2>1, <2>2, <2>3
<1>b. /\ sock' = [r \in Sockets |-> sock'[r]]
      /\ \A r \in Sockets : r # s => sock'[r] = sock[r]
  BY <1>0 DEF ReadArm, ReceiveReady
<1>c. sock' \in [Sockets -> SocketStates]
  BY <1>0, <1>a, <1>b
<1> USE NamedSockets, InvOfSocket
<1>1. TypeOK'
  BY <1>c DEF ReadArm, ReceiveReady, TypeOK
<1>2. Only(s)
  BY <1>b, <1>c DEF ReadArm, ReceiveReady, Only, SocketStates
<1>3. BySocket(s)'
  BY DEF ReadArm, ReceiveReady, BySocket, SocketStates, Ends
<1>4. ByUser(UserOf(s))'
  BY DEF ReadArm, ReceiveReady, BySocket, ByUser, Unused, SocketStates
<1>5. UNCHANGED <<users, stale>>
  BY DEF ReadArm, ReceiveReady
<1>7. /\ sock'[s].accept = sock[s].accept /\ sock'[s].connect = sock[s].connect
      /\ sock'[s].read \in {sock[s].read, "arm", "find"}
      /\ sock[s].conn = "closed" /\ Outstanding(s)' => Outstanding(s)
  BY DEF ReadArm, ReceiveReady, Outstanding, ByUser, BySocket, SocketStates
<1> QED BY <1>7, <1>1, <1>2, <1>3, <1>4, <1>5, FrameInv DEF ReadArm, ReceiveReady, Outstanding, BySocket, ByUser

LEMMA ReadNobodyInv ==
  ASSUME IInv, NEW s \in Sockets, ReadNobody(s)
  PROVE  IInv'
<1>0. sock \in [Sockets -> SocketStates] /\ sock[s] \in SocketStates
  BY InvOfSocket
<1>a. sock'[s] \in SocketStates
  <2>1. sock'[s] = [sock[s] EXCEPT !.read = "none"]
    BY <1>0 DEF ReadNobody
  <2>2. [sock[s] EXCEPT !.read = "none"] \in SocketStates
    BY <1>0, ReadTyped
  <2> QED BY <2>1, <2>2
<1>b. /\ sock' = [r \in Sockets |-> sock'[r]]
      /\ \A r \in Sockets : r # s => sock'[r] = sock[r]
  BY <1>0 DEF ReadNobody
<1>c. sock' \in [Sockets -> SocketStates]
  BY <1>0, <1>a, <1>b
<1> USE NamedSockets, InvOfSocket
<1>1. TypeOK'
  BY <1>c DEF ReadNobody, TypeOK
<1>2. Only(s)
  BY <1>b, <1>c DEF ReadNobody, Only, SocketStates
<1>3. BySocket(s)'
  BY DEF ReadNobody, BySocket, SocketStates, Ends
<1>4. ByUser(UserOf(s))'
  BY DEF ReadNobody, BySocket, ByUser, Unused, SocketStates
<1>5. UNCHANGED <<users, stale>>
  BY DEF ReadNobody
<1> QED BY <1>1, <1>2, <1>3, <1>4, <1>5, FrameInv DEF ReadNobody, Outstanding, BySocket, ByUser

LEMMA ReadLoginInv ==
  ASSUME IInv, NEW s \in Sockets, ReadLogin(s)
  PROVE  IInv'
<1>0. sock \in [Sockets -> SocketStates] /\ sock[s] \in SocketStates
  BY InvOfSocket
<1>a. sock'[s] \in SocketStates
  <2>1. sock'[s] = [sock[s] EXCEPT !.read = "none"]
    BY <1>0 DEF ReadLogin
  <2>2. [sock[s] EXCEPT !.read = "none"] \in SocketStates
    BY <1>0, ReadTyped
  <2> QED BY <2>1, <2>2
<1>b. /\ sock' = [r \in Sockets |-> sock'[r]]
      /\ \A r \in Sockets : r # s => sock'[r] = sock[r]
  BY <1>0 DEF ReadLogin
<1>c. sock' \in [Sockets -> SocketStates]
  BY <1>0, <1>a, <1>b
<1> USE NamedSockets, InvOfSocket
<1>1. TypeOK'
  <2>1. Owner(s) \in Users
    BY DEF ReadLogin, Owner, Unused
  <2> QED BY <1>c, <2>1 DEF ReadLogin, TypeOK
<1>2. Only(s)
  BY <1>b, <1>c DEF ReadLogin, Only, SocketStates
<1>3. BySocket(s)'
  BY DEF ReadLogin, BySocket, SocketStates, Ends
<1>4. ByUser(UserOf(s))'
  BY DEF ReadLogin, BySocket, ByUser, Unused, SocketStates
<1>5. UNCHANGED <<users, stale>>
  BY DEF ReadLogin
<1> QED BY <1>1, <1>2, <1>3, <1>4, <1>5, FrameInv DEF ReadLogin, Outstanding, BySocket, ByUser

LEMMA ReadConnectInv ==
  ASSUME IInv, NEW s \in Sockets, ReadConnect(s)
  PROVE  IInv'
<1>0. sock \in [Sockets -> SocketStates] /\ sock[s] \in SocketStates
  BY InvOfSocket
<1>a. sock'[s] \in SocketStates
  <2>1. sock'[s] = [sock[s] EXCEPT !.read = "erase", !.conn = "closed"]
    BY <1>0 DEF ReadConnect
  <2>2. [sock[s] EXCEPT !.read = "erase", !.conn = "closed"] \in SocketStates
    BY <1>0, ReadTyped, ConnTyped
  <2> QED BY <2>1, <2>2
<1>b. /\ sock' = [r \in Sockets |-> sock'[r]]
      /\ \A r \in Sockets : r # s => sock'[r] = sock[r]
  BY <1>0 DEF ReadConnect, Owner
<1>c. sock' \in [Sockets -> SocketStates]
  BY <1>0, <1>a, <1>b
<1> USE NamedSockets, InvOfSocket
<1>1. TypeOK'
  BY <1>c DEF ReadConnect, Owner, TypeOK
<1>2. Only(s)
  BY <1>b, <1>c DEF ReadConnect, Owner, Only, SocketStates
<1>3. BySocket(s)'
  BY DEF ReadConnect, Owner, BySocket, SocketStates, Ends
<1>4. ByUser(UserOf(s))'
  BY DEF ReadConnect, Owner, BySocket, ByUser, Unused, SocketStates
<1>5. UNCHANGED <<users, stale>>
  BY DEF ReadConnect, Owner
<1> QED BY <1>1, <1>2, <1>3, <1>4, <1>5, FrameInv DEF ReadConnect, Owner, Outstanding, BySocket, ByUser

LEMMA ReadEraseInv ==
  ASSUME IInv, NEW s \in Sockets, ReadErase(s)
  PROVE  IInv'
<1>0. sock \in [Sockets -> SocketStates] /\ sock[s] \in SocketStates
  BY InvOfSocket
<1>a. sock'[s] \in SocketStates
  <2>1. sock'[s] = [sock[s] EXCEPT !.read = "sleep"]
    BY <1>0 DEF ReadErase
  <2>2. [sock[s] EXCEPT !.read = "sleep"] \in SocketStates
    BY <1>0, ReadTyped
  <2> QED BY <2>1, <2>2
<1>b. /\ sock' = [r \in Sockets |-> sock'[r]]
      /\ \A r \in Sockets : r # s => sock'[r] = sock[r]
  BY <1>0 DEF ReadErase
<1>c. sock' \in [Sockets -> SocketStates]
  BY <1>0, <1>a, <1>b
<1> USE NamedSockets, InvOfSocket
<1>1. TypeOK'
  BY <1>c DEF ReadErase, TypeOK
<1>2. Only(s)
  BY <1>b, <1>c DEF ReadErase, Only, SocketStates
<1>3. BySocket(s)'
  BY DEF ReadErase, BySocket, SocketStates, Ends
<1>4. ByUser(UserOf(s))'
  BY DEF ReadErase, BySocket, ByUser, Unused, SocketStates
<1>5. /\ UNCHANGED stale
      /\ \A a \in Addresses : a # sock[s].address => users'[a] = users[a]
      /\ sock[s].address \in Addresses =>
           users'[sock[s].address] \in {users[sock[s].address], NoUser}
  BY DEF ReadErase, Unused
<1>6. \/ UNCHANGED users
      \/ /\ Outstanding(s) \/ (ServerOf(s) = "auth" /\ sock[s].read = "erase")
         /\ ServerOf(s) = "lobby" => sock[s].conn \notin {"connecting", "open"}
  BY DEF ReadErase, Outstanding, BySocket, ByUser
<1> QED BY <1>1, <1>2, <1>3, <1>4, <1>5, <1>6, FrameInv DEF ReadErase, Outstanding, BySocket, ByUser

LEMMA ReadReturnInv ==
  ASSUME IInv, NEW s \in Sockets, ReadReturn(s)
  PROVE  IInv'
<1>0. sock \in [Sockets -> SocketStates] /\ sock[s] \in SocketStates
  BY InvOfSocket
<1>a. sock'[s] \in SocketStates
  <2>1. sock'[s] = [sock[s] EXCEPT !.read = "none"]
    BY <1>0 DEF ReadReturn
  <2>2. [sock[s] EXCEPT !.read = "none"] \in SocketStates
    BY <1>0, ReadTyped
  <2> QED BY <2>1, <2>2
<1>b. /\ sock' = [r \in Sockets |-> sock'[r]]
      /\ \A r \in Sockets : r # s => sock'[r] = sock[r]
  BY <1>0 DEF ReadReturn
<1>c. sock' \in [Sockets -> SocketStates]
  BY <1>0, <1>a, <1>b
<1> USE NamedSockets, InvOfSocket
<1>1. TypeOK'
  BY <1>c DEF ReadReturn, TypeOK
<1>2. Only(s)
  BY <1>b, <1>c DEF ReadReturn, Only, SocketStates
<1>3. BySocket(s)'
  BY DEF ReadReturn, BySocket, SocketStates, Ends
<1>4. ByUser(UserOf(s))'
  BY DEF ReadReturn, BySocket, ByUser, Unused, SocketStates
<1>5. UNCHANGED <<users, stale>>
  BY DEF ReadReturn
<1> QED BY <1>1, <1>2, <1>3, <1>4, <1>5, FrameInv DEF ReadReturn, Outstanding, BySocket, ByUser

\* A new user is entered: its own address, with nobody there.
LEMMA AcceptInsertInv ==
  ASSUME IInv, NEW s \in Sockets, AcceptInsert(s)
  PROVE  IInv'
<1>0. sock \in [Sockets -> SocketStates] /\ sock[s] \in SocketStates
  BY InvOfSocket
<1>a. sock'[s] \in SocketStates
  <2>1. sock'[s] = [sock[s] EXCEPT !.accept = "none"]
    BY <1>0 DEF AcceptInsert
  <2>2. [sock[s] EXCEPT !.accept = "none"] \in SocketStates
    BY <1>0, AcceptTyped
  <2> QED BY <2>1, <2>2
<1>b. /\ sock' = [r \in Sockets |-> sock'[r]]
      /\ \A r \in Sockets : r # s => sock'[r] = sock[r]
  BY <1>0 DEF AcceptInsert
<1>c. sock' \in [Sockets -> SocketStates]
  BY <1>0, <1>a, <1>b
<1> USE NamedSockets, InvOfSocket
<1>1. TypeOK'
  <2>1. users' \in [Addresses -> Users \cup {NoUser}]
    BY DEF AcceptInsert
  <2> QED BY <1>c, <2>1 DEF AcceptInsert, TypeOK
<1>2. Only(s)
  BY <1>b, <1>c DEF AcceptInsert, Only, SocketStates
<1>3. BySocket(s)'
  BY DEF AcceptInsert, BySocket, SocketStates, Ends
<1>4. ByUser(UserOf(s))'
  BY DEF AcceptInsert, BySocket, ByUser, Unused, SocketStates
<1>5. /\ sock'[s].accept = "none" /\ sock'[s].connect = sock[s].connect
      /\ sock'[s].read = sock[s].read /\ Outstanding(s)' = Outstanding(s)
      /\ sock[s].connect = "none"
  BY DEF AcceptInsert, Outstanding, BySocket, SocketStates
<1>6. UNCHANGED stale
  BY DEF AcceptInsert
<1>7. CASE UNCHANGED users
  BY <1>1, <1>2, <1>3, <1>4, <1>5, <1>6, <1>7, FrameInv
<1>8. CASE /\ s = Auth(UserOf(s)) /\ ServerOf(s) = "auth" /\ users[sock[s].address] = NoUser
           /\ users' = [users EXCEPT ![sock[s].address] = UserOf(s)]
  <2>1. sock[s].conn # "closed" /\ sock[Lobby(UserOf(s))].address = NoAddress
    BY <1>8 DEF AcceptInsert, ByUser
  <2>2. sock[s].read \notin {"sleep", "return"}
    BY <1>8, <2>1 DEF ByUser
  <2>3. OwnAddress(sock[s].address, UserOf(s))'
    BY <1>8, <1>2, <1>5, <2>1, <2>2, <1>b DEF OwnAddress, Only
  <2>4. /\ sock[s].address \in Addresses /\ users'[sock[s].address] = UserOf(s)
        /\ \A a \in Addresses : a # sock[s].address => users'[a] = users[a]
    BY <1>8, <2>1 DEF ByUser
  <2> QED BY <1>1, <1>2, <1>3, <1>4, <1>5, <1>6, <1>8, <2>2, <2>3, <2>4, FrameInv
<1> QED BY <1>7, <1>8 DEF AcceptInsert, Owner

\* The user goes on with an address that no open socket has.
LEMMA ReadRenewInv ==
  ASSUME IInv, NEW s \in Sockets, ReadRenew(s)
  PROVE  IInv'
<1> USE NamedSockets, InvOfSocket, FirstSockets
<1> DEFINE u == UserOf(s)
<1>1. PICK a \in Addresses \ InUse :
        /\ users' = [users EXCEPT ![a] = IF @ = NoUser THEN u ELSE @]
        /\ stale' = IF Stale(s, a) THEN stale \cup {u} ELSE stale
        /\ sock' = [sock EXCEPT ![s].read = "return", ![Lobby(u)] = Connecting(a)]
        /\ clients' = [clients EXCEPT !["lobby"] = @ \cup {a}]
  BY DEF ReadRenew
<1>2. s = Auth(u) /\ sock[s].read = "sleep" /\ sock[s].conn = "closed"
  BY DEF ReadRenew, ByUser
<1>3. u \in Users /\ sock[Lobby(u)].address = NoAddress
  BY <1>2 DEF ByUser
<1> HIDE DEF u
<1>4. /\ sock' = [r \in Sockets |-> sock'[r]]
      /\ \A r \in Sockets : r # s /\ r # Lobby(u) => sock'[r] = sock[r]
      /\ sock'[Lobby(u)] = Connecting(a)
      /\ sock'[s] = [sock[s] EXCEPT !.read = "return"]
  BY <1>1, <1>2, <1>3
<1>5. /\ sock'[s] \in SocketStates
      /\ sock'[s].address = sock[s].address /\ sock'[s].conn = sock[s].conn
      /\ sock'[s].connect = sock[s].connect /\ sock'[s].send = sock[s].send
      /\ sock'[s].recv = sock[s].recv /\ sock'[s].accept = sock[s].accept
      /\ sock'[s].talk = sock[s].talk /\ sock'[s].read = "return"
  BY <1>4 DEF SocketStates
<1>6. \A v \in Users : sock[Lobby(v)].address # a
  BY <1>1 DEF InUse
<1>7. \A v \in Users : sock[Auth(v)].conn # "closed" => sock[Auth(v)].address # a
  BY <1>1 DEF InUse
<1>8. \A v \in Users : /\ sock'[Auth(v)].address = sock[Auth(v)].address
                       /\ sock'[Auth(v)].conn = sock[Auth(v)].conn
                       /\ v # u => sock'[Auth(v)] = sock[Auth(v)] /\ sock'[Lobby(v)] = sock[Lobby(v)]
                       /\ Outstanding(Auth(v))' <=> Outstanding(Auth(v))
  <2> TAKE v \in Users
  <2>1. CASE v = u
    BY <1>2, <1>5, <2>1 DEF Outstanding
  <2>2. CASE v # u
    <3>1. sock'[Auth(v)] = sock[Auth(v)] /\ sock'[Lobby(v)] = sock[Lobby(v)]
      BY <1>2, <1>3, <1>4, <2>2
    <3> QED BY <2>2, <3>1 DEF Outstanding
  <2> QED BY <2>1, <2>2
<1>9. TypeOK'
  <2>1. sock' \in [Sockets -> SocketStates]
    BY <1>1, <1>4, <1>5
  <2>2. users' \in [Addresses -> Users \cup {NoUser}] /\ stale' \subseteq Users
    BY <1>1, <1>3
  <2>3. clients' \in [Servers -> SUBSET Addresses]
    BY <1>1
  <2> QED BY <2>1, <2>2, <2>3 DEF ReadRenew, TypeOK
<1>10. ASSUME NEW r \in Sockets PROVE BySocket(r)'
  <2>1. CASE r = s
    BY <1>2, <1>5, <2>1 DEF BySocket
  <2>2. CASE r = Lobby(u)
    BY <1>1, <1>4, <2>2 DEF BySocket
  <2>3. CASE r # s /\ r # Lobby(u)
    BY <1>4, <2>3 DEF BySocket
  <2> QED BY <2>1, <2>2, <2>3
<1>11. ASSUME NEW v \in Users PROVE ByUser(v)'
  <2>1. CASE v = u
    BY <1>1, <1>2, <1>3, <1>4, <1>5, <2>1 DEF ByUser
  <2>2. CASE v # u
    BY <1>8, <2>2 DEF IInv, ByUser
  <2> QED BY <2>1, <2>2
<1>12. Distinct'
  <2>1. \A v \in Users : sock'[Lobby(v)].address = IF v = u THEN a ELSE sock[Lobby(v)].address
    BY <1>1, <1>4, <1>8
  <2>2. Distinct
    BY DEF IInv
  <2> QED BY <1>6, <1>7, <1>8, <2>1, <2>2 DEF Distinct
<1>13. Owned'
  <2> SUFFICES ASSUME NEW b \in Addresses, NEW v \in Users, users'[b] = v
               PROVE  OwnAddress(b, v)'
    BY DEF Owned
  <2>1. CASE users[b] = v
    <3>1. OwnAddress(b, v)
      BY <2>1 DEF IInv, Owned
    <3>2. v # u
      BY <1>2, <1>3, <3>1 DEF OwnAddress
    <3> QED BY <1>8, <3>1, <3>2 DEF OwnAddress
  <2>2. CASE users[b] # v
    BY <1>1, <1>4, <2>2 DEF OwnAddress
  <2> QED BY <2>1, <2>2
<1>14. ASSUME ~ Stale(s, a) PROVE users[a] = NoUser
  <2> SUFFICES ASSUME NEW v \in Users, users[a] = v PROVE FALSE
    BY <1>1
  <2>1. OwnAddress(a, v)
    BY <1>1 DEF IInv, Owned
  <2>2. /\ a = sock[Auth(v)].address /\ sock[Lobby(v)].address = NoAddress
        /\ sock[Auth(v)].read \notin {"sleep", "return"}
    BY <2>1, <1>6 DEF OwnAddress
  <2>3. sock[Auth(v)].conn = "closed"
    BY <1>7, <2>2
  <2>4. sock[Auth(v)].read = "erase"
    BY <2>2, <2>3, InvOfSocket, Auth(v) \in Sockets DEF ByUser, SocketStates, IInv
  <2> QED BY <1>2, <1>14, <2>2, <2>4 DEF Stale
<1>15. Kept'
  <2> SUFFICES ASSUME NEW w \in Users, Up(w)'
               PROVE  /\ users'[sock'[Lobby(w)].address] = w
                      /\ \A v \in Users : sock'[Auth(v)].address = sock'[Lobby(w)].address =>
                           ~ Outstanding(Auth(v))' /\ sock'[Auth(v)].read # "erase"
    BY DEF Kept
  <2>1. CASE w = u
    <3>1. ~ Stale(s, a)
      BY <1>1, <2>1 DEF Up
    <3>2. users'[a] = u
      BY <1>1, <1>14, <3>1
    <3>3. ASSUME NEW v \in Users, sock[Auth(v)].address = a
          PROVE  ~ Outstanding(Auth(v)) /\ sock'[Auth(v)].read # "erase"
      <4>1. CASE v # u
        BY <1>2, <1>3, <1>8, <3>1, <3>3, <4>1 DEF Stale
      <4>2. CASE v = u
        BY <1>2, <1>5, <3>1, <3>3, <4>2 DEF Stale, ReadRenew, Slept
      <4> QED BY <4>1, <4>2
    <3>4. sock'[Lobby(w)].address = a
      BY <1>1, <1>4, <2>1
    <3> QED BY <1>8, <2>1, <3>2, <3>3, <3>4
  <2>2. CASE w # u
    <3>1. Up(w)
      BY <1>1, <1>8, <2>2 DEF Up
    <3>2. /\ users[sock[Lobby(w)].address] = w
          /\ \A v \in Users : sock[Auth(v)].address = sock[Lobby(w)].address =>
               ~ Outstanding(Auth(v)) /\ sock[Auth(v)].read # "erase"
      BY <3>1 DEF IInv, Kept
    <3>3. users'[sock[Lobby(w)].address] = w
      BY <1>1, <1>6, <3>2
    <3>4. \A v \in Users : sock'[Auth(v)].read = "erase" => sock[Auth(v)].read = "erase"
      BY <1>2, <1>5, <1>8
    <3> QED BY <1>8, <2>2, <3>2, <3>3, <3>4
  <2> QED BY <2>1, <2>2
<1> QED BY <1>9, <1>10, <1>11, <1>12, <1>13, <1>15 DEF IInv

-----------------------------------------------------------------------------
LEMMA NextIInv == IInv /\ [Next]_vars => IInv'
<1> SUFFICES ASSUME IInv, [Next]_vars PROVE IInv'
  OBVIOUS
<1>1. CASE UNCHANGED vars
  BY <1>1 DEF vars, IInv, TypeOK, BySocket, ByUser, Distinct, Owned, OwnAddress, Kept, Up, Outstanding
<1>2. ASSUME NEW s \in Sockets, Network(s) \/ Drop(s)
      PROVE  IInv'
  BY <1>2, ConnectedInv, AnswerInv, SendDoneInv, ReceiveDoneInv, DropInv DEF Network
<1>3. ASSUME NEW s \in Sockets, Take(s)
      PROVE  IInv'
  BY <1>3, TakeConnectInv, TakeSendInv, TakeReceiveInv DEF Take
<1>4. ASSUME NEW s \in Sockets, Accept(s)
      PROVE  IInv'
  BY <1>4, AcceptArmInv, AcceptRequestInv, AcceptInsertInv DEF Accept
<1>5. ASSUME NEW s \in Sockets, Read(s)
      PROVE  IInv'
  BY <1>5, ReadArmInv, ReadNobodyInv, ReadLoginInv, ReadConnectInv, ReadEraseInv, ReadRenewInv,
     ReadReturnInv DEF Read
<1> QED BY <1>1, <1>2, <1>3, <1>4, <1>5 DEF Next

\* The strengthened invariant holds throughout.
THEOREM IInvCorrect == Spec => []IInv
BY InitIInv, NextIInv, PTL DEF Spec

\* Values stay in their types, whatever the network does.
THEOREM TypeCorrect == Spec => []TypeOK
<1>1. IInv => TypeOK
  BY DEF IInv
<1> QED BY <1>1, IInvCorrect, PTL

\* GameManager::ReadAuthMessage: a user is in _socketUserMap under one key, its own.
THEOREM UserOnceCorrect == Spec => []UserOnce
<1>1. IInv => UserOnce
  <2> SUFFICES ASSUME IInv PROVE UserOnce
    OBVIOUS
  <2> USE NamedSockets
  <2>1. users \in [Addresses -> Users \cup {NoUser}]
    BY DEF IInv, TypeOK
  <2>2. \A a \in Addresses : users[a] # NoUser => users[a] \in Users /\ OwnAddress(a, users[a])
    BY <2>1 DEF IInv, Owned
  <2>3. \A a, b \in Addresses : users[a] # NoUser /\ users[b] = users[a] => a = b
    BY <2>2 DEF OwnAddress
  <2> QED BY <2>2, <2>3 DEF UserOnce, OwnAddress
<1> QED BY <1>1, IInvCorrect, PTL

\* GameManager.cpp:182-192: whatever completions of closed sockets are still to come,
\* a user whose lobby socket is up is found under its address, unless it is stale.
THEOREM ReachableCorrect == Spec => []Reachable
<1>1. IInv => Reachable
  BY DEF IInv, Kept, Up, Reachable
<1> QED BY <1>1, IInvCorrect, PTL

=============================================================================
