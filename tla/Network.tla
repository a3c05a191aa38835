------------------------------ MODULE Network ------------------------------
(***************************************************************************)
(* The IOCP layer both servers are built on (Common/src/network): the pool *)
(* of CustomOverlapped objects, the sockets that are prepared, wait for a  *)
(* client, serve it and are used again, and the handlers of NetworkManager *)
(* that session threads, the event thread (DisconnectRequest) and the      *)
(* database workers (SendRequest) run at the same time.                    *)
(*                                                                         *)
(* A handler is split where it touches what other threads touch: the map,  *)
(* a Client, the prepared sockets, the pool.  The operations of the TBB    *)
(* containers are atomic.  Those of the pool, a LockFreeCircleQueue, are   *)
(* not: calls that overlap may lose the object that is pushed (Push), and  *)
(* hand out an object that is in use (PopStale); the model stops there, as *)
(* two operations then share one OVERLAPPED.  ActivateClient enters the    *)
(* Client and starts the accept in one step.  Taking a completion and the  *)
(* completion itself are one step: the kernel may hand it out at any time. *)
(* An access through a null pointer or an erased iterator ends the server. *)
(***************************************************************************)
EXTENDS Integers, Sequences, FiniteSets

CONSTANTS Sockets,       \* sockets the server ever creates (bound)
          Overlappeds,   \* CustomOverlapped objects in the pool at the start
          Sessions,      \* threads of Session::Process
          EventThreads,  \* threads that call DisconnectRequest
          Senders,       \* threads that call SendRequest
          ReadyCount,    \* CLIENT_ACCEPTREADY_COUNT_MAX
          MaxConn,       \* bound: clients accepted in a behaviour
          MaxOpen,       \* bound: clients connected at the same time
          MayFail,       \* calls and completions that may fail
          NoSocket, NoOverlapped

Failures == {"accept", "send", "receiveReady", "acceptEx", "sendCall"}

Threads == Sessions \cup EventThreads \cup Senders

ASSUME NetworkAssumption ==
  /\ IsFiniteSet(Sockets) /\ NoSocket \notin Sockets /\ IsFiniteSet(Threads)
  /\ IsFiniteSet(Overlappeds) /\ NoOverlapped \notin Overlappeds
  /\ ReadyCount \in Nat \ {0}
  /\ ReadyCount <= Cardinality(Sockets) /\ ReadyCount <= Cardinality(Overlappeds)
  /\ MaxConn \in Nat /\ MaxOpen \in Nat
  /\ Sessions \cap EventThreads = {} /\ Sessions \cap Senders = {}
  /\ EventThreads \cap Senders = {}
  /\ MayFail \subseteq Failures

VARIABLES
  pool,       \* _overlappedQueue
  pending,    \* operations the kernel has not completed
  prepared,   \* _preparedSocketQueue
  unused,     \* sockets not created yet
  activated,  \* the keys of _activatedClientMap
  nulled,     \* keys whose Client lost its ClientSocketPtr (Deinitialize)
  used,       \* sockets that have been connected before
  at,         \* at[t]: the next step of thread t, its socket and its objects
  stale,      \* threads whose Client or iterator is of an erased entry
  conns,      \* how many clients have been accepted
  running,    \* FALSE when the server has crashed, or an object was handed out twice
  leaked,     \* ghost: objects that nobody will return
  stranded,   \* ghost: activated sockets that a failed call left without operation
  contested   \* ghost: sockets that were disconnected by other than their receive

vars == <<pool, pending, prepared, unused, activated, nulled, used, at, stale,
          conns, running, leaked, stranded, contested>>
ghosts == <<leaked, stranded, contested>>
sockets == <<prepared, unused, activated, nulled, used>>

Operation(op, s, o) == [op |-> op, socket |-> s, ov |-> o]

\* ov is the object of the completion being handled, new the one taken from the pool.
At(step, s, o, n) == [step |-> step, socket |-> s, ov |-> o, new |-> n]
Idle == At("idle", NoSocket, NoOverlapped, NoOverlapped)

\* Steps at which a thread holds the entry it found in _activatedClientMap.
HoldsEntry == {"receiveReady", "giveBack", "rearm", "teardown", "deinitialize", "send",
               "wsaSend"}
Steps == HoldsEntry \cup {"idle", "accept", "receive", "disconnect", "erase", "activate",
                          "retry", "return"}

\* Steps at which a thread, and no pending operation, attends to its socket.
Attending == {"accept", "receive", "receiveReady", "giveBack", "rearm", "disconnect",
              "teardown", "deinitialize", "erase"}
Attended(t, s) == t \notin Senders /\ at[t].socket = s /\ at[t].step \in Attending

Receiving == {p \in pending : p.op = "recv"}
Accepting == {p \in pending : p.op = "accept"}
Sending == {p \in pending : p.op = "send"}

\* The sockets of connected clients: a receive is pending, or a thread has it.
Open == {s \in Sockets : \/ \E p \in Receiving : p.socket = s
                         \/ \E t \in Sessions : Attended(t, s)}

TypeOK ==
  /\ pool \in Seq(Overlappeds)
  /\ pending \subseteq [op : {"accept", "recv", "send"}, socket : Sockets, ov : Overlappeds]
  /\ prepared \in Seq(Sockets)
  /\ unused \subseteq Sockets
  /\ activated \subseteq Sockets
  /\ nulled \subseteq activated
  /\ used \subseteq Sockets
  /\ at \in [Threads -> [step : Steps, socket : Sockets \cup {NoSocket},
                         ov : Overlappeds \cup {NoOverlapped},
                         new : Overlappeds \cup {NoOverlapped}]]
  /\ stale \subseteq Threads
  /\ conns \in 0 .. MaxConn
  /\ running \in BOOLEAN
  /\ leaked \subseteq Overlappeds
  /\ stranded \subseteq Sockets
  /\ contested \subseteq Sockets

\* Sequences without repetition of n members of S.
Orders(S, n) == {q \in [1 .. n -> S] : \A i, j \in 1 .. n : q[i] = q[j] => i = j}

\* NetworkManager::Construct, PrepareSocket and LobbyManager::Initialize: ReadyCount
\* sockets wait for a client, each with an object of the pool.
Init ==
  \E order \in Orders(Overlappeds, Cardinality(Overlappeds)),
     ready \in Orders(Sockets, ReadyCount) :
    /\ pool = SubSeq(order, ReadyCount + 1, Cardinality(Overlappeds))
    /\ pending = {Operation("accept", ready[i], order[i]) : i \in 1 .. ReadyCount}
    /\ prepared = <<>>
    /\ activated = {ready[i] : i \in 1 .. ReadyCount}
    /\ unused = Sockets \ activated
    /\ nulled = {} /\ used = {} /\ stale = {}
    /\ at = [t \in Threads |-> Idle]
    /\ conns = 0
    /\ running = TRUE
    /\ leaked = {} /\ stranded = {} /\ contested = {}

Move(t, a) == at' = [at EXCEPT ![t] = a]
Go(t, step) == at' = [at EXCEPT ![t].step = step]

\* The pool: pop takes the oldest object, push gives one back, or loses it to the call
\* of another thread that writes the same slot or sets an index back.
Push(o) ==
  \/ pool' = Append(pool, o) /\ UNCHANGED leaked
  \/ Cardinality(Threads) > 1 /\ leaked' = leaked \cup {o} /\ UNCHANGED pool

Popped == pool # <<>> /\ pool' = Tail(pool)

-----------------------------------------------------------------------------
(* Session::Process: what a completion leads to *)

\* A client has connected; it is the handler's turn.
Accepted(t, p) ==
  /\ at[t] = Idle /\ p.op = "accept"
  /\ conns < MaxConn /\ Cardinality(Open) < MaxOpen
  /\ conns' = conns + 1
  /\ pending' = pending \ {p}
  /\ used' = used \cup {p.socket}
  /\ Move(t, At("accept", p.socket, p.ov, NoOverlapped))
  /\ UNCHANGED <<pool, prepared, unused, activated, nulled, stale, running, ghosts>>

\* The completion key of an accept is the listening socket's, which is in no map:
\* Disconnect gives the object back, Receive keeps it, and the socket stays as it is.
AcceptFails(t, p) ==
  /\ "accept" \in MayFail
  /\ at[t] = Idle /\ p.op = "accept"
  /\ pending' = pending \ {p}
  /\ \/ Push(p.ov)
     \/ leaked' = leaked \cup {p.ov} /\ UNCHANGED pool
  /\ stranded' = stranded \cup {p.socket}
  /\ UNCHANGED <<sockets, at, stale, conns, running, contested>>

\* Bytes arrived, or the receive failed with an error that is not listed.
Received(t, p) ==
  /\ at[t] = Idle /\ p.op = "recv"
  /\ pending' = pending \ {p}
  /\ Move(t, At("receive", p.socket, p.ov, NoOverlapped))
  /\ UNCHANGED <<pool, sockets, stale, conns, running, ghosts>>

\* The client is gone: no bytes, or one of the listed errors.
Closed(t, p) ==
  /\ at[t] = Idle /\ p.op = "recv"
  /\ pending' = pending \ {p}
  /\ Move(t, At("disconnect", p.socket, p.ov, NoOverlapped))
  /\ UNCHANGED <<pool, sockets, stale, conns, running, ghosts>>

\* A send that fails with such an error ends up in Disconnect as well.
SendFails(t, p) ==
  /\ "send" \in MayFail
  /\ at[t] = Idle /\ p.op = "send"
  /\ pending' = pending \ {p}
  /\ contested' = contested \cup {p.socket}
  /\ Move(t, At("disconnect", p.socket, p.ov, NoOverlapped))
  /\ UNCHANGED <<pool, sockets, stale, conns, running, leaked, stranded>>

\* NetworkManager::Send.
Sent(t, p) ==
  /\ at[t] = Idle /\ p.op = "send"
  /\ pending' = pending \ {p}
  /\ Push(p.ov)
  /\ UNCHANGED <<sockets, at, stale, conns, running, stranded, contested>>

-----------------------------------------------------------------------------
(* NetworkManager::Accept *)

\* The socket is not in the map (any more): the object is not given back.
AcceptLost(t) ==
  /\ at[t].step = "accept" /\ at[t].socket \notin activated
  /\ leaked' = leaked \cup {at[t].ov}
  /\ Move(t, Idle)
  /\ UNCHANGED <<pool, pending, sockets, stale, conns, running, stranded, contested>>

AcceptFind(t) ==
  /\ at[t].step = "accept" /\ at[t].socket \in activated
  /\ Popped
  /\ Move(t, At("receiveReady", at[t].socket, at[t].ov, Head(pool)))
  /\ stale' = stale \ {t}
  /\ UNCHANGED <<pending, sockets, conns, running, ghosts>>

\* The Client that thread t found has no socket any more.
NullClient(t) == t \in stale \/ at[t].socket \in nulled

\* A slip of ReceiveReady: the object of the completion is armed, not the new one.
ReceiveReadyOld(t) ==
  /\ at[t].step = "receiveReady" /\ ~NullClient(t)
  /\ pending' = pending \cup {Operation("recv", at[t].socket, at[t].ov)}
  /\ Move(t, IF at[t].ov = NoOverlapped THEN Idle
             ELSE At("activate", at[t].socket, at[t].ov, NoOverlapped))
  /\ UNCHANGED <<pool, sockets, stale, conns, running, ghosts>>

\* Client::ReceiveReady, for Accept (which has another object to give back) and for
\* Receive (which has not, and is done).  A call that fails tells nobody.
ReceiveReady(t) ==
  /\ at[t].step = "receiveReady" /\ ~NullClient(t)
  /\ \/ /\ pending' = pending \cup {Operation("recv", at[t].socket, at[t].new)}
        /\ UNCHANGED <<leaked, stranded>>
     \/ /\ "receiveReady" \in MayFail
        /\ leaked' = leaked \cup {at[t].new}
        /\ stranded' = stranded \cup {at[t].socket}
        /\ UNCHANGED pending
  /\ Move(t, IF at[t].ov = NoOverlapped THEN Idle
             ELSE At("activate", at[t].socket, at[t].ov, NoOverlapped))
  /\ UNCHANGED <<pool, sockets, stale, conns, running, contested>>

-----------------------------------------------------------------------------
(* GetPreparedSocket and ActivateClient, for Accept, Disconnect, DisconnectRequest *)

\* No prepared socket: PrepareSocket makes ReadyCount new ones.
PrepareSocket(t) ==
  /\ at[t].step = "activate" /\ prepared = <<>>
  /\ \E batch \in Orders(unused, ReadyCount) :
       /\ prepared' = batch
       /\ unused' = unused \ {batch[i] : i \in 1 .. ReadyCount}
  /\ Go(t, "retry")
  /\ UNCHANGED <<pool, pending, activated, nulled, used, stale, conns, running, ghosts>>

\* AcceptEx refuses a socket that waits for a client or serves one.
Refused(s) == s \in activated \/ \E p \in Accepting : p.socket = s

\* A slip of ActivateClient: the prepared socket stays in the queue.
ActivateClientFront(t) ==
  /\ at[t].step \in {"activate", "retry"} /\ prepared # <<>>
  /\ Popped
  /\ activated' = activated \cup {Head(prepared)}
  /\ pending' = pending \cup {Operation("accept", Head(prepared), Head(pool))}
  /\ Go(t, "return")
  /\ UNCHANGED <<prepared, unused, nulled, used, stale, conns, running, ghosts>>

\* A Client for the oldest prepared socket, entered if there is no entry yet.
ActivateClient(t) ==
  /\ at[t].step \in {"activate", "retry"} /\ prepared # <<>>
  /\ Popped
  /\ LET s == Head(prepared) IN
       /\ prepared' = Tail(prepared)
       /\ activated' = activated \cup {s}
       /\ \/ /\ ~Refused(s)
             /\ pending' = pending \cup {Operation("accept", s, Head(pool))}
             /\ UNCHANGED <<leaked, stranded>>
          \/ /\ Refused(s) \/ (s \in used /\ "acceptEx" \in MayFail)
             /\ leaked' = leaked \cup {Head(pool)}
             /\ stranded' = stranded \cup {s}
             /\ UNCHANGED pending
  /\ Go(t, "return")
  /\ UNCHANGED <<unused, nulled, used, stale, conns, running, contested>>

\* Other threads took the new sockets: Accept returns at once, a disconnect goes on.
ActivateNothing(t) ==
  /\ at[t].step = "retry" /\ prepared = <<>>
  /\ IF at[t].socket = NoSocket
       THEN Go(t, "return") /\ UNCHANGED leaked
       ELSE Move(t, Idle) /\ leaked' = leaked \cup {at[t].ov}
  /\ UNCHANGED <<pool, pending, sockets, stale, conns, running, stranded, contested>>

\* The end of Accept and Disconnect gives the object of the completion back.
Return(t) ==
  /\ at[t].step = "return"
  /\ IF at[t].ov = NoOverlapped THEN UNCHANGED <<pool, leaked>> ELSE Push(at[t].ov)
  /\ Move(t, Idle)
  /\ UNCHANGED <<pending, sockets, stale, conns, running, stranded, contested>>

-----------------------------------------------------------------------------
(* NetworkManager::Receive *)

\* As in Accept, the object is not given back.
ReceiveLost(t) ==
  /\ at[t].step = "receive" /\ at[t].socket \notin activated
  /\ leaked' = leaked \cup {at[t].ov}
  /\ Move(t, Idle)
  /\ UNCHANGED <<pool, pending, sockets, stale, conns, running, stranded, contested>>

\* ReceiveCallback runs now; the iterator is used again after it.
ReceiveFind(t) ==
  /\ at[t].step = "receive" /\ at[t].socket \in activated
  /\ Go(t, "giveBack")
  /\ stale' = stale \ {t}
  /\ UNCHANGED <<pool, pending, sockets, conns, running, ghosts>>

\* A slip of GiveBack: the object that was given back is armed again.
GiveBackKeeps(t) ==
  /\ at[t].step = "giveBack"
  /\ Push(at[t].ov)
  /\ Move(t, At("receiveReady", at[t].socket, NoOverlapped, at[t].ov))
  /\ UNCHANGED <<pending, sockets, stale, conns, running, stranded, contested>>

\* A slip of GiveBack: the object is forgotten.
GiveBackForgets(t) ==
  /\ at[t].step = "giveBack"
  /\ Move(t, At("rearm", at[t].socket, NoOverlapped, NoOverlapped))
  /\ UNCHANGED <<pool, pending, sockets, stale, conns, running, ghosts>>

GiveBack(t) ==
  /\ at[t].step = "giveBack"
  /\ Push(at[t].ov)
  /\ Move(t, At("rearm", at[t].socket, NoOverlapped, NoOverlapped))
  /\ UNCHANGED <<pending, sockets, stale, conns, running, stranded, contested>>

Rearm(t) ==
  /\ at[t].step = "rearm"
  /\ Popped
  /\ Move(t, At("receiveReady", at[t].socket, NoOverlapped, Head(pool)))
  /\ UNCHANGED <<pending, sockets, stale, conns, running, ghosts>>

-----------------------------------------------------------------------------
(* NetworkManager::Disconnect and DisconnectRequest *)

DisconnectLost(t) ==
  /\ at[t].step = "disconnect" /\ at[t].socket \notin activated
  /\ Push(at[t].ov)
  /\ Move(t, Idle)
  /\ UNCHANGED <<pending, sockets, stale, conns, running, stranded, contested>>

DisconnectFind(t) ==
  /\ at[t].step = "disconnect" /\ at[t].socket \in activated
  /\ Go(t, "teardown")
  /\ stale' = stale \ {t}
  /\ UNCHANGED <<pool, pending, sockets, conns, running, ghosts>>

\* A Login event disconnects a socket that has been connected.
DisconnectRequest(t, s) ==
  /\ at[t] = Idle /\ s \in activated \cap used
  /\ Move(t, At("teardown", s, NoOverlapped, NoOverlapped))
  /\ stale' = stale \ {t}
  /\ contested' = contested \cup {s}
  /\ UNCHANGED <<pool, pending, sockets, conns, running, leaked, stranded>>

\* The Client and its socket are read, the socket is shut down.
Teardown(t) ==
  /\ at[t].step = "teardown" /\ ~NullClient(t)
  /\ Go(t, "deinitialize")
  /\ UNCHANGED <<pool, pending, sockets, stale, conns, running, ghosts>>

\* Client::Deinitialize, then DisconnectCallback.
Deinitialize(t) ==
  /\ at[t].step = "deinitialize"
  /\ nulled' = IF t \in stale THEN nulled ELSE nulled \cup {at[t].socket}
  /\ Go(t, "erase")
  /\ UNCHANGED <<pool, pending, prepared, unused, activated, used, stale, conns, running,
                 ghosts>>

\* A slip of Erase: the entry stays in the map.
EraseKeepsEntry(t) ==
  /\ at[t].step = "erase"
  /\ prepared' = Append(prepared, at[t].socket)
  /\ nulled' = nulled \ {at[t].socket}
  /\ Move(t, At("activate", NoSocket, at[t].ov, NoOverlapped))
  /\ UNCHANGED <<pool, pending, unused, activated, used, stale, conns, running, ghosts>>

\* Whoever holds the entry that is erased holds it in vain; the socket is prepared.
Erase(t) ==
  /\ at[t].step = "erase"
  /\ LET s == at[t].socket IN
       /\ stale' = stale \cup {u \in Threads : /\ s \in activated
                                               /\ at[u].socket = s
                                               /\ at[u].step \in HoldsEntry}
       /\ activated' = activated \ {s}
       /\ nulled' = nulled \ {s}
       /\ prepared' = Append(prepared, s)
  /\ Move(t, At("activate", NoSocket, at[t].ov, NoOverlapped))
  /\ UNCHANGED <<pool, pending, unused, used, conns, running, ghosts>>

-----------------------------------------------------------------------------
(* NetworkManager::SendRequest *)

SendRequest(t, s) ==
  /\ at[t] = Idle /\ s \in activated \cap used
  /\ Popped
  /\ Move(t, At("send", s, NoOverlapped, Head(pool)))
  /\ stale' = stale \ {t}
  /\ UNCHANGED <<pending, sockets, conns, running, ghosts>>

\* Client::Send tests ClientSocketPtr and then reads it again.
SendChecked(t) ==
  /\ at[t].step = "send" /\ ~NullClient(t)
  /\ Go(t, "wsaSend")
  /\ UNCHANGED <<pool, pending, sockets, stale, conns, running, ghosts>>

SendLost(t) ==
  /\ \/ at[t].step = "send" /\ NullClient(t)
     \/ at[t].step = "wsaSend" /\ ~NullClient(t) /\ "sendCall" \in MayFail
  /\ leaked' = leaked \cup {at[t].new}
  /\ Move(t, Idle)
  /\ UNCHANGED <<pool, pending, sockets, stale, conns, running, stranded, contested>>

WsaSend(t) ==
  /\ at[t].step = "wsaSend" /\ ~NullClient(t)
  /\ pending' = pending \cup {Operation("send", at[t].socket, at[t].new)}
  /\ Move(t, Idle)
  /\ UNCHANGED <<pool, sockets, stale, conns, running, ghosts>>

-----------------------------------------------------------------------------
\* The next step of thread t takes an object, or sends to a socket and takes one.
Pops(t) ==
  \/ at[t].step = "accept" /\ at[t].socket \in activated
  \/ at[t].step = "rearm"
  \/ at[t].step \in {"activate", "retry"} /\ prepared # <<>>
  \/ t \in Senders /\ at[t] = Idle /\ activated \cap used # {}

\* pop() of an empty pool gives a null pointer, and so does a Client without socket.
NullDereference(t) ==
  /\ \/ Pops(t) /\ pool = <<>>
     \/ at[t].step \in {"receiveReady", "teardown", "wsaSend"} /\ NullClient(t)
  /\ running' = FALSE
  /\ UNCHANGED <<pool, pending, sockets, at, stale, conns, ghosts>>

\* pop() returns what is left in a slot that another call has emptied, or will.
PopStale(t) ==
  /\ Pops(t) /\ Cardinality(Threads) > 1
  /\ \E o \in Overlappeds \ {pool[i] : i \in DOMAIN pool} : at' = [at EXCEPT ![t].new = o]
  /\ running' = FALSE
  /\ UNCHANGED <<pool, pending, sockets, stale, conns, ghosts>>

SessionTakes(t, p) == \/ Accepted(t, p) \/ AcceptFails(t, p) \/ Received(t, p)
                      \/ Closed(t, p) \/ SendFails(t, p) \/ Sent(t, p)

Handler(t) ==
  \/ AcceptLost(t) \/ AcceptFind(t) \/ ReceiveReady(t)
  \/ PrepareSocket(t) \/ ActivateClient(t) \/ ActivateNothing(t) \/ Return(t)
  \/ ReceiveLost(t) \/ ReceiveFind(t) \/ GiveBack(t) \/ Rearm(t)
  \/ DisconnectLost(t) \/ DisconnectFind(t)
  \/ Teardown(t) \/ Deinitialize(t) \/ Erase(t)
  \/ SendChecked(t) \/ SendLost(t) \/ WsaSend(t)
  \/ NullDereference(t) \/ PopStale(t)

Next ==
  /\ running
  /\ \/ \E t \in Sessions, p \in pending : SessionTakes(t, p)
     \/ \E t \in Threads : Handler(t)
     \/ \E t \in EventThreads, s \in Sockets : DisconnectRequest(t, s)
     \/ \E t \in Senders, s \in Sockets : SendRequest(t, s)

Spec == Init /\ [][Next]_vars

-----------------------------------------------------------------------------
(* Properties *)

Pooled == {pool[i] : i \in DOMAIN pool}
InKernel == {p.ov : p \in pending}
HeldBy(t) == {at[t].ov, at[t].new} \ {NoOverlapped}
Held == UNION {HeldBy(t) : t \in Threads}

\* An object is in one place: in the pool, in one operation of the kernel, in the
\* hands of one thread, or lost by an early return or an overlapping push.
Exclusive ==
  /\ \A i, j \in DOMAIN pool : pool[i] = pool[j] => i = j
  /\ \A p, q \in pending : p.ov = q.ov => p = q
  /\ \A t, u \in Threads : t # u => HeldBy(t) \cap HeldBy(u) = {}
  /\ \A t \in Threads : at[t].ov = at[t].new => at[t].ov = NoOverlapped
  /\ Pooled \cap InKernel = {} /\ Pooled \cap Held = {} /\ Pooled \cap leaked = {}
  /\ InKernel \cap Held = {} /\ InKernel \cap leaked = {} /\ Held \cap leaked = {}
  /\ Pooled \cup InKernel \cup Held \cup leaked = Overlappeds

\* As long as the pool itself hands out nothing but what it has, the handlers never
\* let two operations write to the same buffers, whatever is disconnected twice, fails,
\* or is lost by pushes that overlap (NetworkManager.cpp: every pop has its push, or
\* the object is lost).
ExclusiveOverlapped == running => Exclusive

\* As long as only its own receive disconnects it, an activated socket is waited for
\* or read by exactly one operation, or attended to by exactly one thread, unless a
\* failed call left it alone: messages of one client are handled one at a time
\* (NetworkManager.cpp: Accept, Receive and Disconnect hand the socket on).
Armed ==
  \A s \in Sockets \ contested :
    Cardinality({p \in Receiving \cup Accepting : p.socket = s})
      + Cardinality({t \in Threads : Attended(t, s)})
      = IF s \in activated \ stranded THEN 1 ELSE 0

\* A socket is new, prepared or activated, once: it never serves two Clients
\* (NetworkManager.cpp: unsafe_erase and push of Disconnect, GetPreparedSocket).
SocketOnceOf(s) ==
  Cardinality({i \in DOMAIN prepared : prepared[i] = s})
    + (IF s \in activated THEN 1 ELSE 0) + (IF s \in unused THEN 1 ELSE 0) = 1

UncontestedSocketOnce == \A s \in Sockets \ contested : SocketOnceOf(s)

\* The same after a DisconnectRequest: the comments in Disconnect and
\* DisconnectRequest say that running both is no problem.
SocketOnce == \A s \in Sockets : SocketOnceOf(s)

\* What is missing in the pool is accounted for by the sockets that were ready at the
\* start, one object for each client accepted so far, connected or gone, one for each
\* busy thread, the sends under way and the objects lost, those of overlapping pushes
\* among them (NetworkManager.cpp:192-238 and 344-348: Accept arms two operations, and
\* a disconnect arms one more accept).
PoolBudget ==
  running /\ contested = {} =>
    Len(pool) + ReadyCount + conns + Cardinality({t \in Threads : at[t] # Idle})
      + Cardinality(Sending) + Cardinality(leaked) >= Cardinality(Overlappeds)
=============================================================================
