--------------------------- MODULE NetworkProofs ---------------------------
(***************************************************************************)
(* For any number of sockets, objects and threads: the overlapped objects  *)
(* of Network stay in one place, whatever fails, is disconnected twice or  *)
(* is lost by overlapping pushes, until the pool hands one out twice;      *)
(* a socket that is not disconnected twice is in one place too and has one *)
(* operation or thread to attend to it; and the pool keeps to its budget.  *)
(***************************************************************************)
EXTENDS Network, SequenceTheorems, FiniteSetTheorems, TLAPS

\* What a thread has in its hands at each step.
Shape(a) ==
  /\ a.step = "idle" => a = Idle
  /\ a.step \in Attending \cup {"send", "wsaSend"} => a.socket \in Sockets
  /\ a.step \in {"accept", "receive", "giveBack", "disconnect"} => a.ov \in Overlappeds
  /\ a.step \in {"receiveReady", "send", "wsaSend"} => a.new \in Overlappeds
  /\ a.step \in {"rearm", "send", "wsaSend"} => a.ov = NoOverlapped
  /\ a.step \in {"activate", "retry"} /\ a.socket # NoSocket => a.ov \in Overlappeds
  /\ a.step \notin {"receiveReady", "send", "wsaSend"} => a.new = NoOverlapped

GoodThreads == \A t \in Threads : Shape(at[t])

\* An entry that a thread holds is in the map, unless the thread is stale.
EntryHeld ==
  \A t \in Threads : at[t].step \in HoldsEntry /\ t \notin stale => at[t].socket \in activated

\* While the server runs: type correctness needs EntryHeld (Deinitialize), and
\* exclusiveness needs to know which objects a thread forgets when it moves on.
IInv == TypeOK /\ GoodThreads /\ EntryHeld /\ Exclusive

\* The inductive invariant: when it has stopped, the state is still one of the types.
Sound == TypeOK /\ (running => IInv)

ThreadStates == [step : Steps, socket : Sockets \cup {NoSocket},
                 ov : Overlappeds \cup {NoOverlapped}, new : Overlappeds \cup {NoOverlapped}]

Operations == [op : {"accept", "recv", "send"}, socket : Sockets, ov : Overlappeds]

Hands(a) == {a.ov, a.new} \ {NoOverlapped}

-----------------------------------------------------------------------------
(* The pool as a set *)

\* The objects of an exclusive pool after pop().
LEMMA PopObjects ==
  ASSUME NEW S, NEW q \in Seq(S), q # <<>>,
         \A i, j \in DOMAIN q : q[i] = q[j] => i = j
  PROVE  /\ Head(q) \in S /\ Tail(q) \in Seq(S)
         /\ Head(q) \in {q[i] : i \in DOMAIN q}
         /\ {Tail(q)[i] : i \in DOMAIN Tail(q)} = {q[i] : i \in DOMAIN q} \ {Head(q)}
         /\ \A i, j \in DOMAIN Tail(q) : Tail(q)[i] = Tail(q)[j] => i = j
  <1>1. /\ Head(q) \in S /\ Tail(q) \in Seq(S)
        /\ Len(Tail(q)) = Len(q) - 1
        /\ \A i \in 1 .. Len(Tail(q)) : Tail(q)[i] = q[i + 1]
        /\ Head(q) = q[1]
    BY HeadTailProperties
  <1>2. Len(q) \in Nat \ {0} /\ DOMAIN q = 1 .. Len(q) /\ DOMAIN Tail(q) = 1 .. Len(q) - 1
    BY <1>1, EmptySeq
  <1>3. \A i \in 1 .. Len(q) - 1 : Tail(q)[i] = q[i + 1] /\ i + 1 \in DOMAIN q /\ i + 1 # 1
    BY <1>1, <1>2
  <1>4. \A i \in DOMAIN q : i # 1 => i - 1 \in 1 .. Len(q) - 1 /\ (i - 1) + 1 = i
    BY <1>2
  <1>5. {Tail(q)[i] : i \in DOMAIN Tail(q)} \subseteq {q[i] : i \in DOMAIN q} \ {Head(q)}
    BY <1>1, <1>2, <1>3
  <1>6. {q[i] : i \in DOMAIN q} \ {Head(q)} \subseteq {Tail(q)[i] : i \in DOMAIN Tail(q)}
    <2> SUFFICES ASSUME NEW i \in DOMAIN q, q[i] # Head(q)
                 PROVE  \E k \in DOMAIN Tail(q) : Tail(q)[k] = q[i]
      OBVIOUS
    <2>1. i # 1
      BY <1>1
    <2> QED
      BY <2>1, <1>2, <1>3, <1>4
  <1>7. \A i, j \in DOMAIN Tail(q) : Tail(q)[i] = Tail(q)[j] => i = j
    BY <1>2, <1>3
  <1>8. Head(q) \in {q[i] : i \in DOMAIN q}
    BY <1>1, <1>2
  <1> QED
    BY <1>1, <1>5, <1>6, <1>7, <1>8

\* The objects of an exclusive pool after push() of an object it does not hold.
LEMMA PushObjects ==
  ASSUME NEW S, NEW q \in Seq(S), NEW o \in S, o \notin {q[i] : i \in DOMAIN q},
         \A i, j \in DOMAIN q : q[i] = q[j] => i = j
  PROVE  /\ Append(q, o) \in Seq(S)
         /\ {Append(q, o)[i] : i \in DOMAIN Append(q, o)} = {q[i] : i \in DOMAIN q} \cup {o}
         /\ \A i, j \in DOMAIN Append(q, o) : Append(q, o)[i] = Append(q, o)[j] => i = j
  <1>1. /\ Append(q, o) \in Seq(S) /\ Len(Append(q, o)) = Len(q) + 1
        /\ Append(q, o)[Len(q) + 1] = o
        /\ \A i \in 1 .. Len(q) : Append(q, o)[i] = q[i]
    BY AppendProperties
  <1>2. Len(q) \in Nat /\ DOMAIN q = 1 .. Len(q) /\ DOMAIN Append(q, o) = 1 .. Len(q) + 1
    BY <1>1
  <1>3. \A i \in 1 .. Len(q) + 1 : i \in 1 .. Len(q) \/ i = Len(q) + 1
    BY <1>2
  <1> QED
    BY <1>1, <1>2, <1>3

\* pop() and push() of the pool.
LEMMA PoolPop ==
  ASSUME TypeOK, Exclusive, Popped
  PROVE  /\ Head(pool) \in Overlappeds /\ pool' \in Seq(Overlappeds)
         /\ Head(pool) \in Pooled /\ Pooled' = Pooled \ {Head(pool)}
         /\ \A i, j \in DOMAIN pool' : pool'[i] = pool'[j] => i = j
  <1>1. pool \in Seq(Overlappeds) /\ pool # <<>> /\ pool' = Tail(pool)
        /\ \A i, j \in DOMAIN pool : pool[i] = pool[j] => i = j
    BY DEF TypeOK, Exclusive, Popped
  <1>2. /\ Head(pool) \in Overlappeds /\ Tail(pool) \in Seq(Overlappeds)
        /\ Head(pool) \in {pool[i] : i \in DOMAIN pool}
        /\ {Tail(pool)[i] : i \in DOMAIN Tail(pool)} = {pool[i] : i \in DOMAIN pool} \ {Head(pool)}
        /\ \A i, j \in DOMAIN Tail(pool) : Tail(pool)[i] = Tail(pool)[j] => i = j
    BY <1>1, PopObjects
  <1>3. Pooled = {pool[i] : i \in DOMAIN pool}
        /\ Pooled' = {Tail(pool)[i] : i \in DOMAIN Tail(pool)}
    BY <1>1 DEF Pooled
  <1> QED
    BY <1>1, <1>2, <1>3

LEMMA PoolPush ==
  ASSUME TypeOK, Exclusive, NEW o \in Overlappeds, o \notin Pooled, pool' = Append(pool, o)
  PROVE  /\ pool' \in Seq(Overlappeds) /\ Pooled' = Pooled \cup {o}
         /\ \A i, j \in DOMAIN pool' : pool'[i] = pool'[j] => i = j
  <1>1. pool \in Seq(Overlappeds) /\ pool' = Append(pool, o)
        /\ \A i, j \in DOMAIN pool : pool[i] = pool[j] => i = j
    BY DEF TypeOK, Exclusive
  <1> QED
    BY <1>1, PushObjects DEF Pooled

-----------------------------------------------------------------------------
(* The hands of the threads *)

\* When one thread moves, the others hold what they held.
LEMMA HandsAfter ==
  ASSUME TypeOK, Exclusive, NEW t \in Threads, NEW a \in ThreadStates, Move(t, a)
  PROVE  /\ HeldBy(t)' = Hands(a)
         /\ \A u \in Threads : u # t => HeldBy(u)' = HeldBy(u)
         /\ Held' = (Held \ HeldBy(t)) \cup Hands(a)
  <1>1. at'[t] = a /\ \A u \in Threads : u # t => at'[u] = at[u]
    BY DEF TypeOK, Move
  <1>2. HeldBy(t)' = Hands(a) /\ \A u \in Threads : u # t => HeldBy(u)' = HeldBy(u)
    BY <1>1 DEF HeldBy, Hands
  <1>3. \A u \in Threads : u # t => HeldBy(u) \cap HeldBy(t) = {}
    BY DEF Exclusive
  <1>4. Held' = (Held \ HeldBy(t)) \cup Hands(a)
    <2>1. Held' = UNION {HeldBy(u)' : u \in Threads}
      BY DEF Held
    <2> QED
      BY <2>1, <1>2, <1>3 DEF Held
  <1> QED
    BY <1>2, <1>4

\* If what the thread holds then is its own or nobody's, hands stay exclusive.
HandsExclusive ==
  /\ \A t, u \in Threads : t # u => HeldBy(t) \cap HeldBy(u) = {}
  /\ \A t \in Threads : at[t].ov = at[t].new => at[t].ov = NoOverlapped

LEMMA HandsStayExclusive ==
  ASSUME TypeOK, Exclusive, NEW t \in Threads, NEW a \in ThreadStates, Move(t, a),
         a.ov = a.new => a.ov = NoOverlapped,
         Hands(a) \cap (Held \ HeldBy(t)) = {}
  PROVE  HandsExclusive'
  <1>1. /\ HeldBy(t)' = Hands(a)
        /\ \A u \in Threads : u # t => HeldBy(u)' = HeldBy(u)
    BY HandsAfter
  <1>2. HandsExclusive
    BY DEF Exclusive, HandsExclusive
  <1>3. \A u \in Threads : u # t => Hands(a) \cap HeldBy(u) = {}
    <2>1. \A u \in Threads : HeldBy(u) \subseteq Held
      BY DEF Held
    <2> QED
      BY <1>2, <2>1 DEF HandsExclusive
  <1>4. \A u, v \in Threads : u # v => HeldBy(u)' \cap HeldBy(v)' = {}
    BY <1>1, <1>2, <1>3 DEF HandsExclusive
  <1>5. at'[t] = a /\ \A u \in Threads : u # t => at'[u] = at[u]
    BY DEF TypeOK, Move
  <1>6. \A u \in Threads : at'[u].ov = at'[u].new => at'[u].ov = NoOverlapped
    BY <1>2, <1>5 DEF HandsExclusive
  <1> QED
    BY <1>4, <1>6 DEF HandsExclusive

\* The four places share no object, and have them all.
Places(p, k, h, l) ==
  /\ p \cap k = {} /\ p \cap h = {} /\ p \cap l = {}
  /\ k \cap h = {} /\ k \cap l = {} /\ h \cap l = {}
  /\ p \cup k \cup h \cup l = Overlappeds

LEMMA ExclusiveParts ==
  Exclusive <=>
    /\ \A i, j \in DOMAIN pool : pool[i] = pool[j] => i = j
    /\ \A p, q \in pending : p.ov = q.ov => p = q
    /\ HandsExclusive
    /\ Places(Pooled, InKernel, Held, leaked)
  BY DEF Exclusive, HandsExclusive, Places

-----------------------------------------------------------------------------
(* One object moves, or none: the objects stay exclusive *)

\* A thread takes an object from the pool.
LEMMA ThreadTakes ==
  ASSUME TypeOK, Exclusive, NEW t \in Threads, NEW a \in ThreadStates, Move(t, a),
         Popped, a.ov = a.new => a.ov = NoOverlapped,
         Hands(a) = HeldBy(t) \cup {Head(pool)}, pending' = pending, leaked' = leaked
  PROVE  Exclusive' /\ pool' \in Seq(Overlappeds)
  <1>1. /\ pool' \in Seq(Overlappeds) /\ Head(pool) \in Pooled
        /\ Pooled' = Pooled \ {Head(pool)}
        /\ \A i, j \in DOMAIN pool' : pool'[i] = pool'[j] => i = j
    BY PoolPop
  <1>2. /\ \A p, q \in pending : p.ov = q.ov => p = q
        /\ Places(Pooled, InKernel, Held, leaked)
    BY ExclusiveParts
  <1>3. HeldBy(t) \subseteq Held /\ Held' = (Held \ HeldBy(t)) \cup Hands(a)
    BY HandsAfter DEF Held
  <1>4. HandsExclusive'
    BY <1>1, <1>2, HandsStayExclusive DEF Places
  <1>5. Places(Pooled, InKernel, Held, leaked)'
    BY <1>1, <1>2, <1>3 DEF Places, InKernel
  <1> QED
    BY <1>1, <1>2, <1>4, <1>5, ExclusiveParts DEF Exclusive, HandsExclusive, Places

\* A thread forgets an object: it leaks.
LEMMA ThreadLoses ==
  ASSUME TypeOK, Exclusive, NEW t \in Threads, NEW a \in ThreadStates, Move(t, a),
         NEW o \in HeldBy(t), a.ov = a.new => a.ov = NoOverlapped,
         Hands(a) = HeldBy(t) \ {o},
         pool' = pool, pending' = pending, leaked' = leaked \cup {o}
  PROVE  Exclusive'
  <1>1. /\ \A i, j \in DOMAIN pool : pool[i] = pool[j] => i = j
        /\ \A p, q \in pending : p.ov = q.ov => p = q
        /\ Places(Pooled, InKernel, Held, leaked)
    BY ExclusiveParts
  <1>2. HeldBy(t) \subseteq Held /\ Held' = (Held \ HeldBy(t)) \cup Hands(a)
    BY HandsAfter DEF Held
  <1>3. HandsExclusive'
    BY HandsStayExclusive
  <1>4. Places(Pooled, InKernel, Held, leaked)'
    BY <1>1, <1>2 DEF Places, InKernel, Pooled
  <1> QED
    BY <1>1, <1>3, <1>4 DEF Exclusive, HandsExclusive, Places

\* A thread gives an object back to the pool, which may lose it.
LEMMA ThreadGives ==
  ASSUME TypeOK, Exclusive, NEW t \in Threads, NEW a \in ThreadStates, Move(t, a),
         NEW o \in Overlappeds, o \in HeldBy(t), Push(o), a.ov = a.new => a.ov = NoOverlapped,
         Hands(a) = HeldBy(t) \ {o}, pending' = pending
  PROVE  Exclusive' /\ pool' \in Seq(Overlappeds) /\ leaked' \subseteq Overlappeds
  <1>1. CASE leaked' = leaked \cup {o} /\ pool' = pool
    <2>1. Exclusive'
      BY <1>1, ThreadLoses
    <2> QED
      BY <1>1, <2>1 DEF TypeOK
  <1>2. CASE pool' = Append(pool, o) /\ leaked' = leaked
    <2>1. /\ \A p, q \in pending : p.ov = q.ov => p = q
          /\ HandsExclusive
          /\ Places(Pooled, InKernel, Held, leaked)
      BY ExclusiveParts
    <2>2. HeldBy(t) \subseteq Held /\ Held' = (Held \ HeldBy(t)) \cup Hands(a)
      BY HandsAfter DEF Held
    <2>3. /\ pool' \in Seq(Overlappeds) /\ Pooled' = Pooled \cup {o}
          /\ \A i, j \in DOMAIN pool' : pool'[i] = pool'[j] => i = j
      <3>1. o \notin Pooled
        BY <2>1, <2>2 DEF Places
      <3> QED
        BY <1>2, <3>1, PoolPush
    <2>4. HandsExclusive'
      BY HandsStayExclusive
    <2>5. Places(Pooled, InKernel, Held, leaked)'
      BY <1>2, <2>1, <2>2, <2>3 DEF Places, InKernel
    <2> QED
      BY <1>2, <2>1, <2>3, <2>4, <2>5 DEF Exclusive, HandsExclusive, Places, TypeOK
  <1> QED
    BY <1>1, <1>2 DEF Push

\* A thread starts an operation with an object it holds.
LEMMA ThreadArms ==
  ASSUME TypeOK, Exclusive, NEW t \in Threads, NEW a \in ThreadStates, Move(t, a),
         NEW p \in Operations, p.ov \in HeldBy(t), a.ov = a.new => a.ov = NoOverlapped,
         Hands(a) = HeldBy(t) \ {p.ov},
         pool' = pool, pending' = pending \cup {p}, leaked' = leaked
  PROVE  Exclusive'
  <1>1. /\ \A i, j \in DOMAIN pool : pool[i] = pool[j] => i = j
        /\ \A q, r \in pending : q.ov = r.ov => q = r
        /\ Places(Pooled, InKernel, Held, leaked)
    BY ExclusiveParts
  <1>2. HeldBy(t) \subseteq Held /\ Held' = (Held \ HeldBy(t)) \cup Hands(a)
    BY HandsAfter DEF Held
  <1>3. HandsExclusive'
    BY HandsStayExclusive
  <1>4. InKernel' = InKernel \cup {p.ov} /\ p.ov \notin InKernel
    BY <1>1, <1>2 DEF InKernel, Places
  <1>5. \A q, r \in pending' : q.ov = r.ov => q = r
    BY <1>1, <1>4 DEF InKernel
  <1>6. Places(Pooled, InKernel, Held, leaked)'
    BY <1>1, <1>2, <1>4 DEF Places, Pooled
  <1> QED
    BY <1>1, <1>3, <1>5, <1>6 DEF Exclusive, HandsExclusive, Places

\* A thread that holds nothing takes a completion.
LEMMA ThreadCompletes ==
  ASSUME TypeOK, Exclusive, NEW t \in Threads, NEW a \in ThreadStates, Move(t, a),
         NEW p \in pending, HeldBy(t) = {}, Hands(a) = {p.ov}, a.ov # a.new,
         pool' = pool, pending' = pending \ {p}, leaked' = leaked
  PROVE  Exclusive'
  <1>1. /\ \A i, j \in DOMAIN pool : pool[i] = pool[j] => i = j
        /\ \A q, r \in pending : q.ov = r.ov => q = r
        /\ Places(Pooled, InKernel, Held, leaked)
    BY ExclusiveParts
  <1>2. Held' = Held \cup {p.ov}
    BY HandsAfter
  <1>3. InKernel' = InKernel \ {p.ov} /\ p.ov \in InKernel
    BY <1>1 DEF InKernel
  <1>4. HandsExclusive'
    BY <1>1, <1>3, HandsStayExclusive DEF Places
  <1>5. Places(Pooled, InKernel, Held, leaked)'
    BY <1>1, <1>2, <1>3 DEF Places, Pooled
  <1> QED
    BY <1>1, <1>4, <1>5 DEF Exclusive, HandsExclusive, Places

\* A completion gives its object back, or loses it.
LEMMA KernelGives ==
  ASSUME TypeOK, Exclusive, NEW p \in pending, pending' = pending \ {p}, at' = at,
         \/ Push(p.ov)
         \/ pool' = pool /\ leaked' = leaked \cup {p.ov}
  PROVE  Exclusive' /\ pool' \in Seq(Overlappeds) /\ leaked' \subseteq Overlappeds
  <1>1. /\ \A i, j \in DOMAIN pool : pool[i] = pool[j] => i = j
        /\ \A q, r \in pending : q.ov = r.ov => q = r
        /\ HandsExclusive
        /\ Places(Pooled, InKernel, Held, leaked)
    BY ExclusiveParts
  <1>2. p.ov \in Overlappeds /\ pool \in Seq(Overlappeds)
    BY DEF TypeOK
  <1>3. InKernel' = InKernel \ {p.ov} /\ p.ov \in InKernel
    BY <1>1 DEF InKernel
  <1>4. Held' = Held /\ HandsExclusive'
    BY <1>1 DEF Held, HeldBy, HandsExclusive
  <1>5. CASE pool' = Append(pool, p.ov) /\ leaked' = leaked
    <2>1. /\ pool' \in Seq(Overlappeds) /\ Pooled' = Pooled \cup {p.ov}
          /\ \A i, j \in DOMAIN pool' : pool'[i] = pool'[j] => i = j
      BY <1>1, <1>2, <1>3, <1>5, PoolPush DEF Places
    <2>2. Places(Pooled, InKernel, Held, leaked)'
      BY <1>1, <1>3, <1>4, <1>5, <2>1 DEF Places
    <2> QED
      BY <1>1, <1>4, <1>5, <2>1, <2>2 DEF Exclusive, HandsExclusive, Places, TypeOK
  <1>6. CASE pool' = pool /\ leaked' = leaked \cup {p.ov}
    <2>1. Places(Pooled, InKernel, Held, leaked)'
      BY <1>1, <1>3, <1>4, <1>6 DEF Places, Pooled
    <2> QED
      BY <1>1, <1>2, <1>4, <1>6, <2>1 DEF Exclusive, HandsExclusive, Places, TypeOK
  <1> QED
    BY <1>5, <1>6 DEF Push

\* AcceptEx takes an object from the pool to the kernel, or loses it.
LEMMA PoolArms ==
  ASSUME TypeOK, Exclusive, NEW t \in Threads, NEW a \in ThreadStates, Move(t, a),
         Popped, Hands(a) = HeldBy(t), a.ov = a.new => a.ov = NoOverlapped,
         \/ /\ \E p \in Operations : p.ov = Head(pool) /\ pending' = pending \cup {p}
            /\ leaked' = leaked
         \/ pending' = pending /\ leaked' = leaked \cup {Head(pool)}
  PROVE  Exclusive' /\ pool' \in Seq(Overlappeds)
  <1>1. /\ \A q, r \in pending : q.ov = r.ov => q = r
        /\ Places(Pooled, InKernel, Held, leaked)
    BY ExclusiveParts
  <1>2. /\ pool' \in Seq(Overlappeds) /\ Head(pool) \in Pooled
        /\ Pooled' = Pooled \ {Head(pool)}
        /\ \A i, j \in DOMAIN pool' : pool'[i] = pool'[j] => i = j
    BY PoolPop
  <1>3. Held' = Held
    <2>1. HeldBy(t) \subseteq Held
      BY DEF Held
    <2> QED
      BY <2>1, HandsAfter
  <1>4. HandsExclusive'
    BY HandsStayExclusive
  <1>5. CASE \E p \in Operations : p.ov = Head(pool) /\ pending' = pending \cup {p}
                                   /\ leaked' = leaked
    <2>1. PICK p \in Operations : p.ov = Head(pool) /\ pending' = pending \cup {p}
                                 /\ leaked' = leaked
      BY <1>5
    <2>2. InKernel' = InKernel \cup {p.ov} /\ p.ov \notin InKernel
      BY <1>1, <1>2, <2>1 DEF InKernel, Places
    <2>3. \A q, r \in pending' : q.ov = r.ov => q = r
      BY <1>1, <2>1, <2>2 DEF InKernel
    <2>4. Places(Pooled, InKernel, Held, leaked)'
      BY <1>1, <1>2, <1>3, <2>1, <2>2 DEF Places
    <2> QED
      BY <1>2, <1>4, <2>3, <2>4 DEF Exclusive, HandsExclusive, Places
  <1>6. CASE pending' = pending /\ leaked' = leaked \cup {Head(pool)}
    <2>1. Places(Pooled, InKernel, Held, leaked)'
      BY <1>1, <1>2, <1>3, <1>6 DEF Places, InKernel
    <2> QED
      BY <1>1, <1>2, <1>4, <1>6, <2>1 DEF Exclusive, HandsExclusive, Places
  <1> QED
    BY <1>5, <1>6

\* A thread goes on with what it has.
LEMMA ThreadKeeps ==
  ASSUME TypeOK, Exclusive, NEW t \in Threads, NEW a \in ThreadStates, Move(t, a),
         Hands(a) = HeldBy(t), a.ov = a.new => a.ov = NoOverlapped,
         pool' = pool, pending' = pending, leaked' = leaked
  PROVE  Exclusive'
  <1>1. /\ \A i, j \in DOMAIN pool : pool[i] = pool[j] => i = j
        /\ \A p, q \in pending : p.ov = q.ov => p = q
        /\ Places(Pooled, InKernel, Held, leaked)
    BY ExclusiveParts
  <1>2. Held' = Held
    <2>1. HeldBy(t) \subseteq Held
      BY DEF Held
    <2> QED
      BY <2>1, HandsAfter
  <1>3. HandsExclusive'
    BY HandsStayExclusive
  <1>4. Places(Pooled, InKernel, Held, leaked)'
    BY <1>1, <1>2 DEF Places, InKernel, Pooled
  <1> QED
    BY <1>1, <1>3, <1>4 DEF Exclusive, HandsExclusive, Places

-----------------------------------------------------------------------------
(* One thread moves: shape, entries and types *)

LEMMA MoveKeeps ==
  ASSUME IInv, NEW t \in Threads, NEW a \in ThreadStates, Move(t, a), Shape(a),
         activated \subseteq activated', stale \ {t} \subseteq stale',
         a.step \in HoldsEntry /\ t \notin stale' => a.socket \in activated'
  PROVE  GoodThreads' /\ EntryHeld' /\ at' \in [Threads -> ThreadStates]
  <1>1. at \in [Threads -> ThreadStates]
    BY DEF IInv, TypeOK, ThreadStates
  <1>2. /\ at' \in [Threads -> ThreadStates] /\ at'[t] = a
        /\ \A u \in Threads : u # t => at'[u] = at[u]
    BY <1>1 DEF Move
  <1>3. GoodThreads'
    BY <1>2 DEF IInv, GoodThreads, Shape
  <1>4. EntryHeld'
    BY <1>2 DEF IInv, EntryHeld
  <1> QED
    BY <1>2, <1>3, <1>4

\* Go changes the step only.
LEMMA GoMoves ==
  ASSUME TypeOK, NEW t \in Threads, NEW step \in Steps, Go(t, step)
  PROVE  /\ At(step, at[t].socket, at[t].ov, at[t].new) \in ThreadStates
         /\ Move(t, At(step, at[t].socket, at[t].ov, at[t].new))
  <1>1. at[t] \in ThreadStates
    BY DEF TypeOK, ThreadStates
  <1>2. [at[t] EXCEPT !.step = step] = At(step, at[t].socket, at[t].ov, at[t].new)
    BY <1>1 DEF ThreadStates, At
  <1>3. at' = [at EXCEPT ![t] = [at[t] EXCEPT !.step = step]]
    BY DEF Go
  <1>4. Move(t, At(step, at[t].socket, at[t].ov, at[t].new))
    BY <1>2, <1>3 DEF Move
  <1>5. At(step, at[t].socket, at[t].ov, at[t].new) \in ThreadStates
    BY <1>1 DEF ThreadStates, At
  <1> QED
    BY <1>4, <1>5

\* What a thread holds, by its step.
LEMMA ThreadFacts ==
  ASSUME TypeOK, GoodThreads, Exclusive, NEW t \in Threads
  PROVE  /\ at[t] \in ThreadStates /\ Shape(at[t]) /\ HeldBy(t) = Hands(at[t])
         /\ at[t].ov = at[t].new => at[t].ov = NoOverlapped
  BY DEF TypeOK, ThreadStates, GoodThreads, Exclusive, HeldBy, Hands

\* TypeOK with the names of this module.
LEMMA TypeParts ==
  TypeOK <=>
    /\ pool \in Seq(Overlappeds)
    /\ pending \subseteq Operations
    /\ prepared \in Seq(Sockets)
    /\ unused \subseteq Sockets /\ activated \subseteq Sockets /\ nulled \subseteq activated
    /\ used \subseteq Sockets
    /\ at \in [Threads -> ThreadStates]
    /\ stale \subseteq Threads
    /\ conns \in 0 .. MaxConn
    /\ running \in BOOLEAN
    /\ leaked \subseteq Overlappeds /\ stranded \subseteq Sockets /\ contested \subseteq Sockets
  BY DEF TypeOK, Operations, ThreadStates

-----------------------------------------------------------------------------
(* Completions *)

LEMMA SessionTakesKeeps ==
  ASSUME IInv, NEW t \in Sessions, NEW p \in pending, SessionTakes(t, p)
  PROVE  IInv'
<1> USE NetworkAssumption DEF NetworkAssumption
<1>0. /\ t \in Threads /\ TypeOK /\ GoodThreads /\ EntryHeld /\ Exclusive
      /\ p \in Operations /\ p.ov \in Overlappeds /\ p.socket \in Sockets
      /\ NoOverlapped \notin Overlappeds
  BY TypeParts DEF IInv, Threads, Operations
<1>free. ASSUME at[t] = Idle
         PROVE  HeldBy(t) = {}
  BY <1>free DEF HeldBy, Idle, At
\* A completion that goes to a handler.
<1>take. ASSUME NEW step \in {"accept", "receive", "disconnect"}, at[t] = Idle,
                Move(t, At(step, p.socket, p.ov, NoOverlapped)),
                pool' = pool, pending' = pending \ {p}, leaked' = leaked,
                activated' = activated, stale' = stale
         PROVE  /\ Exclusive' /\ GoodThreads' /\ EntryHeld'
                /\ at' \in [Threads -> ThreadStates]
  <2> DEFINE a == At(step, p.socket, p.ov, NoOverlapped)
  <2>1. /\ a \in ThreadStates /\ Shape(a) /\ Hands(a) = {p.ov} /\ a.ov # a.new
        /\ a.step \notin HoldsEntry
    BY <1>0 DEF At, ThreadStates, Steps, Shape, Hands, Attending, HoldsEntry, Idle
  <2>2. Exclusive'
    BY <1>0, <1>free, <1>take, <2>1, ThreadCompletes
  <2>3. GoodThreads' /\ EntryHeld' /\ at' \in [Threads -> ThreadStates]
    BY <1>0, <1>take, <2>1, MoveKeeps
  <2> QED
    BY <2>2, <2>3
\* A completion that is dealt with at once.
<1>still. ASSUME at' = at, activated' = activated, stale' = stale
          PROVE  GoodThreads' /\ EntryHeld'
  BY <1>0, <1>still DEF GoodThreads, EntryHeld
<1>1. CASE Accepted(t, p)
  <2>1. Exclusive' /\ GoodThreads' /\ EntryHeld' /\ at' \in [Threads -> ThreadStates]
    BY <1>1, <1>take DEF Accepted, ghosts
  <2>2. conns' \in 0 .. MaxConn
    BY <1>0, <1>1, TypeParts DEF Accepted
  <2>3. TypeOK'
    BY <1>0, <1>1, <2>1, <2>2, TypeParts DEF Accepted, ghosts, TypeOK, ThreadStates
  <2> QED
    BY <2>1, <2>3 DEF IInv
<1>2. CASE AcceptFails(t, p)
  <2>1. Exclusive' /\ pool' \in Seq(Overlappeds) /\ leaked' \subseteq Overlappeds
    BY <1>0, <1>2, KernelGives DEF AcceptFails
  <2>2. GoodThreads' /\ EntryHeld'
    BY <1>2, <1>still DEF AcceptFails, sockets
  <2>3. TypeOK'
    BY <1>0, <1>2, <2>1 DEF AcceptFails, sockets, TypeOK
  <2> QED
    BY <2>1, <2>2, <2>3 DEF IInv
<1>3. CASE Received(t, p)
  <2>1. Exclusive' /\ GoodThreads' /\ EntryHeld' /\ at' \in [Threads -> ThreadStates]
    BY <1>3, <1>take DEF Received, ghosts, sockets
  <2>2. TypeOK'
    BY <1>0, <1>3, <2>1 DEF Received, ghosts, sockets, TypeOK, ThreadStates
  <2> QED
    BY <2>1, <2>2 DEF IInv
<1>4. CASE Closed(t, p)
  <2>1. Exclusive' /\ GoodThreads' /\ EntryHeld' /\ at' \in [Threads -> ThreadStates]
    BY <1>4, <1>take DEF Closed, ghosts, sockets
  <2>2. TypeOK'
    BY <1>0, <1>4, <2>1 DEF Closed, ghosts, sockets, TypeOK, ThreadStates
  <2> QED
    BY <2>1, <2>2 DEF IInv
<1>5. CASE SendFails(t, p)
  <2>1. Exclusive' /\ GoodThreads' /\ EntryHeld' /\ at' \in [Threads -> ThreadStates]
    BY <1>5, <1>take DEF SendFails, sockets
  <2>2. TypeOK'
    BY <1>0, <1>5, <2>1 DEF SendFails, sockets, TypeOK, ThreadStates
  <2> QED
    BY <2>1, <2>2 DEF IInv
<1>6. CASE Sent(t, p)
  <2>1. Exclusive' /\ pool' \in Seq(Overlappeds) /\ leaked' \subseteq Overlappeds
    BY <1>0, <1>6, KernelGives DEF Sent
  <2>2. GoodThreads' /\ EntryHeld'
    BY <1>6, <1>still DEF Sent, sockets
  <2>3. TypeOK'
    BY <1>0, <1>6, <2>1 DEF Sent, sockets, TypeOK
  <2> QED
    BY <2>1, <2>2, <2>3 DEF IInv
<1> QED
  BY <1>1, <1>2, <1>3, <1>4, <1>5, <1>6 DEF SessionTakes

-----------------------------------------------------------------------------
(* Handlers *)

\* The facts every handler step starts from.
LEMMA InvFacts ==
  ASSUME IInv, NEW t \in Threads
  PROVE  /\ TypeOK /\ GoodThreads /\ EntryHeld /\ Exclusive
         /\ at[t] \in ThreadStates /\ Shape(at[t]) /\ HeldBy(t) = Hands(at[t])
         /\ at[t].ov = at[t].new => at[t].ov = NoOverlapped
         /\ at[t].step \in HoldsEntry /\ t \notin stale => at[t].socket \in activated
  <1>1. TypeOK /\ GoodThreads /\ EntryHeld /\ Exclusive
    BY DEF IInv
  <1> QED
    BY <1>1, ThreadFacts DEF EntryHeld

\* Nothing changes but whether the server runs.
LEMMA NothingMoves ==
  ASSUME IInv, running' \in BOOLEAN,
         UNCHANGED <<pool, pending, prepared, unused, activated, nulled, used, at, stale,
                     conns, leaked, stranded, contested>>
  PROVE  IInv'
  <1>1. TypeOK'
    BY DEF IInv, TypeOK
  <1>2. GoodThreads' /\ EntryHeld'
    BY DEF IInv, GoodThreads, EntryHeld
  <1>3. Pooled' = Pooled /\ InKernel' = InKernel /\ Held' = Held /\ leaked' = leaked
    BY DEF Pooled, InKernel, Held, HeldBy
  <1>4. HandsExclusive' = HandsExclusive
    BY DEF HandsExclusive, HeldBy
  <1>5. Exclusive'
    BY <1>3, <1>4 DEF IInv, Exclusive, HandsExclusive
  <1> QED
    BY <1>1, <1>2, <1>5 DEF IInv

\* A step that only moves on: pool, kernel and hands stay as they are.
LEMMA GoKeeps ==
  ASSUME IInv, NEW t \in Threads, NEW step \in Steps, Go(t, step),
         Shape(At(step, at[t].socket, at[t].ov, at[t].new)),
         pool' = pool, pending' = pending, leaked' = leaked,
         activated \subseteq activated', stale \ {t} \subseteq stale',
         step \in HoldsEntry /\ t \notin stale' => at[t].socket \in activated'
  PROVE  /\ Exclusive' /\ GoodThreads' /\ EntryHeld'
         /\ at' \in [Threads -> ThreadStates]
  <1> DEFINE a == At(step, at[t].socket, at[t].ov, at[t].new)
  <1>1. a \in ThreadStates /\ Move(t, a)
    BY GoMoves DEF IInv
  <1>2. Hands(a) = HeldBy(t) /\ (a.ov = a.new => a.ov = NoOverlapped) /\ a.step = step
        /\ a.socket = at[t].socket
    BY InvFacts DEF Hands, At
  <1>3. Exclusive'
    BY <1>1, <1>2, ThreadKeeps DEF IInv
  <1>4. GoodThreads' /\ EntryHeld' /\ at' \in [Threads -> ThreadStates]
    BY <1>1, <1>2, MoveKeeps
  <1> QED
    BY <1>3, <1>4

\* A handler that returns early and forgets its object.
LEMMA LoseKeeps ==
  ASSUME IInv, NEW t \in Threads, NEW o \in HeldBy(t), HeldBy(t) = {o},
         Move(t, Idle), leaked' = leaked \cup {o},
         UNCHANGED <<pool, pending, sockets, stale, conns, running, stranded, contested>>
  PROVE  IInv'
  <1> USE NetworkAssumption DEF NetworkAssumption
  <1>1. Idle \in ThreadStates /\ Shape(Idle) /\ Hands(Idle) = {} /\ Idle.step \notin HoldsEntry
        /\ Idle.ov = NoOverlapped
    BY DEF Idle, At, ThreadStates, Steps, Shape, Hands, HoldsEntry, Attending
  <1>2. Exclusive'
    BY <1>1, ThreadLoses DEF IInv
  <1>3. GoodThreads' /\ EntryHeld' /\ at' \in [Threads -> ThreadStates]
    BY <1>1, MoveKeeps DEF sockets
  <1>4. o \in Overlappeds
    BY InvFacts DEF Hands, ThreadStates
  <1>5. TypeOK'
    BY <1>3, <1>4 DEF IInv, TypeOK, ThreadStates, sockets
  <1> QED
    BY <1>2, <1>3, <1>5 DEF IInv

\* A handler that takes an object from the pool and does nothing else.
LEMMA TakeKeeps ==
  ASSUME IInv, NEW t \in Threads, NEW a \in ThreadStates, Move(t, a), Popped,
         Shape(a), a.ov = at[t].ov, a.new = Head(pool), at[t].new = NoOverlapped,
         a.step \in HoldsEntry => a.socket \in activated \/ t \in stale',
         stale' \in {stale, stale \ {t}},
         UNCHANGED <<pending, sockets, conns, running, ghosts>>
  PROVE  IInv'
  <1> USE NetworkAssumption DEF NetworkAssumption
  <1>0. TypeOK /\ Exclusive
    BY DEF IInv
  <1>1. Head(pool) \in Overlappeds /\ Head(pool) \in Pooled
    BY <1>0, PoolPop
  <1>2. HeldBy(t) = Hands(at[t]) /\ HeldBy(t) \subseteq Held
    BY InvFacts DEF Held
  <1>3. Hands(a) = HeldBy(t) \cup {Head(pool)}
    BY <1>1, <1>2 DEF Hands
  <1>4. a.ov # a.new
    <2>1. Pooled \cap Held = {}
      BY <1>0 DEF Exclusive
    <2> QED
      BY <2>1, <1>1, <1>2 DEF Hands
  <1>5. Exclusive' /\ pool' \in Seq(Overlappeds)
    BY <1>0, <1>3, <1>4, ThreadTakes DEF ghosts
  <1>6. GoodThreads' /\ EntryHeld' /\ at' \in [Threads -> ThreadStates]
    BY MoveKeeps DEF sockets
  <1>7. TypeOK'
    BY <1>0, <1>5, <1>6 DEF TypeOK, ThreadStates, sockets, ghosts
  <1> QED
    BY <1>5, <1>6, <1>7 DEF IInv

\* A handler that gives an object back and does nothing else.
LEMMA GiveKeeps ==
  ASSUME IInv, NEW t \in Threads, NEW a \in ThreadStates, Move(t, a),
         at[t].ov \in Overlappeds, Push(at[t].ov), Shape(a),
         at[t].new = NoOverlapped, Hands(a) = {}, 
         a.step \in HoldsEntry /\ t \notin stale => a.socket \in activated,
         UNCHANGED <<pending, sockets, stale, conns, running, stranded, contested>>
  PROVE  IInv'
  <1> USE NetworkAssumption DEF NetworkAssumption
  <1>0. TypeOK /\ Exclusive
    BY DEF IInv
  <1>1. HeldBy(t) = {at[t].ov}
    BY InvFacts DEF Hands
  <1>2. a.ov = a.new => a.ov = NoOverlapped
    BY DEF Hands
  <1>3. Exclusive' /\ pool' \in Seq(Overlappeds) /\ leaked' \subseteq Overlappeds
    BY <1>0, <1>1, <1>2, ThreadGives
  <1>4. GoodThreads' /\ EntryHeld' /\ at' \in [Threads -> ThreadStates]
    BY MoveKeeps DEF sockets
  <1>5. TypeOK'
    BY <1>0, <1>3, <1>4 DEF TypeOK, ThreadStates, sockets
  <1> QED
    BY <1>3, <1>4, <1>5 DEF IInv

\* Accept, Receive and the calls they make.
LEMMA AcceptReceiveKeeps ==
  ASSUME IInv, NEW t \in Threads,
         \/ AcceptLost(t) \/ AcceptFind(t) \/ ReceiveReady(t)
         \/ ReceiveLost(t) \/ ReceiveFind(t) \/ GiveBack(t) \/ Rearm(t)
  PROVE  IInv'
<1> USE NetworkAssumption DEF NetworkAssumption
<1>0. /\ TypeOK /\ GoodThreads /\ EntryHeld /\ Exclusive
      /\ at[t] \in ThreadStates /\ Shape(at[t]) /\ HeldBy(t) = Hands(at[t])
      /\ (at[t].ov = at[t].new => at[t].ov = NoOverlapped)
      /\ (at[t].step \in HoldsEntry /\ t \notin stale => at[t].socket \in activated)
  BY InvFacts
<1>lost. ASSUME at[t].step \in {"accept", "receive"}
         PROVE  HeldBy(t) = {at[t].ov} /\ at[t].ov \in HeldBy(t)
  BY <1>0, <1>lost DEF Shape, Hands
<1>1. CASE AcceptLost(t)
  BY <1>1, <1>lost, LoseKeeps DEF AcceptLost
<1>2. CASE AcceptFind(t)
  <2> DEFINE a == At("receiveReady", at[t].socket, at[t].ov, Head(pool))
  <2>1. Head(pool) \in Overlappeds
    BY <1>0, <1>2, PoolPop DEF AcceptFind
  <2>2. a \in ThreadStates /\ Move(t, a)
    BY <1>0, <1>2, <2>1 DEF AcceptFind, At, ThreadStates, Steps, HoldsEntry
  <2>3. Shape(a) /\ at[t].new = NoOverlapped
    BY <1>0, <1>2, <2>1 DEF AcceptFind, Shape, At, Attending
  <2>4. a.ov = at[t].ov /\ a.new = Head(pool) /\ a.socket \in activated
    BY <1>2 DEF AcceptFind, At
  <2> QED
    BY <1>2, <2>2, <2>3, <2>4, TakeKeeps DEF AcceptFind
<1>3. CASE ReceiveReady(t)
  <2> DEFINE a == IF at[t].ov = NoOverlapped THEN Idle
                  ELSE At("activate", at[t].socket, at[t].ov, NoOverlapped)
             p == Operation("recv", at[t].socket, at[t].new)
  <2>1. at[t].new \in Overlappeds /\ at[t].socket \in Sockets
    BY <1>0, <1>3 DEF ReceiveReady, Shape, Attending
  <2>2. a \in ThreadStates /\ Shape(a) /\ a.step \notin HoldsEntry /\ Move(t, a)
    <3>1. CASE at[t].ov = NoOverlapped
      BY <1>3, <3>1 DEF ReceiveReady, Idle, At, ThreadStates, Steps, Shape, HoldsEntry,
                        Attending
    <3>2. CASE at[t].ov # NoOverlapped
      <4>1. at[t].ov \in Overlappeds
        BY <1>0, <3>2 DEF ThreadStates
      <4> QED
        BY <1>3, <2>1, <3>2, <4>1 DEF ReceiveReady, At, ThreadStates, Steps, Shape,
                                      HoldsEntry, Attending, Idle
    <3> QED
      BY <3>1, <3>2
  <2>3. /\ at[t].new \in HeldBy(t) /\ Hands(a) = HeldBy(t) \ {at[t].new}
        /\ a.new = NoOverlapped
    BY <1>0, <2>1 DEF Hands, Idle, At
  <2>4. p \in Operations /\ p.ov = at[t].new
    BY <2>1 DEF Operation, Operations
  <2>5. Exclusive'
    <3>1. CASE pending' = pending \cup {p} /\ leaked' = leaked
      BY <1>0, <1>3, <2>2, <2>3, <2>4, <3>1, ThreadArms DEF ReceiveReady
    <3>2. CASE pending' = pending /\ leaked' = leaked \cup {at[t].new}
      BY <1>0, <1>3, <2>2, <2>3, <3>2, ThreadLoses DEF ReceiveReady
    <3> QED
      BY <1>3, <3>1, <3>2 DEF ReceiveReady
  <2>6. GoodThreads' /\ EntryHeld' /\ at' \in [Threads -> ThreadStates]
    BY <1>3, <2>2, MoveKeeps DEF ReceiveReady, sockets
  <2>7. /\ pending' \subseteq Operations /\ leaked' \subseteq Overlappeds
        /\ stranded' \subseteq Sockets
    BY <1>0, <1>3, <2>1, <2>4, TypeParts DEF ReceiveReady
  <2>8. TypeOK'
    BY <1>0, <1>3, <2>6, <2>7, TypeParts
       DEF ReceiveReady, sockets, TypeOK, ThreadStates, Operations
  <2> QED
    BY <2>5, <2>6, <2>8 DEF IInv
<1>4. CASE ReceiveLost(t)
  BY <1>4, <1>lost, LoseKeeps DEF ReceiveLost
<1>5. CASE ReceiveFind(t)
  <2>1. Shape(At("giveBack", at[t].socket, at[t].ov, at[t].new))
    BY <1>0, <1>5 DEF ReceiveFind, Shape, At, Attending, Idle
  <2>2. Exclusive' /\ GoodThreads' /\ EntryHeld' /\ at' \in [Threads -> ThreadStates]
    BY <1>5, <2>1, GoKeeps DEF ReceiveFind, ghosts, sockets, Steps, HoldsEntry
  <2>3. TypeOK'
    BY <1>0, <1>5, <2>2 DEF ReceiveFind, ghosts, sockets, TypeOK, ThreadStates
  <2> QED
    BY <2>2, <2>3 DEF IInv
<1>6. CASE GiveBack(t)
  <2> DEFINE a == At("rearm", at[t].socket, NoOverlapped, NoOverlapped)
  <2>1. at[t].ov \in Overlappeds /\ at[t].new = NoOverlapped /\ at[t].socket \in Sockets
        /\ (t \notin stale => at[t].socket \in activated)
    BY <1>0, <1>6 DEF GiveBack, Shape, Attending, HoldsEntry
  <2>2. a \in ThreadStates /\ Shape(a) /\ Hands(a) = {} /\ a.socket = at[t].socket
    BY <2>1 DEF At, ThreadStates, Steps, HoldsEntry, Shape, Hands, Attending, Idle
  <2> QED
    BY <1>6, <2>1, <2>2, GiveKeeps DEF GiveBack
<1>7. CASE Rearm(t)
  <2> DEFINE a == At("receiveReady", at[t].socket, NoOverlapped, Head(pool))
  <2>1. Head(pool) \in Overlappeds
    BY <1>0, <1>7, PoolPop DEF Rearm
  <2>2. /\ at[t].ov = NoOverlapped /\ at[t].new = NoOverlapped /\ at[t].socket \in Sockets
        /\ (t \notin stale => at[t].socket \in activated)
    BY <1>0, <1>7 DEF Rearm, Shape, Attending, HoldsEntry
  <2>3. a \in ThreadStates /\ Shape(a)
    BY <2>1, <2>2 DEF At, ThreadStates, Steps, HoldsEntry, Shape, Attending, Idle
  <2>4. a.ov = at[t].ov /\ a.new = Head(pool) /\ a.socket = at[t].socket
    BY <2>2 DEF At
  <2> QED
    BY <1>7, <2>2, <2>3, <2>4, TakeKeeps DEF Rearm
<1> QED
  BY <1>1, <1>2, <1>3, <1>4, <1>5, <1>6, <1>7

\* GetPreparedSocket, ActivateClient and the end of the handlers that call it.
LEMMA ActivateKeeps ==
  ASSUME IInv, NEW t \in Threads,
         \/ PrepareSocket(t) \/ ActivateClient(t) \/ ActivateNothing(t) \/ Return(t)
  PROVE  IInv'
<1> USE NetworkAssumption DEF NetworkAssumption
<1>0. /\ TypeOK /\ GoodThreads /\ EntryHeld /\ Exclusive
      /\ at[t] \in ThreadStates /\ Shape(at[t]) /\ HeldBy(t) = Hands(at[t])
      /\ (at[t].ov = at[t].new => at[t].ov = NoOverlapped)
  BY InvFacts
<1>1. CASE PrepareSocket(t)
  <2>1. PICK batch \in Orders(unused, ReadyCount) :
          prepared' = batch /\ unused' = unused \ {batch[i] : i \in 1 .. ReadyCount}
    BY <1>1 DEF PrepareSocket
  <2>2. prepared' \in Seq(Sockets)
    <3>1. batch \in [1 .. ReadyCount -> Sockets]
      BY <1>0, <2>1 DEF Orders, TypeOK
    <3> QED
      BY <2>1, <3>1, SeqDef
  <2>3. Shape(At("retry", at[t].socket, at[t].ov, at[t].new))
    BY <1>0, <1>1 DEF PrepareSocket, Shape, At, Attending, Idle
  <2>4. Exclusive' /\ GoodThreads' /\ EntryHeld' /\ at' \in [Threads -> ThreadStates]
    BY <1>1, <2>3, GoKeeps DEF PrepareSocket, ghosts, Steps, HoldsEntry
  <2>5. TypeOK'
    BY <1>0, <1>1, <2>1, <2>2, <2>4 DEF PrepareSocket, ghosts, TypeOK, ThreadStates
  <2> QED
    BY <2>4, <2>5 DEF IInv
<1>2. CASE ActivateClient(t)
  <2> DEFINE s == Head(prepared)
             a == At("return", at[t].socket, at[t].ov, at[t].new)
  <2>1. s \in Sockets /\ prepared' \in Seq(Sockets)
    BY <1>0, <1>2, HeadTailProperties DEF ActivateClient, TypeOK
  <2>2. Head(pool) \in Overlappeds
    BY <1>0, <1>2, PoolPop DEF ActivateClient
  <2>3. a \in ThreadStates /\ Move(t, a)
    BY <1>0, <1>2, GoMoves DEF ActivateClient, Steps
  <2>4. Shape(a) /\ Hands(a) = HeldBy(t) /\ (a.ov = a.new => a.ov = NoOverlapped)
        /\ a.step \notin HoldsEntry
    BY <1>0, <1>2 DEF ActivateClient, Shape, At, Attending, Idle, Hands, HoldsEntry
  <2>5. Operation("accept", s, Head(pool)) \in Operations
        /\ Operation("accept", s, Head(pool)).ov = Head(pool)
    BY <2>1, <2>2 DEF Operation, Operations
  <2>6. \/ /\ pending' = pending \cup {Operation("accept", s, Head(pool))}
           /\ leaked' = leaked /\ stranded' = stranded
        \/ /\ pending' = pending /\ leaked' = leaked \cup {Head(pool)}
           /\ stranded' = stranded \cup {s}
    BY <1>2 DEF ActivateClient
  <2>7. Exclusive' /\ pool' \in Seq(Overlappeds)
    <3>1. \/ /\ \E p \in Operations : p.ov = Head(pool) /\ pending' = pending \cup {p}
             /\ leaked' = leaked
          \/ pending' = pending /\ leaked' = leaked \cup {Head(pool)}
      BY <2>5, <2>6
    <3>2. Popped
      BY <1>2 DEF ActivateClient
    <3> QED
      BY <1>0, <2>3, <2>4, <3>1, <3>2, PoolArms
  <2>8. GoodThreads' /\ EntryHeld' /\ at' \in [Threads -> ThreadStates]
    BY <1>2, <2>3, <2>4, MoveKeeps DEF ActivateClient
  <2>9. /\ pending' \subseteq Operations /\ leaked' \subseteq Overlappeds
        /\ stranded' \subseteq Sockets
    BY <1>0, <2>1, <2>2, <2>5, <2>6, TypeParts
  <2>10. activated' \subseteq Sockets /\ nulled' \subseteq activated'
    BY <1>0, <1>2, <2>1 DEF ActivateClient, TypeOK
  <2>11. TypeOK'
    BY <1>0, <1>2, <2>1, <2>7, <2>8, <2>9, <2>10
       DEF ActivateClient, TypeOK, ThreadStates, Operations
  <2> QED
    BY <2>7, <2>8, <2>11 DEF IInv
<1>3. CASE ActivateNothing(t)
  <2>1. CASE at[t].socket = NoSocket
    <3>1. Shape(At("return", at[t].socket, at[t].ov, at[t].new))
      BY <1>0, <1>3 DEF ActivateNothing, Shape, At, Attending, Idle
    <3>2. Exclusive' /\ GoodThreads' /\ EntryHeld'
          /\ at' \in [Threads -> ThreadStates]
      BY <1>3, <2>1, <3>1, GoKeeps DEF ActivateNothing, sockets, Steps, HoldsEntry
    <3>3. TypeOK'
      BY <1>0, <1>3, <2>1, <3>2 DEF ActivateNothing, sockets, TypeOK, ThreadStates
    <3> QED
      BY <3>2, <3>3 DEF IInv
  <2>2. CASE at[t].socket # NoSocket
    <3>1. HeldBy(t) = {at[t].ov} /\ at[t].ov \in HeldBy(t)
      BY <1>0, <1>3, <2>2 DEF ActivateNothing, Shape, Hands
    <3> QED
      BY <1>3, <2>2, <3>1, LoseKeeps DEF ActivateNothing
  <2> QED
    BY <2>1, <2>2
<1>4. CASE Return(t)
  <2>1. /\ Idle \in ThreadStates /\ Shape(Idle) /\ Hands(Idle) = {}
        /\ Idle.step \notin HoldsEntry /\ Idle.ov = NoOverlapped
    BY DEF Idle, At, ThreadStates, Steps, Shape, Hands, HoldsEntry, Attending
  <2>2. at[t].new = NoOverlapped
    BY <1>0, <1>4 DEF Return, Shape
  <2>3. CASE at[t].ov # NoOverlapped
    <3>1. at[t].ov \in Overlappeds
      BY <1>0, <2>3 DEF ThreadStates
    <3> QED
      BY <1>4, <2>1, <2>2, <2>3, <3>1, GiveKeeps DEF Return
  <2>4. CASE at[t].ov = NoOverlapped
    <3>1. Hands(Idle) = HeldBy(t)
      BY <1>0, <2>1, <2>2, <2>4 DEF Hands
    <3>2. Exclusive'
      BY <1>0, <1>4, <2>1, <2>4, <3>1, ThreadKeeps DEF Return
    <3>3. GoodThreads' /\ EntryHeld' /\ at' \in [Threads -> ThreadStates]
      BY <1>4, <2>1, MoveKeeps DEF Return, sockets
    <3>4. TypeOK'
      BY <1>0, <1>4, <2>4, <3>3 DEF Return, sockets, TypeOK, ThreadStates
    <3> QED
      BY <3>2, <3>3, <3>4 DEF IInv
  <2> QED
    BY <2>3, <2>4
<1> QED
  BY <1>1, <1>2, <1>3, <1>4

\* Disconnect, and DisconnectRequest after it has found the entry.
LEMMA DisconnectKeeps ==
  ASSUME IInv, NEW t \in Threads,
         \/ DisconnectLost(t) \/ DisconnectFind(t)
         \/ Teardown(t) \/ Deinitialize(t) \/ Erase(t)
  PROVE  IInv'
<1> USE NetworkAssumption DEF NetworkAssumption
<1>0. /\ TypeOK /\ GoodThreads /\ EntryHeld /\ Exclusive
      /\ at[t] \in ThreadStates /\ Shape(at[t]) /\ HeldBy(t) = Hands(at[t])
      /\ (at[t].step \in HoldsEntry /\ t \notin stale => at[t].socket \in activated)
  BY InvFacts
<1>1. CASE DisconnectLost(t)
  <2>1. /\ Idle \in ThreadStates /\ Shape(Idle) /\ Hands(Idle) = {} /\ Idle.step \notin HoldsEntry
    BY DEF Idle, At, ThreadStates, Steps, Shape, Hands, HoldsEntry, Attending
  <2>2. at[t].ov \in Overlappeds /\ at[t].new = NoOverlapped
    BY <1>0, <1>1 DEF DisconnectLost, Shape
  <2> QED
    BY <1>1, <2>1, <2>2, GiveKeeps DEF DisconnectLost
<1>2. CASE DisconnectFind(t)
  <2>1. Shape(At("teardown", at[t].socket, at[t].ov, at[t].new))
    BY <1>0, <1>2 DEF DisconnectFind, Shape, At, Attending, Idle
  <2>2. Exclusive' /\ GoodThreads' /\ EntryHeld' /\ at' \in [Threads -> ThreadStates]
    BY <1>2, <2>1, GoKeeps DEF DisconnectFind, ghosts, sockets, Steps, HoldsEntry
  <2>3. TypeOK'
    BY <1>0, <1>2, <2>2 DEF DisconnectFind, ghosts, sockets, TypeOK, ThreadStates
  <2> QED
    BY <2>2, <2>3 DEF IInv
<1>3. CASE Teardown(t)
  <2>1. Shape(At("deinitialize", at[t].socket, at[t].ov, at[t].new))
        /\ (t \notin stale => at[t].socket \in activated)
    BY <1>0, <1>3 DEF Teardown, Shape, At, Attending, Idle, HoldsEntry
  <2>2. Exclusive' /\ GoodThreads' /\ EntryHeld' /\ at' \in [Threads -> ThreadStates]
    BY <1>3, <2>1, GoKeeps DEF Teardown, ghosts, sockets, Steps, HoldsEntry
  <2>3. TypeOK'
    BY <1>0, <1>3, <2>2 DEF Teardown, ghosts, sockets, TypeOK, ThreadStates
  <2> QED
    BY <2>2, <2>3 DEF IInv
<1>4. CASE Deinitialize(t)
  <2>1. Shape(At("erase", at[t].socket, at[t].ov, at[t].new))
        /\ (t \notin stale => at[t].socket \in activated)
    BY <1>0, <1>4 DEF Deinitialize, Shape, At, Attending, Idle, HoldsEntry
  <2>2. Exclusive' /\ GoodThreads' /\ EntryHeld' /\ at' \in [Threads -> ThreadStates]
    BY <1>4, <2>1, GoKeeps DEF Deinitialize, ghosts, Steps, HoldsEntry
  <2>3. nulled' \subseteq activated'
    BY <1>0, <1>4, <2>1 DEF Deinitialize, TypeOK
  <2>4. TypeOK'
    BY <1>0, <1>4, <2>2, <2>3 DEF Deinitialize, ghosts, TypeOK, ThreadStates
  <2> QED
    BY <2>2, <2>4 DEF IInv
<1>5. CASE Erase(t)
  <2> DEFINE s == at[t].socket
             a == At("activate", NoSocket, at[t].ov, NoOverlapped)
  <2>1. s \in Sockets /\ at[t].new = NoOverlapped
    BY <1>0, <1>5 DEF Erase, Shape, Attending
  <2>2. /\ a \in ThreadStates /\ Shape(a) /\ Hands(a) = HeldBy(t) /\ a.new = NoOverlapped
        /\ a.step \notin HoldsEntry
    BY <1>0, <2>1 DEF At, ThreadStates, Steps, HoldsEntry, Shape, Hands, Attending, Idle
  <2>3. Move(t, a)
    BY <1>5 DEF Erase
  <2>4. Exclusive'
    BY <1>0, <1>5, <2>2, <2>3, ThreadKeeps DEF Erase, ghosts
  <2>5. /\ at' \in [Threads -> ThreadStates] /\ at'[t] = a
        /\ \A u \in Threads : u # t => at'[u] = at[u]
    BY <1>0, <2>2, <2>3 DEF TypeOK, ThreadStates, Move
  <2>6. GoodThreads'
    BY <1>0, <2>2, <2>5 DEF GoodThreads, Shape
  <2>7. EntryHeld'
    <3> SUFFICES ASSUME NEW u \in Threads, at'[u].step \in HoldsEntry, u \notin stale'
                 PROVE  at'[u].socket \in activated'
      BY DEF EntryHeld
    <3>1. u # t /\ at'[u] = at[u]
      BY <2>2, <2>5
    <3>2. u \notin stale /\ ~(s \in activated /\ at[u].socket = s)
      BY <1>5, <3>1 DEF Erase
    <3>3. at[u].socket \in activated
      BY <1>0, <3>1, <3>2 DEF EntryHeld
    <3> QED
      BY <1>5, <3>1, <3>2, <3>3 DEF Erase
  <2>8. /\ prepared' \in Seq(Sockets) /\ stale' \subseteq Threads
        /\ activated' \subseteq Sockets /\ nulled' \subseteq activated'
    BY <1>0, <1>5, <2>1, AppendProperties DEF Erase, TypeOK
  <2>9. TypeOK'
    BY <1>0, <1>5, <2>5, <2>8 DEF Erase, ghosts, TypeOK, ThreadStates
  <2> QED
    BY <2>4, <2>6, <2>7, <2>9 DEF IInv
<1> QED
  BY <1>1, <1>2, <1>3, <1>4, <1>5

\* SendRequest after it has found the entry, and a crash.
LEMMA SendKeeps ==
  ASSUME IInv, NEW t \in Threads,
         SendChecked(t) \/ SendLost(t) \/ WsaSend(t) \/ NullDereference(t)
  PROVE  IInv'
<1> USE NetworkAssumption DEF NetworkAssumption
<1>0. /\ TypeOK /\ GoodThreads /\ EntryHeld /\ Exclusive
      /\ at[t] \in ThreadStates /\ Shape(at[t]) /\ HeldBy(t) = Hands(at[t])
      /\ (at[t].step \in HoldsEntry /\ t \notin stale => at[t].socket \in activated)
  BY InvFacts
<1>send. ASSUME at[t].step \in {"send", "wsaSend"}
         PROVE  /\ at[t].socket \in Sockets /\ at[t].new \in Overlappeds
                /\ at[t].ov = NoOverlapped
                /\ HeldBy(t) = {at[t].new} /\ at[t].new \in HeldBy(t)
                /\ (t \notin stale => at[t].socket \in activated)
  BY <1>0, <1>send DEF Shape, Hands, HoldsEntry
<1>1. CASE SendChecked(t)
  <2>1. Shape(At("wsaSend", at[t].socket, at[t].ov, at[t].new))
    BY <1>1, <1>send DEF SendChecked, Shape, At, Attending, Idle
  <2>2. Exclusive' /\ GoodThreads' /\ EntryHeld' /\ at' \in [Threads -> ThreadStates]
    BY <1>1, <1>send, <2>1, GoKeeps DEF SendChecked, ghosts, sockets, Steps, HoldsEntry
  <2>3. TypeOK'
    BY <1>0, <1>1, <2>2 DEF SendChecked, ghosts, sockets, TypeOK, ThreadStates
  <2> QED
    BY <2>2, <2>3 DEF IInv
<1>2. CASE SendLost(t)
  BY <1>2, <1>send, LoseKeeps DEF SendLost
<1>3. CASE WsaSend(t)
  <2> DEFINE p == Operation("send", at[t].socket, at[t].new)
  <2>1. at[t].socket \in Sockets /\ at[t].new \in Overlappeds /\ HeldBy(t) = {at[t].new}
    BY <1>3, <1>send DEF WsaSend
  <2>2. p \in Operations /\ p.ov = at[t].new
    BY <2>1 DEF Operation, Operations
  <2>3. /\ Idle \in ThreadStates /\ Shape(Idle) /\ Hands(Idle) = {}
        /\ Idle.step \notin HoldsEntry /\ Idle.ov = NoOverlapped
    BY DEF Idle, At, ThreadStates, Steps, Shape, Hands, HoldsEntry, Attending
  <2>4. Exclusive'
    BY <1>0, <1>3, <2>1, <2>2, <2>3, ThreadArms DEF WsaSend, ghosts
  <2>5. GoodThreads' /\ EntryHeld' /\ at' \in [Threads -> ThreadStates]
    BY <1>3, <2>3, MoveKeeps DEF WsaSend, sockets
  <2>6. pending' \subseteq Operations
    BY <1>0, <1>3, <2>2, TypeParts DEF WsaSend
  <2>7. TypeOK'
    BY <1>0, <1>3, <2>5, <2>6 DEF WsaSend, ghosts, sockets, TypeOK, ThreadStates, Operations
  <2> QED
    BY <2>4, <2>5, <2>7 DEF IInv
<1>4. CASE NullDereference(t)
  <2>1. running' \in BOOLEAN
    BY <1>4 DEF NullDereference
  <2>2. UNCHANGED <<pool, pending, prepared, unused, activated, nulled, used, at, stale,
                    conns, leaked, stranded, contested>>
    BY <1>4 DEF NullDereference, sockets, ghosts
  <2> QED
    BY <2>1, <2>2, NothingMoves
<1> QED
  BY <1>1, <1>2, <1>3, <1>4

\* The calls from outside the sessions.
LEMMA RequestKeeps ==
  ASSUME IInv, NEW t \in Threads, NEW s \in Sockets,
         DisconnectRequest(t, s) \/ SendRequest(t, s)
  PROVE  IInv'
<1> USE NetworkAssumption DEF NetworkAssumption
<1>0. TypeOK /\ Exclusive
  BY DEF IInv
<1>idle. HeldBy(t) = {} /\ at[t].ov = NoOverlapped /\ at[t].new = NoOverlapped
  <2>1. at[t] = Idle
    BY DEF DisconnectRequest, SendRequest
  <2> QED
    BY <2>1 DEF HeldBy, Idle, At
<1>1. CASE DisconnectRequest(t, s)
  <2> DEFINE a == At("teardown", s, NoOverlapped, NoOverlapped)
  <2>1. /\ a \in ThreadStates /\ Shape(a) /\ Hands(a) = {} /\ a.ov = NoOverlapped /\ a.socket = s
    BY DEF At, ThreadStates, Steps, HoldsEntry, Shape, Hands, Attending, Idle
  <2>2. Exclusive'
    BY <1>0, <1>1, <1>idle, <2>1, ThreadKeeps DEF DisconnectRequest
  <2>3. GoodThreads' /\ EntryHeld' /\ at' \in [Threads -> ThreadStates]
    BY <1>1, <2>1, MoveKeeps DEF DisconnectRequest, sockets
  <2>4. TypeOK'
    BY <1>0, <1>1, <2>3 DEF DisconnectRequest, sockets, TypeOK, ThreadStates
  <2> QED
    BY <2>2, <2>3, <2>4 DEF IInv
<1>2. CASE SendRequest(t, s)
  <2> DEFINE a == At("send", s, NoOverlapped, Head(pool))
  <2>1. Head(pool) \in Overlappeds
    BY <1>0, <1>2, PoolPop DEF SendRequest
  <2>2. /\ a \in ThreadStates /\ Shape(a) /\ a.ov = NoOverlapped /\ a.new = Head(pool)
        /\ a.socket = s
    BY <2>1 DEF At, ThreadStates, Steps, HoldsEntry, Shape, Attending, Idle
  <2> QED
    BY <1>2, <1>idle, <2>2, TakeKeeps DEF SendRequest
<1> QED
  BY <1>1, <1>2

-----------------------------------------------------------------------------
(* The initial state, and the theorems *)

\* ReadyCount objects are with the waiting sockets, the others in the pool.
LEMMA InitKeeps == Init => IInv
<1> SUFFICES ASSUME Init
             PROVE  IInv
  OBVIOUS
<1> USE NetworkAssumption DEF NetworkAssumption
<1> DEFINE n == Cardinality(Overlappeds)
<1>1. n \in Nat /\ ReadyCount \in Nat \ {0} /\ ReadyCount <= n
  BY FS_CardinalityType
<1>2. PICK order \in Orders(Overlappeds, n), ready \in Orders(Sockets, ReadyCount) :
        /\ pool = SubSeq(order, ReadyCount + 1, n)
        /\ pending = {Operation("accept", ready[i], order[i]) : i \in 1 .. ReadyCount}
        /\ activated = {ready[i] : i \in 1 .. ReadyCount}
  BY DEF Init
<1>3. /\ order \in [1 .. n -> Overlappeds] /\ order \in Seq(Overlappeds) /\ Len(order) = n
      /\ \A i, j \in 1 .. n : order[i] = order[j] => i = j
      /\ ready \in [1 .. ReadyCount -> Sockets]
  <2>1. order \in [1 .. n -> Overlappeds] /\ \A i, j \in 1 .. n : order[i] = order[j] => i = j
    BY <1>2 DEF Orders
  <2>2. order \in Seq(Overlappeds) /\ Len(order) = n
    BY <1>1, <2>1, SeqDef
  <2>3. ready \in [1 .. ReadyCount -> Sockets]
    BY <1>2 DEF Orders
  <2> QED
    BY <2>1, <2>2, <2>3
<1>4. \A o \in Overlappeds : \E i \in 1 .. n : order[i] = o
  <2>1. order \in Injection(1 .. n, Overlappeds)
    BY <1>3 DEF Injection, IsInjective
  <2>2. IsFiniteSet(1 .. n) /\ Cardinality(1 .. n) = n
    BY <1>1, FS_Interval
  <2>3. order \in Surjection(1 .. n, Overlappeds)
    BY <2>1, <2>2, FS_Injection
  <2> QED
    BY <2>3 DEF Surjection
<1>5. /\ pool \in Seq(Overlappeds) /\ DOMAIN pool = 1 .. n - ReadyCount
      /\ \A i \in 1 .. n - ReadyCount : pool[i] = order[ReadyCount + i]
  <2>1. pool \in Seq(Overlappeds) /\ Len(pool) = n - ReadyCount
        /\ \A i \in 1 .. Len(pool) : pool[i] = order[ReadyCount + i]
    BY <1>1, <1>2, <1>3, SubSeqProperties
  <2> QED
    BY <1>1, <2>1
<1>6. at = [t \in Threads |-> Idle] /\ leaked = {}
  BY DEF Init
<1>7. pending \subseteq Operations
  BY <1>1, <1>2, <1>3 DEF Operation, Operations
<1>8. Idle \in ThreadStates /\ Shape(Idle) /\ Idle.step \notin HoldsEntry
      /\ Idle.ov = NoOverlapped /\ Idle.new = NoOverlapped
  BY DEF Idle, At, ThreadStates, Steps, Shape, HoldsEntry, Attending
<1>9. TypeOK
  <2>1. activated \subseteq Sockets
    BY <1>2, <1>3
  <2>2. at \in [Threads -> ThreadStates]
    BY <1>6, <1>8
  <2>3. /\ prepared = <<>> /\ unused = Sockets \ activated /\ nulled = {} /\ used = {}
        /\ stale = {} /\ conns = 0 /\ running = TRUE /\ stranded = {} /\ contested = {}
    BY DEF Init
  <2> QED
    BY <1>5, <1>6, <1>7, <2>1, <2>2, <2>3, TypeParts
<1>10. GoodThreads /\ EntryHeld
  BY <1>6, <1>8 DEF GoodThreads, EntryHeld
<1>11. Exclusive
  <2>1. Held = {} /\ HandsExclusive
    BY <1>6, <1>8 DEF Held, HeldBy, HandsExclusive
  <2>2. \A i, j \in DOMAIN pool : pool[i] = pool[j] => i = j
    <3> SUFFICES ASSUME NEW i \in 1 .. n - ReadyCount, NEW j \in 1 .. n - ReadyCount,
                        pool[i] = pool[j]
                 PROVE  i = j
      BY <1>5
    <3>1. ReadyCount + i \in 1 .. n /\ ReadyCount + j \in 1 .. n
      BY <1>1
    <3>2. ReadyCount + i = ReadyCount + j
      BY <1>3, <1>5, <3>1
    <3> QED
      BY <1>1, <3>2
  <2>3. \A p \in pending : \E i \in 1 .. ReadyCount :
          p = Operation("accept", ready[i], order[i]) /\ p.ov = order[i]
    BY <1>2 DEF Operation
  <2>4. \A p, q \in pending : p.ov = q.ov => p = q
    <3>1. 1 .. ReadyCount \subseteq 1 .. n
      BY <1>1
    <3> QED
      BY <1>3, <2>3, <3>1
  <2>5. Pooled = {order[i] : i \in ReadyCount + 1 .. n}
    <3>1. \A i \in 1 .. n - ReadyCount : ReadyCount + i \in ReadyCount + 1 .. n
      BY <1>1
    <3>2. \A i \in ReadyCount + 1 .. n :
             i - ReadyCount \in 1 .. n - ReadyCount /\ ReadyCount + (i - ReadyCount) = i
      BY <1>1
    <3> QED
      BY <1>5, <3>1, <3>2 DEF Pooled
  <2>6. InKernel = {order[i] : i \in 1 .. ReadyCount}
    <3>1. \A i \in 1 .. ReadyCount :
             /\ Operation("accept", ready[i], order[i]) \in pending
             /\ Operation("accept", ready[i], order[i]).ov = order[i]
      BY <1>2 DEF Operation
    <3> QED
      BY <2>3, <3>1 DEF InKernel
  <2>7. Pooled \cap InKernel = {}
    <3>1. \A i \in ReadyCount + 1 .. n, j \in 1 .. ReadyCount :
             i \in 1 .. n /\ j \in 1 .. n /\ i # j
      BY <1>1
    <3> QED
      BY <1>3, <2>5, <2>6, <3>1
  <2>8. Pooled \cup InKernel = Overlappeds
    <3>1. \A i \in 1 .. n : i \in ReadyCount + 1 .. n \/ i \in 1 .. ReadyCount
      BY <1>1
    <3>2. ReadyCount + 1 .. n \subseteq 1 .. n /\ 1 .. ReadyCount \subseteq 1 .. n
      BY <1>1
    <3> QED
      BY <1>3, <1>4, <2>5, <2>6, <3>1, <3>2
  <2> QED
    BY <1>6, <2>1, <2>2, <2>4, <2>7, <2>8, ExclusiveParts DEF Places
<1> QED
  BY <1>9, <1>10, <1>11 DEF IInv

\* An object that the pool hands out twice: the thread has it, and the server stops.
LEMMA PopStaleStops ==
  ASSUME TypeOK, NEW t \in Threads, PopStale(t)
  PROVE  /\ TypeOK' /\ running' = FALSE
         /\ \E a : /\ Move(t, a) /\ a.step = at[t].step /\ a.socket = at[t].socket
                  /\ a.ov = at[t].ov
<1>1. PICK o \in Overlappeds : at' = [at EXCEPT ![t].new = o]
  BY DEF PopStale
<1> DEFINE a == [at[t] EXCEPT !.new = o]
<1>2. at[t] \in ThreadStates
  BY DEF TypeOK, ThreadStates
<1>3. a \in ThreadStates /\ a.step = at[t].step /\ a.socket = at[t].socket /\ a.ov = at[t].ov
  BY <1>2 DEF ThreadStates
<1>4. Move(t, a)
  BY <1>1 DEF Move
<1> HIDE DEF a
<1>5. at' \in [Threads -> ThreadStates]
  BY <1>3, <1>4 DEF Move, TypeOK, ThreadStates
<1>6. running' = FALSE
  BY DEF PopStale
<1>7. TypeOK'
  BY <1>5, <1>6 DEF PopStale, sockets, ghosts, TypeOK, ThreadStates
<1> QED
  BY <1>3, <1>4, <1>6, <1>7

\* Every step but that one keeps the objects in one place.
LEMMA NextKeeps ==
  ASSUME IInv, [Next]_vars, \A t \in Threads : ~PopStale(t)
  PROVE  IInv'
<1>1. ASSUME NEW t \in Sessions, NEW p \in pending, SessionTakes(t, p)
      PROVE  IInv'
  BY <1>1, SessionTakesKeeps
<1>2. ASSUME NEW t \in Threads, Handler(t)
      PROVE  IInv'
  BY <1>2, AcceptReceiveKeeps, ActivateKeeps, DisconnectKeeps, SendKeeps DEF Handler
<1>3. ASSUME NEW t \in EventThreads, NEW s \in Sockets, DisconnectRequest(t, s)
      PROVE  IInv'
  BY <1>3, RequestKeeps DEF Threads
<1>4. ASSUME NEW t \in Senders, NEW s \in Sockets, SendRequest(t, s)
      PROVE  IInv'
  BY <1>4, RequestKeeps DEF Threads
<1>5. CASE UNCHANGED vars
  <2>1. running' \in BOOLEAN
    BY <1>5 DEF vars, IInv, TypeOK
  <2> QED
    BY <1>5, <2>1, NothingMoves DEF vars
<1> QED
  BY <1>1, <1>2, <1>3, <1>4, <1>5 DEF Next

LEMMA SoundKeeps == Sound /\ [Next]_vars => Sound'
<1> SUFFICES ASSUME Sound, [Next]_vars
             PROVE  Sound'
  OBVIOUS
<1>1. CASE running /\ \A t \in Threads : ~PopStale(t)
  <2>1. IInv'
    BY <1>1, NextKeeps DEF Sound
  <2> QED
    BY <2>1 DEF Sound, IInv
<1>2. CASE \E t \in Threads : PopStale(t)
  BY <1>2, PopStaleStops DEF Sound
<1>3. CASE ~running
  <2>1. UNCHANGED vars
    BY <1>3 DEF Next
  <2> QED
    BY <1>3, <2>1 DEF Sound, TypeOK, vars
<1> QED
  BY <1>1, <1>2, <1>3

LEMMA Invariance == Spec => []Sound
<1>1. Init => Sound
  BY InitKeeps DEF Sound, IInv
<1> QED
  BY <1>1, SoundKeeps, PTL DEF Spec

\* The handlers keep every object, socket and thread typed; in particular no
\* operation is started with a null object, and Deinitialize only resets Clients
\* that are in the map.
THEOREM TypeCorrect == Spec => []TypeOK
<1>1. Sound => TypeOK
  BY DEF Sound
<1> QED
  BY <1>1, Invariance, PTL

\* As long as the pool hands out nothing but what it has, no overlapped object is ever
\* in two operations, in two threads, or in the pool while somebody uses it: for any
\* number of sockets, objects and threads, whatever fails or is lost by pushes that
\* overlap, and however often a client is disconnected twice.
THEOREM ExclusiveOverlappedCorrect == Spec => []ExclusiveOverlapped
<1>1. Sound => ExclusiveOverlapped
  BY DEF Sound, IInv, ExclusiveOverlapped
<1> QED
  BY <1>1, Invariance, PTL

-----------------------------------------------------------------------------
(* Who attends to a socket *)

\* The operations that wait for a client of s or read from it, the threads that
\* attend to s, and the places of s among the prepared sockets.
Arms(s) == {p \in Receiving \cup Accepting : p.socket = s}
Attenders(s) == {t \in Threads : Attended(t, s)}
Spots(s) == {i \in DOMAIN prepared : prepared[i] = s}

\* One operation or one thread, or nothing and nobody.
One(s) == \/ Attenders(s) = {} /\ \E p \in Arms(s) : Arms(s) = {p}
          \/ Arms(s) = {} /\ \E t \in Attenders(s) : Attenders(s) = {t}
Nobody(s) == Arms(s) = {} /\ Attenders(s) = {}

CaredFor(s) == IF s \in activated \ stranded THEN One(s) ELSE Nobody(s)

\* New, activated, or prepared once.
Placed(s) ==
  \/ s \in unused /\ s \notin activated /\ Spots(s) = {}
  \/ s \notin unused /\ s \in activated /\ Spots(s) = {}
  \/ s \notin unused /\ s \notin activated /\ \E i \in Spots(s) : Spots(s) = {i}

\* A socket that a failed call left alone is never taken down, so it stays in the map.
GoodSocket(s) == CaredFor(s) /\ Placed(s) /\ (s \in stranded => s \in activated)

SendersSend == \A t \in Senders : at[t].step \in {"idle", "send", "wsaSend"}

\* The second part of the inductive invariant.
AInv == SendersSend /\ \A s \in Sockets \ contested : GoodSocket(s)

\* The state a leaves its thread attending to s.
Attends(a, s) == a.socket = s /\ a.step \in Attending

\* When thread t moves, only t comes to attend to a socket or ceases to.
LEMMA AttendersAfter ==
  ASSUME TypeOK, NEW t \in Threads, NEW a, Move(t, a), NEW s
  PROVE  Attenders(s)' = (Attenders(s) \ {t})
                           \cup (IF t \notin Senders /\ Attends(a, s) THEN {t} ELSE {})
<1>1. at'[t] = a /\ \A u \in Threads : u # t => at'[u] = at[u]
  BY DEF TypeOK, Move
<1>2. \A u \in Threads : u # t => (Attended(u, s)' <=> Attended(u, s))
  BY <1>1 DEF Attended
<1>3. Attended(t, s)' <=> t \notin Senders /\ Attends(a, s)
  BY <1>1 DEF Attended, Attends
<1> QED
  BY <1>2, <1>3 DEF Attenders

\* The sender threads do not leave their steps.
LEMMA SendersAfter ==
  ASSUME TypeOK, AInv, NEW t \in Threads, NEW a, Move(t, a),
         t \in Senders => a.step \in {"idle", "send", "wsaSend"}
  PROVE  SendersSend'
<1>1. at'[t] = a /\ \A u \in Threads : u # t => at'[u] = at[u]
  BY DEF TypeOK, Move
<1> QED
  BY <1>1 DEF SendersSend, AInv, Threads

\* What concerns s does not change.
LEMMA SocketKept ==
  ASSUME NEW s, GoodSocket(s),
         Arms(s)' = Arms(s), Attenders(s)' = Attenders(s), Spots(s)' = Spots(s),
         s \in activated' <=> s \in activated, s \in unused' <=> s \in unused,
         s \in stranded' <=> s \in stranded
  PROVE  GoodSocket(s)'
  BY DEF GoodSocket, CaredFor, Placed, One, Nobody

\* A thread that attends to an uncontested socket is the only one, and the socket
\* is in the map and has no operation.
LEMMA AttendsAlone ==
  ASSUME AInv, NEW s \in Sockets \ contested, NEW t \in Threads, t \notin Senders,
         Attends(at[t], s)
  PROVE  /\ Attenders(s) = {t} /\ Arms(s) = {}
         /\ s \in activated /\ s \notin stranded /\ s \notin unused /\ Spots(s) = {}
<1>1. t \in Attenders(s)
  BY DEF Attenders, Attended, Attends
<1>2. GoodSocket(s)
  BY DEF AInv
<1>3. s \in activated \ stranded /\ One(s)
  BY <1>1, <1>2 DEF GoodSocket, CaredFor, Nobody
<1> QED
  BY <1>1, <1>2, <1>3 DEF One, GoodSocket, Placed

\* An operation armed for an uncontested socket is the only one, and nobody attends.
LEMMA ArmedAlone ==
  ASSUME AInv, NEW s \in Sockets \ contested, NEW p \in Arms(s)
  PROVE  /\ Attenders(s) = {} /\ Arms(s) = {p}
         /\ s \in activated /\ s \notin stranded /\ s \notin unused /\ Spots(s) = {}
<1>1. GoodSocket(s)
  BY DEF AInv
<1>2. s \in activated \ stranded /\ One(s)
  BY <1>1 DEF GoodSocket, CaredFor, Nobody
<1> QED
  BY <1>1, <1>2 DEF One, GoodSocket, Placed

-----------------------------------------------------------------------------
(* How a socket is handed on *)

\* A thread goes from step to step and attends to whom it attended.
LEMMA SameCare ==
  ASSUME TypeOK, AInv, NEW t \in Threads, NEW a, Move(t, a),
         t \in Senders => a.step \in {"idle", "send", "wsaSend"},
         contested \subseteq contested',
         \A s \in Sockets \ contested' :
           /\ t \notin Senders => (Attends(a, s) <=> Attends(at[t], s))
           /\ Arms(s)' = Arms(s),
         UNCHANGED <<prepared, unused, activated, stranded>>
  PROVE  AInv'
<1>1. SendersSend'
  BY SendersAfter
<1>2. ASSUME NEW s \in Sockets \ contested'
      PROVE  GoodSocket(s)'
  <2>1. GoodSocket(s)
    BY DEF AInv
  <2>2. Attenders(s)' = Attenders(s)
    <3>1. Attenders(s)' = (Attenders(s) \ {t})
                             \cup (IF t \notin Senders /\ Attends(a, s) THEN {t} ELSE {})
      BY AttendersAfter
    <3>2. t \in Attenders(s) <=> t \notin Senders /\ Attends(at[t], s)
      BY DEF Attenders, Attended, Attends
    <3> QED
      BY <3>1, <3>2
  <2>3. Spots(s)' = Spots(s)
    BY DEF Spots
  <2> QED
    BY <2>1, <2>2, <2>3, SocketKept
<1> QED
  BY <1>1, <1>2 DEF AInv

\* The kernel hands a socket to a thread.
LEMMA KernelToThread ==
  ASSUME TypeOK, AInv, NEW t \in Threads, t \notin Senders, at[t] = Idle, NEW a, Move(t, a),
         NEW p \in Receiving \cup Accepting, pending' = pending \ {p},
         Attends(a, p.socket),
         UNCHANGED <<prepared, unused, activated, stranded, contested>>
  PROVE  AInv'
<1>1. SendersSend'
  BY SendersAfter
<1>2. ASSUME NEW s \in Sockets \ contested'
      PROVE  GoodSocket(s)'
  <2>1. GoodSocket(s) /\ Spots(s)' = Spots(s)
    BY DEF AInv, Spots
  <2>2. ~Attends(at[t], s) /\ t \notin Attenders(s)
    BY DEF Idle, At, Attends, Attending, Attenders, Attended
  <2>3. Attenders(s)' = Attenders(s) \cup (IF Attends(a, s) THEN {t} ELSE {})
    BY <2>2, AttendersAfter
  <2>4. Arms(s)' = Arms(s) \ {p}
    BY DEF Arms, Receiving, Accepting
  <2>5. CASE s = p.socket
    <3>1. p \in Arms(s)
      BY <2>5 DEF Arms
    <3>2. Attenders(s) = {} /\ Arms(s) = {p} /\ s \in activated /\ s \notin stranded
          /\ s \notin unused /\ Spots(s) = {}
      BY <3>1, ArmedAlone
    <3> QED
      BY <2>1, <2>3, <2>4, <2>5, <3>2 DEF GoodSocket, CaredFor, Placed, One
  <2>6. CASE s # p.socket
    <3>1. Arms(s)' = Arms(s)
      BY <2>4, <2>6 DEF Arms
    <3>2. Attenders(s)' = Attenders(s)
      BY <2>3, <2>6 DEF Attends
    <3> QED
      BY <2>1, <3>1, <3>2, SocketKept
  <2> QED
    BY <2>5, <2>6
<1> QED
  BY <1>1, <1>2 DEF AInv

\* The kernel gives a socket up: its accept has failed.
LEMMA KernelGivesUp ==
  ASSUME TypeOK, AInv, NEW p \in Accepting, pending' = pending \ {p},
         stranded' = stranded \cup {p.socket},
         UNCHANGED <<at, prepared, unused, activated, contested>>
  PROVE  AInv'
<1>1. SendersSend'
  BY DEF AInv, SendersSend
<1>2. ASSUME NEW s \in Sockets \ contested'
      PROVE  GoodSocket(s)'
  <2>1. GoodSocket(s) /\ Spots(s)' = Spots(s) /\ Attenders(s)' = Attenders(s)
    BY DEF AInv, Spots, Attenders, Attended
  <2>2. Arms(s)' = Arms(s) \ {p}
    BY DEF Arms, Receiving, Accepting
  <2>3. CASE s = p.socket
    <3>1. p \in Arms(s)
      BY <2>3 DEF Arms
    <3>2. Attenders(s) = {} /\ Arms(s) = {p} /\ s \in activated
          /\ s \notin unused /\ Spots(s) = {}
      BY <3>1, ArmedAlone
    <3> QED
      BY <2>1, <2>2, <2>3, <3>2 DEF GoodSocket, CaredFor, Placed, Nobody
  <2>4. CASE s # p.socket
    <3>1. Arms(s)' = Arms(s)
      BY <2>2, <2>4 DEF Arms
    <3> QED
      BY <2>1, <2>4, <3>1, SocketKept
  <2> QED
    BY <2>3, <2>4
<1> QED
  BY <1>1, <1>2 DEF AInv

\* A thread hands a socket to the kernel, or drops it when the call fails.
LEMMA ThreadToKernel ==
  ASSUME TypeOK, AInv, NEW t \in Threads, t \notin Senders, NEW r, Attends(at[t], r),
         NEW a, Move(t, a), \A s \in Sockets : ~Attends(a, s),
         \/ /\ \E p : /\ pending' = pending \cup {p}
                      /\ p.socket = r /\ p.op = "recv"
            /\ stranded' = stranded
         \/ pending' = pending /\ stranded' = stranded \cup {r},
         UNCHANGED <<prepared, unused, activated, contested>>
  PROVE  AInv'
<1>1. SendersSend'
  BY SendersAfter
<1>2. ASSUME NEW s \in Sockets \ contested'
      PROVE  GoodSocket(s)'
  <2>1. GoodSocket(s) /\ Spots(s)' = Spots(s)
    BY DEF AInv, Spots
  <2>2. Attenders(s)' = Attenders(s) \ {t}
    BY AttendersAfter
  <2>3. CASE s = r
    <3>1. /\ Attenders(s) = {t} /\ Arms(s) = {}
          /\ s \in activated /\ s \notin stranded /\ s \notin unused /\ Spots(s) = {}
      BY <2>3, AttendsAlone
    <3>2. CASE pending' = pending /\ stranded' = stranded \cup {r}
      <4>1. Arms(s)' = {}
        BY <3>1, <3>2 DEF Arms, Receiving, Accepting
      <4> QED
        BY <2>1, <2>2, <2>3, <3>1, <3>2, <4>1 DEF GoodSocket, CaredFor, Placed, Nobody
    <3>3. CASE /\ \E p : /\ pending' = pending \cup {p}
                         /\ p.socket = r /\ p.op = "recv"
               /\ stranded' = stranded
      <4> PICK p : pending' = pending \cup {p} /\ p.socket = r /\ p.op = "recv"
        BY <3>3
      <4>1. Arms(s)' = {p}
        BY <2>3, <3>1 DEF Arms, Receiving, Accepting
      <4> QED
        BY <2>1, <2>2, <3>1, <3>3, <4>1 DEF GoodSocket, CaredFor, Placed, One
    <3> QED
      BY <3>2, <3>3
  <2>4. CASE s # r
    <3>1. Arms(s)' = Arms(s)
      BY <2>4 DEF Arms, Receiving, Accepting
    <3>2. Attenders(s)' = Attenders(s)
      BY <2>2, <2>4 DEF Attends, Attenders, Attended
    <3> QED
      BY <2>1, <2>4, <3>1, <3>2, SocketKept
  <2> QED
    BY <2>3, <2>4
<1> QED
  BY <1>1, <1>2 DEF AInv

-----------------------------------------------------------------------------
(* The prepared sockets *)

\* GetPreparedSocket takes the oldest one; the others move up.
LEMMA SpotsAfterTail ==
  ASSUME TypeOK, prepared # <<>>, prepared' = Tail(prepared), NEW s
  PROVE  /\ Head(prepared) \in Sockets
         /\ Spots(s)' = {i \in 1 .. Len(prepared) - 1 : i + 1 \in Spots(s)}
         /\ Spots(s) \subseteq 1 .. Len(prepared) /\ Len(prepared) \in Nat
         /\ 1 \in Spots(s) <=> s = Head(prepared)
<1>1. prepared \in Seq(Sockets)
  BY DEF TypeOK
<1>2. /\ Head(prepared) \in Sockets /\ Tail(prepared) \in Seq(Sockets)
      /\ Len(Tail(prepared)) = Len(prepared) - 1
      /\ \A i \in 1 .. Len(Tail(prepared)) : Tail(prepared)[i] = prepared[i + 1]
      /\ Head(prepared) = prepared[1]
  BY <1>1, HeadTailProperties
<1>3. Len(prepared) \in Nat \ {0} /\ DOMAIN prepared = 1 .. Len(prepared)
      /\ DOMAIN Tail(prepared) = 1 .. Len(prepared) - 1
  BY <1>1, <1>2, EmptySeq
<1>4. \A i \in 1 .. Len(prepared) - 1 : prepared'[i] = s <=> i + 1 \in Spots(s)
  BY <1>2, <1>3 DEF Spots
<1>5. Spots(s)' = {i \in 1 .. Len(prepared) - 1 : prepared'[i] = s}
  BY <1>3 DEF Spots
<1>6. 1 \in Spots(s) <=> s = Head(prepared)
  BY <1>2, <1>3 DEF Spots
<1> QED
  BY <1>2, <1>3, <1>4, <1>5, <1>6 DEF Spots

\* The places of a socket that is not the oldest are as many as before.
LEMMA OtherSpots ==
  ASSUME TypeOK, prepared # <<>>, prepared' = Tail(prepared), NEW s, s # Head(prepared)
  PROVE  /\ Spots(s) = {} => Spots(s)' = {}
         /\ (\E i \in Spots(s) : Spots(s) = {i}) => (\E i \in Spots(s)' : Spots(s)' = {i})
<1>1. /\ Spots(s)' = {i \in 1 .. Len(prepared) - 1 : i + 1 \in Spots(s)}
      /\ Spots(s) \subseteq 1 .. Len(prepared) /\ Len(prepared) \in Nat /\ 1 \notin Spots(s)
  BY SpotsAfterTail
<1>2. Spots(s) = {} => Spots(s)' = {}
  BY <1>1
<1>3. ASSUME NEW i \in Spots(s), Spots(s) = {i}
      PROVE  i - 1 \in Spots(s)' /\ Spots(s)' = {i - 1}
  <2>1. i \in 1 .. Len(prepared) /\ i # 1
    BY <1>1
  <2>2. i - 1 \in 1 .. Len(prepared) - 1 /\ (i - 1) + 1 = i
    BY <1>1, <2>1
  <2>3. \A k \in 1 .. Len(prepared) - 1 : k + 1 = i => k = i - 1
    BY <1>1, <2>1
  <2> QED
    BY <1>1, <1>3, <2>2, <2>3
<1> QED
  BY <1>2, <1>3

\* The socket of a disconnected client is prepared last.
LEMMA SpotsAfterAppend ==
  ASSUME TypeOK, NEW r \in Sockets, prepared' = Append(prepared, r), NEW s
  PROVE  /\ s # r => Spots(s)' = Spots(s)
         /\ Spots(r) = {} => \E i \in Spots(r)' : Spots(r)' = {i}
<1>1. prepared \in Seq(Sockets) /\ Len(prepared) \in Nat
  BY DEF TypeOK
<1>2. /\ Append(prepared, r) \in Seq(Sockets)
      /\ Len(Append(prepared, r)) = Len(prepared) + 1
      /\ Append(prepared, r)[Len(prepared) + 1] = r
      /\ \A i \in 1 .. Len(prepared) : Append(prepared, r)[i] = prepared[i]
  BY <1>1, AppendProperties
<1>3. DOMAIN prepared = 1 .. Len(prepared) /\ DOMAIN prepared' = 1 .. Len(prepared) + 1
  BY <1>1, <1>2
<1>4. \A i : i \in 1 .. Len(prepared) + 1 <=> i \in 1 .. Len(prepared) \/ i = Len(prepared) + 1
  BY <1>1
<1>5. ASSUME s # r
      PROVE  Spots(s)' = Spots(s)
  BY <1>2, <1>3, <1>4, <1>5 DEF Spots
<1>6. ASSUME Spots(r) = {}
      PROVE  Spots(r)' = {Len(prepared) + 1}
  <2>1. \A i \in 1 .. Len(prepared) : prepared[i] # r
    BY <1>3, <1>6 DEF Spots
  <2> QED
    BY <1>2, <1>3, <1>4, <2>1 DEF Spots
<1> QED
  BY <1>5, <1>6

\* PrepareSocket creates a batch: each of the new sockets is prepared once.
LEMMA PrepareCare ==
  ASSUME TypeOK, AInv, NEW t \in Threads, PrepareSocket(t)
  PROVE  AInv'
<1> PICK batch \in Orders(unused, ReadyCount) :
           /\ prepared' = batch
           /\ unused' = unused \ {batch[i] : i \in 1 .. ReadyCount}
  BY DEF PrepareSocket
<1> DEFINE a == At("retry", at[t].socket, at[t].ov, at[t].new)
<1>1. Move(t, a) /\ at[t].step = "activate" /\ prepared = <<>>
  BY GoMoves DEF PrepareSocket, Steps
<1>2. /\ batch \in [1 .. ReadyCount -> unused]
      /\ \A i, j \in 1 .. ReadyCount : batch[i] = batch[j] => i = j
      /\ DOMAIN prepared' = 1 .. ReadyCount
  BY DEF Orders
<1>3. t \notin Senders
  BY <1>1 DEF AInv, SendersSend
<1>4. SendersSend'
  BY <1>1, <1>3, SendersAfter
<1>5. UNCHANGED <<pending, activated, stranded, contested>>
  BY DEF PrepareSocket, ghosts
<1> SUFFICES ASSUME NEW s \in Sockets \ contested
             PROVE  GoodSocket(s)'
  BY <1>4, <1>5 DEF AInv
<1>6. GoodSocket(s) /\ Arms(s)' = Arms(s) /\ Spots(s) = {}
  BY <1>1, <1>5 DEF AInv, Arms, Receiving, Accepting, Spots
<1>7. Attenders(s)' = Attenders(s)
  <2>1. ~Attends(a, s) /\ t \notin Attenders(s)
    BY <1>1 DEF At, Attends, Attending, Attenders, Attended
  <2>2. Attenders(s)' = Attenders(s) \ {t}
    BY <1>1, <2>1, AttendersAfter
  <2> QED
    BY <2>1, <2>2
<1>8. CaredFor(s)' /\ (s \in stranded' => s \in activated')
  BY <1>5, <1>6, <1>7 DEF GoodSocket, CaredFor, One, Nobody
<1>9. CASE \E i \in 1 .. ReadyCount : batch[i] = s
  <2> PICK i \in 1 .. ReadyCount : batch[i] = s
    BY <1>9
  <2>1. Spots(s)' = {i}
    BY <1>2 DEF Spots
  <2>2. s \in unused /\ s \notin unused' /\ s \notin activated
    BY <1>2, <1>6 DEF GoodSocket, Placed
  <2> QED
    BY <1>5, <1>8, <2>1, <2>2 DEF GoodSocket, Placed
<1>10. CASE ~ \E i \in 1 .. ReadyCount : batch[i] = s
  <2>1. Spots(s)' = {}
    BY <1>2, <1>10 DEF Spots
  <2>2. s \in unused' <=> s \in unused
    BY <1>10
  <2> QED
    BY <1>5, <1>6, <1>8, <2>1, <2>2, SocketKept DEF GoodSocket, Placed
<1> QED
  BY <1>9, <1>10

\* ActivateClient: an uncontested socket that is prepared is in no map and has no
\* AcceptEx pending, so that AcceptEx refuses none of those.
LEMMA ActivateCare ==
  ASSUME TypeOK, AInv, NEW t \in Threads, ActivateClient(t)
  PROVE  AInv'
<1> DEFINE r == Head(prepared)
           a == At("return", at[t].socket, at[t].ov, at[t].new)
           p == Operation("accept", r, Head(pool))
<1>1. /\ Move(t, a) /\ at[t].step \in {"activate", "retry"}
      /\ prepared # <<>> /\ prepared' = Tail(prepared) /\ activated' = activated \cup {r}
      /\ UNCHANGED <<unused, contested>>
  BY GoMoves DEF ActivateClient, Steps
<1>2. \/ pending' = pending \cup {p} /\ UNCHANGED stranded /\ ~Refused(r)
      \/ pending' = pending /\ stranded' = stranded \cup {r}
  BY DEF ActivateClient
<1>3. t \notin Senders
  BY <1>1 DEF AInv, SendersSend
<1>4. SendersSend'
  BY <1>1, <1>3, SendersAfter
<1> SUFFICES ASSUME NEW s \in Sockets \ contested
             PROVE  GoodSocket(s)'
  BY <1>1, <1>4 DEF AInv
<1>5. GoodSocket(s)
  BY DEF AInv
<1>6. Attenders(s)' = Attenders(s)
  <2>1. ~Attends(a, s) /\ t \notin Attenders(s)
    BY <1>1 DEF At, Attends, Attending, Attenders, Attended
  <2>2. Attenders(s)' = Attenders(s) \ {t}
    BY <1>1, <2>1, AttendersAfter
  <2> QED
    BY <2>1, <2>2
<1>7. p.socket = r /\ p.op = "accept"
  BY DEF Operation
<1> HIDE DEF a, p
<1>8. CASE s = r
  <2>1. /\ Spots(s)' = {i \in 1 .. Len(prepared) - 1 : i + 1 \in Spots(s)}
        /\ Len(prepared) \in Nat /\ 1 \in Spots(s)
    BY <1>1, <1>8, SpotsAfterTail
  <2>2. s \notin unused /\ s \notin activated /\ Spots(s) = {1}
    BY <1>5, <2>1 DEF GoodSocket, Placed
  <2>3. Spots(s)' = {}
    BY <2>1, <2>2
  <2>4. Nobody(s) /\ s \notin stranded
    BY <1>5, <2>2 DEF GoodSocket, CaredFor
  <2>5. CASE pending' = pending \cup {p} /\ UNCHANGED stranded
    <3>1. Arms(s)' = {p}
      BY <1>7, <1>8, <2>4, <2>5 DEF Arms, Receiving, Accepting, Nobody
    <3> QED
      BY <1>1, <1>6, <1>8, <2>2, <2>3, <2>4, <2>5, <3>1
      DEF GoodSocket, CaredFor, Placed, One, Nobody
  <2>6. CASE pending' = pending /\ stranded' = stranded \cup {r}
    <3>1. Arms(s)' = {}
      BY <2>4, <2>6 DEF Arms, Receiving, Accepting, Nobody
    <3> QED
      BY <1>1, <1>6, <1>8, <2>2, <2>3, <2>4, <2>6, <3>1
      DEF GoodSocket, CaredFor, Placed, Nobody
  <2> QED
    BY <1>2, <2>5, <2>6
<1>9. CASE s # r
  <2>1. /\ Spots(s) = {} => Spots(s)' = {}
        /\ (\E i \in Spots(s) : Spots(s) = {i}) => (\E i \in Spots(s)' : Spots(s)' = {i})
    BY <1>1, <1>9, OtherSpots
  <2>2. Arms(s)' = Arms(s)
    BY <1>2, <1>7, <1>9 DEF Arms, Receiving, Accepting
  <2>3. (s \in activated' <=> s \in activated) /\ (s \in stranded' <=> s \in stranded)
    BY <1>1, <1>2, <1>9
  <2>4. CaredFor(s)' /\ (s \in stranded' => s \in activated')
    BY <1>5, <1>6, <2>2, <2>3 DEF GoodSocket, CaredFor, One, Nobody
  <2>5. Placed(s)'
    BY <1>1, <1>5, <2>1, <2>3 DEF GoodSocket, Placed
  <2> QED
    BY <2>4, <2>5 DEF GoodSocket
<1> QED
  BY <1>8, <1>9

\* Erase: the socket leaves the map as it is prepared again.
LEMMA EraseCare ==
  ASSUME TypeOK, GoodThreads, AInv, NEW t \in Threads, Erase(t)
  PROVE  AInv'
<1> DEFINE r == at[t].socket
           a == At("activate", NoSocket, at[t].ov, NoOverlapped)
<1>1. /\ Move(t, a) /\ at[t].step = "erase"
      /\ activated' = activated \ {r} /\ prepared' = Append(prepared, r)
      /\ UNCHANGED <<pending, unused, stranded, contested>>
  BY DEF Erase, ghosts
<1>2. r \in Sockets
  BY <1>1 DEF GoodThreads, Shape, Attending
<1>3. t \notin Senders
  BY <1>1 DEF AInv, SendersSend
<1>4. SendersSend'
  BY <1>1, <1>3, SendersAfter
<1> SUFFICES ASSUME NEW s \in Sockets \ contested
             PROVE  GoodSocket(s)'
  BY <1>1, <1>4 DEF AInv
<1>5. GoodSocket(s) /\ Arms(s)' = Arms(s)
  BY <1>1 DEF AInv, Arms, Receiving, Accepting
<1>6. Attenders(s)' = Attenders(s) \ {t}
  <2>1. ~Attends(a, s)
    BY DEF At, Attends, Attending
  <2> QED
    BY <1>1, <2>1, AttendersAfter
<1>7. CASE s = r
  <2>1. Attends(at[t], s)
    BY <1>1, <1>7 DEF Attends, Attending
  <2>2. /\ Attenders(s) = {t} /\ Arms(s) = {}
        /\ s \in activated /\ s \notin stranded /\ s \notin unused /\ Spots(s) = {}
    BY <1>3, <2>1, AttendsAlone
  <2>3. \E i \in Spots(s)' : Spots(s)' = {i}
    <3>1. prepared' = Append(prepared, s)
      BY <1>1, <1>7
    <3> QED
      BY <2>2, <3>1, SpotsAfterAppend
  <2> QED
    BY <1>1, <1>5, <1>6, <1>7, <2>2, <2>3 DEF GoodSocket, CaredFor, Placed, Nobody
<1>8. CASE s # r
  <2>1. Spots(s)' = Spots(s)
    BY <1>1, <1>2, <1>8, SpotsAfterAppend
  <2>2. Attenders(s)' = Attenders(s)
    BY <1>6, <1>8 DEF Attenders, Attended
  <2> QED
    BY <1>1, <1>5, <1>8, <2>1, <2>2, SocketKept
<1> QED
  BY <1>7, <1>8

\* No thread moves, and no operation that waits or reads starts or ends.
LEMMA StillCare ==
  ASSUME AInv, UNCHANGED <<at, prepared, unused, activated, stranded, contested>>,
         \A s \in Sockets \ contested : Arms(s)' = Arms(s)
  PROVE  AInv'
<1>1. SendersSend'
  BY DEF AInv, SendersSend
<1>2. ASSUME NEW s \in Sockets \ contested
      PROVE  GoodSocket(s)'
  <2>1. GoodSocket(s) /\ Spots(s)' = Spots(s) /\ Attenders(s)' = Attenders(s)
    BY DEF AInv, Spots, Attenders, Attended
  <2> QED
    BY <2>1, SocketKept
<1> QED
  BY <1>1, <1>2 DEF AInv

\* Completions.
LEMMA SessionTakesCare ==
  ASSUME IInv, AInv, NEW t \in Sessions, NEW p \in pending, SessionTakes(t, p)
  PROVE  AInv'
<1> USE NetworkAssumption DEF NetworkAssumption
<1>0. TypeOK /\ t \in Threads /\ t \notin Senders /\ p.socket \in Sockets
  BY DEF IInv, TypeOK, Threads
<1>1. CASE Accepted(t, p)
  <2> DEFINE a == At("accept", p.socket, p.ov, NoOverlapped)
  <2>1. /\ at[t] = Idle /\ Move(t, a) /\ p \in Accepting /\ pending' = pending \ {p}
        /\ UNCHANGED <<prepared, unused, activated, stranded, contested>>
    BY <1>1 DEF Accepted, ghosts, Accepting
  <2>2. Attends(a, p.socket)
    BY DEF Attends, At, Attending
  <2> HIDE DEF a
  <2> QED
    BY <1>0, <2>1, <2>2, KernelToThread
<1>2. CASE AcceptFails(t, p)
  BY <1>0, <1>2, KernelGivesUp DEF AcceptFails, sockets, Accepting
<1>3. CASE Received(t, p) \/ Closed(t, p)
  <2> PICK step \in {"receive", "disconnect"} : Move(t, At(step, p.socket, p.ov, NoOverlapped))
    BY <1>3 DEF Received, Closed
  <2> DEFINE a == At(step, p.socket, p.ov, NoOverlapped)
  <2>1. /\ at[t] = Idle /\ p \in Receiving /\ pending' = pending \ {p}
        /\ UNCHANGED <<prepared, unused, activated, stranded, contested>>
    BY <1>3 DEF Received, Closed, ghosts, sockets, Receiving
  <2>2. Attends(a, p.socket) /\ Move(t, a)
    BY DEF Attends, At, Attending
  <2> HIDE DEF a
  <2> QED
    BY <1>0, <2>1, <2>2, KernelToThread
<1>4. CASE SendFails(t, p)
  <2> DEFINE a == At("disconnect", p.socket, p.ov, NoOverlapped)
  <2>1. /\ at[t] = Idle /\ Move(t, a) /\ p.op = "send" /\ pending' = pending \ {p}
        /\ contested' = contested \cup {p.socket}
        /\ UNCHANGED <<prepared, unused, activated, stranded>>
    BY <1>4 DEF SendFails, sockets
  <2>2. \A s \in Sockets \ contested' : ~Attends(a, s) /\ ~Attends(at[t], s)
    BY <2>1 DEF Attends, At, Attending, Idle
  <2>3. \A s \in Sockets : Arms(s)' = Arms(s)
    BY <2>1 DEF Arms, Receiving, Accepting
  <2> HIDE DEF a
  <2> QED
    BY <1>0, <2>1, <2>2, <2>3, SameCare
<1>5. CASE Sent(t, p)
  <2>1. \A s \in Sockets : Arms(s)' = Arms(s)
    BY <1>5 DEF Sent, Arms, Receiving, Accepting
  <2> QED
    BY <1>5, <2>1, StillCare DEF Sent, sockets, ghosts
<1> QED
  BY <1>1, <1>2, <1>3, <1>4, <1>5 DEF SessionTakes

\* The handlers of a thread, as far as it does not turn to another socket.
LEMMA StepsCare ==
  ASSUME IInv, AInv, NEW t \in Threads,
         \/ AcceptFind(t) \/ ReceiveFind(t) \/ GiveBack(t) \/ Rearm(t)
         \/ DisconnectFind(t) \/ Teardown(t) \/ Deinitialize(t)
  PROVE  AInv'
<1>1. TypeOK
  BY DEF IInv
<1>2. at[t].step \in Attending /\ t \notin Senders
  <2>1. at[t].step \in Attending /\ at[t].step \notin {"idle", "send", "wsaSend"}
    BY DEF AcceptFind, ReceiveFind, GiveBack, Rearm, DisconnectFind, Teardown, Deinitialize,
           Attending
  <2> QED
    BY <2>1 DEF AInv, SendersSend
<1>3. UNCHANGED <<pending, prepared, unused, activated, stranded, contested>>
  BY DEF AcceptFind, ReceiveFind, GiveBack, Rearm, DisconnectFind, Teardown, Deinitialize,
         sockets, ghosts
<1>4. \E a : Move(t, a) /\ a.socket = at[t].socket /\ a.step \in Attending
  <2>1. ASSUME NEW step \in {"giveBack", "teardown", "deinitialize", "erase"}, Go(t, step)
        PROVE  \E a : Move(t, a) /\ a.socket = at[t].socket /\ a.step \in Attending
    <3> DEFINE a == At(step, at[t].socket, at[t].ov, at[t].new)
    <3>1. Move(t, a)
      BY <1>1, <2>1, GoMoves DEF Steps, HoldsEntry
    <3>2. a.socket = at[t].socket /\ a.step \in Attending
      BY DEF At, Attending
    <3> QED
      BY <3>1, <3>2
  <2>2. ASSUME NEW step \in {"receiveReady", "rearm"}, NEW o, NEW n,
               Move(t, At(step, at[t].socket, o, n))
        PROVE  \E a : Move(t, a) /\ a.socket = at[t].socket /\ a.step \in Attending
    <3> DEFINE a == At(step, at[t].socket, o, n)
    <3>1. a.socket = at[t].socket /\ a.step \in Attending
      BY DEF At, Attending
    <3> QED
      BY <2>2, <3>1
  <2>3. CASE ReceiveFind(t) \/ DisconnectFind(t) \/ Teardown(t) \/ Deinitialize(t)
    BY <2>1, <2>3 DEF ReceiveFind, DisconnectFind, Teardown, Deinitialize
  <2>4. CASE AcceptFind(t) \/ GiveBack(t) \/ Rearm(t)
    BY <2>2, <2>4 DEF AcceptFind, GiveBack, Rearm
  <2> QED
    BY <2>3, <2>4
<1> PICK a : Move(t, a) /\ a.socket = at[t].socket /\ a.step \in Attending
  BY <1>4
<1>5. \A s \in Sockets : (Attends(a, s) <=> Attends(at[t], s)) /\ Arms(s)' = Arms(s)
  BY <1>2, <1>3 DEF Attends, Arms, Receiving, Accepting
<1> QED
  BY <1>1, <1>2, <1>3, <1>5, SameCare

\* Handlers that find no entry attend to a contested socket; the others here attend
\* to no socket.
LEMMA IdleCare ==
  ASSUME IInv, AInv, NEW t \in Threads,
         \/ AcceptLost(t) \/ ReceiveLost(t) \/ DisconnectLost(t)
         \/ ActivateNothing(t) \/ Return(t)
         \/ SendChecked(t) \/ SendLost(t) \/ WsaSend(t)
  PROVE  AInv'
<1>1. TypeOK
  BY DEF IInv
<1>2. /\ UNCHANGED <<prepared, unused, activated, stranded, contested>>
      /\ \/ UNCHANGED pending
         \/ \E p : p.op = "send" /\ pending' = pending \cup {p}
  <2>1. CASE WsaSend(t)
    BY <2>1 DEF WsaSend, Operation, sockets, ghosts
  <2>2. CASE ~WsaSend(t)
    BY <2>2 DEF AcceptLost, ReceiveLost, DisconnectLost, ActivateNothing, Return, SendChecked,
                SendLost, sockets, ghosts
  <2> QED
    BY <2>1, <2>2
<1>3. \E a : Move(t, a) /\ a.step \in {"idle", "return", "wsaSend"}
             /\ (t \in Senders => a.step \in {"idle", "send", "wsaSend"})
  <2>1. ASSUME NEW step \in {"return", "wsaSend"}, Go(t, step),
               t \in Senders => step = "wsaSend"
        PROVE  \E a : Move(t, a) /\ a.step \in {"idle", "return", "wsaSend"}
                      /\ (t \in Senders => a.step \in {"idle", "send", "wsaSend"})
    <3> DEFINE a == At(step, at[t].socket, at[t].ov, at[t].new)
    <3>1. Move(t, a)
      BY <1>1, <2>1, GoMoves DEF Steps, HoldsEntry
    <3>2. a.step = step
      BY DEF At
    <3> QED
      BY <2>1, <3>1, <3>2
  <2>2. CASE Move(t, Idle)
    <3>1. Idle.step = "idle"
      BY DEF Idle, At
    <3> QED
      BY <2>2, <3>1
  <2>3. CASE ActivateNothing(t) /\ Go(t, "return")
    <3>1. t \notin Senders
      BY <2>3 DEF ActivateNothing, AInv, SendersSend
    <3> QED
      BY <2>1, <2>3, <3>1
  <2>4. CASE SendChecked(t)
    BY <2>1, <2>4 DEF SendChecked
  <2> QED
    BY <2>2, <2>3, <2>4 DEF AcceptLost, ReceiveLost, DisconnectLost, ActivateNothing, Return,
                            SendLost, WsaSend
<1> PICK a : /\ Move(t, a) /\ a.step \in {"idle", "return", "wsaSend"}
             /\ (t \in Senders => a.step \in {"idle", "send", "wsaSend"})
  BY <1>3
<1>4. ASSUME NEW s \in Sockets \ contested, t \notin Senders
      PROVE  ~Attends(a, s) /\ ~Attends(at[t], s)
  <2>1. ~Attends(a, s)
    BY DEF Attends, Attending
  <2>2. CASE AcceptLost(t) \/ ReceiveLost(t) \/ DisconnectLost(t)
    <3>1. at[t].socket \notin activated
      BY <2>2 DEF AcceptLost, ReceiveLost, DisconnectLost
    <3>2. Attends(at[t], s) => s \in activated /\ at[t].socket = s
      BY <1>4, AttendsAlone DEF Attends
    <3> QED
      BY <2>1, <3>1, <3>2
  <2>3. CASE \/ ActivateNothing(t) \/ Return(t)
             \/ SendChecked(t) \/ SendLost(t) \/ WsaSend(t)
    BY <2>1, <2>3 DEF ActivateNothing, Return, SendChecked, SendLost, WsaSend, Attends, Attending
  <2> QED
    BY <2>2, <2>3
<1>5. \A s \in Sockets : Arms(s)' = Arms(s)
  BY <1>2 DEF Arms, Receiving, Accepting
<1> QED
  BY <1>1, <1>2, <1>4, <1>5, SameCare

\* ReceiveReady hands the socket to the kernel; Accept then activates another one.
LEMMA ReceiveReadyCare ==
  ASSUME IInv, AInv, NEW t \in Threads, ReceiveReady(t)
  PROVE  AInv'
<1> DEFINE r == at[t].socket
           p == Operation("recv", r, at[t].new)
<1>1. TypeOK /\ t \notin Senders /\ Attends(at[t], r)
  BY DEF IInv, ReceiveReady, AInv, SendersSend, Attends, Attending
<1>2. \E a : Move(t, a) /\ \A s \in Sockets : ~Attends(a, s)
  <2>1. ~(Idle.step \in Attending) /\ \A o, n : ~(At("activate", r, o, n).step \in Attending)
    BY DEF Idle, At, Attending
  <2> QED
    BY <2>1 DEF ReceiveReady, Attends
<1>3. /\ p.socket = r /\ p.op = "recv"
      /\ \/ pending' = pending \cup {p} /\ stranded' = stranded
         \/ pending' = pending /\ stranded' = stranded \cup {r}
      /\ UNCHANGED <<prepared, unused, activated, contested>>
  BY DEF ReceiveReady, Operation, sockets
<1> HIDE DEF r, p
<1> QED
  BY <1>1, <1>2, <1>3, ThreadToKernel

\* The calls from outside the sessions.
LEMMA RequestCare ==
  ASSUME IInv, AInv, NEW t \in Threads, NEW r \in Sockets,
         \/ t \in EventThreads /\ DisconnectRequest(t, r)
         \/ t \in Senders /\ SendRequest(t, r)
  PROVE  AInv'
<1> USE NetworkAssumption DEF NetworkAssumption
<1>1. TypeOK
  BY DEF IInv
<1>2. CASE t \in EventThreads /\ DisconnectRequest(t, r)
  <2> DEFINE a == At("teardown", r, NoOverlapped, NoOverlapped)
  <2>1. /\ t \notin Senders /\ at[t] = Idle /\ Move(t, a)
        /\ contested' = contested \cup {r}
        /\ UNCHANGED <<pending, prepared, unused, activated, stranded>>
    BY <1>2 DEF DisconnectRequest, sockets
  <2>2. \A s \in Sockets \ contested' : ~Attends(a, s) /\ ~Attends(at[t], s)
    BY <2>1 DEF Attends, At, Attending, Idle
  <2>3. \A s \in Sockets : Arms(s)' = Arms(s)
    BY <2>1 DEF Arms, Receiving, Accepting
  <2> HIDE DEF a
  <2> QED
    BY <1>1, <2>1, <2>2, <2>3, SameCare
<1>3. CASE t \in Senders /\ SendRequest(t, r)
  <2> DEFINE a == At("send", r, NoOverlapped, Head(pool))
  <2>1. /\ Move(t, a) /\ a.step = "send"
        /\ UNCHANGED <<pending, prepared, unused, activated, stranded, contested>>
    BY <1>3 DEF SendRequest, sockets, ghosts, At
  <2>2. \A s \in Sockets : Arms(s)' = Arms(s)
    BY <2>1 DEF Arms, Receiving, Accepting
  <2> HIDE DEF a
  <2> QED
    BY <1>1, <1>3, <2>1, <2>2, SameCare
<1> QED
  BY <1>2, <1>3

\* Whom a thread attends to does not depend on its objects.
LEMMA PopStaleCare ==
  ASSUME TypeOK, AInv, NEW t \in Threads, PopStale(t)
  PROVE  AInv'
<1>1. PICK a : Move(t, a) /\ a.step = at[t].step /\ a.socket = at[t].socket
  BY PopStaleStops
<1>2. /\ UNCHANGED <<pending, prepared, unused, activated, stranded, contested>>
      /\ t \in Senders => a.step \in {"idle", "send", "wsaSend"}
  BY <1>1 DEF PopStale, sockets, ghosts, AInv, SendersSend
<1>3. \A s \in Sockets : (Attends(a, s) <=> Attends(at[t], s)) /\ Arms(s)' = Arms(s)
  BY <1>1, <1>2 DEF Attends, Arms, Receiving, Accepting
<1> QED
  BY <1>1, <1>2, <1>3, SameCare

LEMMA NextCare ==
  ASSUME IInv, AInv, [Next]_vars
  PROVE  AInv'
<1>1. ASSUME NEW t \in Sessions, NEW p \in pending, SessionTakes(t, p)
      PROVE  AInv'
  BY <1>1, SessionTakesCare
<1>2. ASSUME NEW t \in Threads, Handler(t)
      PROVE  AInv'
  <2>1. TypeOK /\ GoodThreads
    BY DEF IInv
  <2>2. CASE NullDereference(t)
    <3>1. /\ UNCHANGED <<at, prepared, unused, activated, stranded, contested>>
          /\ \A s \in Sockets : Arms(s)' = Arms(s)
      BY <2>2 DEF NullDereference, sockets, ghosts, Arms, Receiving, Accepting
    <3> QED
      BY <3>1, StillCare
  <2>3. CASE PopStale(t)
    BY <2>1, <2>3, PopStaleCare
  <2> QED
    BY <1>2, <2>1, <2>2, <2>3, StepsCare, IdleCare, ReceiveReadyCare, PrepareCare, ActivateCare,
       EraseCare DEF Handler
<1>3. ASSUME NEW t \in EventThreads, NEW s \in Sockets, DisconnectRequest(t, s)
      PROVE  AInv'
  BY <1>3, RequestCare DEF Threads
<1>4. ASSUME NEW t \in Senders, NEW s \in Sockets, SendRequest(t, s)
      PROVE  AInv'
  BY <1>4, RequestCare DEF Threads
<1>5. CASE UNCHANGED vars
  <2>1. /\ UNCHANGED <<at, prepared, unused, activated, stranded, contested>>
        /\ \A s \in Sockets : Arms(s)' = Arms(s)
    BY <1>5 DEF vars, Arms, Receiving, Accepting
  <2> QED
    BY <2>1, StillCare
<1> QED
  BY <1>1, <1>2, <1>3, <1>4, <1>5 DEF Next

\* At the start one accept is pending for each activated socket.
LEMMA InitCare == Init => AInv
<1> SUFFICES ASSUME Init
             PROVE  AInv
  OBVIOUS
<1>1. PICK order \in Orders(Overlappeds, Cardinality(Overlappeds)),
           ready \in Orders(Sockets, ReadyCount) :
        /\ pending = {Operation("accept", ready[i], order[i]) : i \in 1 .. ReadyCount}
        /\ activated = {ready[i] : i \in 1 .. ReadyCount}
        /\ unused = Sockets \ activated
  BY DEF Init
<1>2. /\ prepared = <<>> /\ at = [t \in Threads |-> Idle] /\ stranded = {} /\ contested = {}
  BY DEF Init
<1>3. /\ ready \in [1 .. ReadyCount -> Sockets]
      /\ \A i, j \in 1 .. ReadyCount : ready[i] = ready[j] => i = j
  BY DEF Orders
<1>4. SendersSend
  BY <1>2 DEF SendersSend, Idle, At, Threads
<1>5. ASSUME NEW s \in Sockets
      PROVE  GoodSocket(s)
  <2>1. Spots(s) = {} /\ Attenders(s) = {}
    BY <1>2 DEF Spots, Attenders, Attended, Attending, Idle, At
  <2>2. \A p \in pending : \E i \in 1 .. ReadyCount :
          p = Operation("accept", ready[i], order[i]) /\ p.socket = ready[i]
    BY <1>1 DEF Operation
  <2>3. CASE s \in activated
    <3>1. PICK i \in 1 .. ReadyCount : ready[i] = s
      BY <1>1, <2>3
    <3> DEFINE q == Operation("accept", ready[i], order[i])
    <3>2. q \in pending /\ q.socket = s /\ q.op = "accept"
      BY <1>1, <3>1 DEF Operation
    <3>3. \A p \in pending : p.socket = s => p = q
      BY <1>3, <2>2, <3>1
    <3>4. Arms(s) = {q}
      BY <3>2, <3>3 DEF Arms, Receiving, Accepting
    <3> QED
      BY <1>1, <1>2, <2>1, <2>3, <3>4 DEF GoodSocket, CaredFor, One, Placed
  <2>4. CASE s \notin activated
    <3>1. Arms(s) = {}
      BY <1>1, <2>2, <2>4 DEF Arms, Receiving, Accepting
    <3> QED
      BY <1>1, <1>2, <2>1, <2>4, <3>1 DEF GoodSocket, CaredFor, Nobody, Placed
  <2> QED
    BY <2>3, <2>4
<1> QED
  BY <1>4, <1>5 DEF AInv

LEMMA CareInvariance == Spec => []AInv
<1>1. Init => AInv
  BY InitCare
<1>2. Sound /\ AInv /\ [Next]_vars => AInv'
  <2> SUFFICES ASSUME Sound, AInv, [Next]_vars
               PROVE  AInv'
    OBVIOUS
  <2>1. CASE running
    BY <2>1, NextCare DEF Sound
  <2>2. CASE ~running
    <3>1. UNCHANGED <<at, prepared, unused, activated, stranded, contested, pending>>
      BY <2>2 DEF Next, vars
    <3>2. \A s \in Sockets : Arms(s)' = Arms(s)
      BY <3>1 DEF Arms, Receiving, Accepting
    <3> QED
      BY <3>1, <3>2, StillCare
  <2> QED
    BY <2>1, <2>2
<1> QED
  BY <1>1, <1>2, Invariance, PTL DEF Spec

\* An activated socket that is disconnected by its own receive only has exactly one
\* operation or thread that attends to it, and any other socket has none: for any
\* number of sockets, objects and threads, and any failures (NetworkManager.cpp:
\* Accept arms a receive, Receive the next one, Disconnect the next accept).
THEOREM ArmedCorrect == Spec => []Armed
<1>1. ASSUME AInv, NEW s \in Sockets \ contested
      PROVE  Cardinality({p \in Receiving \cup Accepting : p.socket = s})
               + Cardinality({t \in Threads : Attended(t, s)})
               = IF s \in activated \ stranded THEN 1 ELSE 0
  <2>1. CaredFor(s)
    BY <1>1 DEF AInv, GoodSocket
  <2>2. Cardinality({}) = 0 /\ \A x : Cardinality({x}) = 1
    BY FS_EmptySet, FS_Singleton
  <2>3. Cardinality(Arms(s)) + Cardinality(Attenders(s))
          = IF s \in activated \ stranded THEN 1 ELSE 0
    BY <2>1, <2>2 DEF CaredFor, One, Nobody
  <2> QED
    BY <2>3 DEF Arms, Attenders
<1>2. AInv => Armed
  BY <1>1 DEF Armed
<1> QED
  BY <1>2, CareInvariance, PTL

\* A socket that is not disconnected twice is new, prepared or activated, and that
\* once: no two Clients ever share it (NetworkManager.cpp: Disconnect takes it from
\* the map before it prepares it, ActivateClient from the queue before it enters it).
THEOREM UncontestedSocketOnceCorrect == Spec => []UncontestedSocketOnce
<1>1. ASSUME AInv, NEW s \in Sockets \ contested
      PROVE  SocketOnceOf(s)
  <2>1. Placed(s)
    BY <1>1 DEF AInv, GoodSocket
  <2>2. Cardinality({}) = 0 /\ \A x : Cardinality({x}) = 1
    BY FS_EmptySet, FS_Singleton
  <2>3. Cardinality(Spots(s)) + (IF s \in activated THEN 1 ELSE 0)
          + (IF s \in unused THEN 1 ELSE 0) = 1
    <3>1. CASE Spots(s) = {}
      <4>1. Cardinality(Spots(s)) = 0
        BY <2>2, <3>1
      <4> QED
        BY <2>1, <3>1, <4>1 DEF Placed
    <3>2. CASE s \notin unused /\ s \notin activated /\ \E i \in Spots(s) : Spots(s) = {i}
      <4>1. Cardinality(Spots(s)) = 1
        BY <2>2, <3>2
      <4> QED
        BY <3>2, <4>1
    <3> QED
      BY <2>1, <3>1, <3>2 DEF Placed
  <2> QED
    BY <2>3 DEF SocketOnceOf, Spots
<1>2. AInv => UncontestedSocketOnce
  BY <1>1 DEF UncontestedSocketOnce
<1> QED
  BY <1>2, CareInvariance, PTL

-----------------------------------------------------------------------------
(* The budget of the pool *)

\* Operations that are pending for good, and threads that will still start one, or two.
Operating == Receiving \cup Accepting
LoadOne(a) == a.step \in Attending \cup {"activate", "retry"}
LoadTwo(a) == a.step = "accept" \/ (a.step = "receiveReady" /\ a.ov # NoOverlapped)
StartsOne == {t \in Threads : LoadOne(at[t])}
StartsTwo == {t \in Threads : LoadTwo(at[t])}

\* How many operations the state a has still to start.
Load(a) == (IF LoadOne(a) THEN 1 ELSE 0) + (IF LoadTwo(a) THEN 1 ELSE 0)

\* The third part of the inductive invariant: pending or still to be started, there
\* are no more accepts and receives than at the start and clients that have come.
BInv == contested = {} =>
          Cardinality(Operating) + Cardinality(StartsOne) + Cardinality(StartsTwo)
            <= ReadyCount + conns

\* Operations are finitely many: each has an object of its own.
LEMMA FiniteOperations ==
  ASSUME TypeOK, Exclusive
  PROVE  /\ IsFiniteSet(pending) /\ IsFiniteSet(Operating) /\ IsFiniteSet(Sending)
         /\ Cardinality(pending) <= Cardinality(Operating) + Cardinality(Sending)
         /\ IsFiniteSet(InKernel) /\ Cardinality(InKernel) <= Cardinality(pending)
<1> DEFINE f == [p \in pending |-> p.ov]
<1>1. f \in Injection(pending, Overlappeds)
  BY DEF TypeOK, Exclusive, Injection, IsInjective
<1>2. IsFiniteSet(pending)
  BY <1>1, FS_Injection, NetworkAssumption DEF NetworkAssumption
<1>3. f \in Surjection(pending, InKernel)
  BY DEF Surjection, InKernel
<1>4. IsFiniteSet(InKernel) /\ Cardinality(InKernel) <= Cardinality(pending)
  BY <1>2, <1>3, FS_Surjection
<1>5. Operating \in SUBSET pending /\ Sending \in SUBSET pending
      /\ pending = Operating \cup Sending
  BY DEF TypeOK, Operating, Sending, Receiving, Accepting
<1>6. IsFiniteSet(Operating) /\ IsFiniteSet(Sending)
  BY <1>2, <1>5, FS_Subset
<1>7. /\ Cardinality(pending) = Cardinality(Operating) + Cardinality(Sending)
                                  - Cardinality(Operating \cap Sending)
      /\ IsFiniteSet(Operating \cap Sending)
  BY <1>5, <1>6, FS_Union, FS_Intersection
<1>8. /\ Cardinality(Operating) \in Nat /\ Cardinality(Sending) \in Nat
      /\ Cardinality(Operating \cap Sending) \in Nat
  BY <1>6, <1>7, FS_CardinalityType
<1>9. Cardinality(pending) <= Cardinality(Operating) + Cardinality(Sending)
  BY <1>7, <1>8
<1> QED
  BY <1>2, <1>4, <1>6, <1>9

LEMMA FiniteLoads ==
  /\ IsFiniteSet(StartsOne) /\ Cardinality(StartsOne) \in Nat
  /\ IsFiniteSet(StartsTwo) /\ Cardinality(StartsTwo) \in Nat
<1>1. StartsOne \in SUBSET Threads /\ StartsTwo \in SUBSET Threads
  BY DEF StartsOne, StartsTwo
<1>2. IsFiniteSet(StartsOne) /\ IsFiniteSet(StartsTwo)
  BY <1>1, FS_Subset, NetworkAssumption DEF NetworkAssumption
<1> QED
  BY <1>2, FS_CardinalityType

\* A thread that moves from at[t] to a changes what is to be started by its own load.
LEMMA LoadsAfter ==
  ASSUME TypeOK, NEW t \in Threads, NEW a, Move(t, a)
  PROVE  Cardinality(StartsOne') + Cardinality(StartsTwo') + Load(at[t])
           = Cardinality(StartsOne) + Cardinality(StartsTwo) + Load(a)
<1>1. at'[t] = a /\ \A u \in Threads : u # t => at'[u] = at[u]
  BY DEF TypeOK, Move
<1>2. StartsOne' = (StartsOne \ {t}) \cup (IF LoadOne(a) THEN {t} ELSE {})
  BY <1>1 DEF StartsOne, LoadOne
<1>3. StartsTwo' = (StartsTwo \ {t}) \cup (IF LoadTwo(a) THEN {t} ELSE {})
  BY <1>1 DEF StartsTwo, LoadTwo
<1>4. ASSUME NEW S, IsFiniteSet(S), NEW now \in BOOLEAN, NEW T,
             T = (S \ {t}) \cup (IF now THEN {t} ELSE {})
      PROVE  Cardinality(T) + (IF t \in S THEN 1 ELSE 0)
               = Cardinality(S) + (IF now THEN 1 ELSE 0)
  <2>1. /\ IsFiniteSet(S \ {t}) /\ Cardinality(S) \in Nat
        /\ Cardinality(S \ {t}) = IF t \in S THEN Cardinality(S) - 1 ELSE Cardinality(S)
    BY <1>4, FS_RemoveElement, FS_CardinalityType
  <2>2. Cardinality((S \ {t}) \cup {t}) = Cardinality(S \ {t}) + 1
    BY <2>1, FS_AddElement
  <2>3. CASE now
    <3>1. T = (S \ {t}) \cup {t}
      BY <1>4, <2>3
    <3> QED
      BY <2>1, <2>2, <2>3, <3>1
  <2>4. CASE ~now
    <3>1. T = S \ {t}
      BY <1>4, <2>4
    <3> QED
      BY <2>1, <2>4, <3>1
  <2> QED
    BY <2>3, <2>4
<1>5. LoadOne(a) \in BOOLEAN /\ LoadTwo(a) \in BOOLEAN
  BY DEF LoadOne, LoadTwo
<1>6. /\ t \in StartsOne <=> LoadOne(at[t])
      /\ t \in StartsTwo <=> LoadTwo(at[t])
  BY DEF StartsOne, StartsTwo
<1>7. Cardinality(StartsOne') + (IF LoadOne(at[t]) THEN 1 ELSE 0)
        = Cardinality(StartsOne) + (IF LoadOne(a) THEN 1 ELSE 0)
  BY <1>2, <1>4, <1>5, <1>6, FiniteLoads
<1>8. Cardinality(StartsTwo') + (IF LoadTwo(at[t]) THEN 1 ELSE 0)
        = Cardinality(StartsTwo) + (IF LoadTwo(a) THEN 1 ELSE 0)
  BY <1>3, <1>4, <1>5, <1>6, FiniteLoads
<1>9. /\ Cardinality(StartsOne) \in Nat /\ Cardinality(StartsTwo) \in Nat
      /\ Cardinality(StartsOne') \in Int /\ Cardinality(StartsTwo') \in Int
  <2>1. IsFiniteSet(StartsOne') /\ IsFiniteSet(StartsTwo')
    BY <1>2, <1>3, FiniteLoads, FS_RemoveElement, FS_AddElement
  <2> QED
    BY <2>1, FiniteLoads, FS_CardinalityType
<1> QED
  BY <1>7, <1>8, <1>9 DEF Load

\* An operation that starts or ends.
LEMMA OperatingAfter ==
  ASSUME TypeOK, Exclusive
  PROVE  /\ Cardinality(Operating) \in Nat
         /\ UNCHANGED pending => Cardinality(Operating') = Cardinality(Operating)
         /\ \A p : pending' = pending \cup {p} =>
              /\ Cardinality(Operating') <= Cardinality(Operating) + 1
              /\ Cardinality(Operating') \in Nat
         /\ \A p : p.op = "send" /\ (pending' = pending \cup {p} \/ pending' = pending \ {p})
              => Cardinality(Operating') = Cardinality(Operating)
         /\ \A p \in Operating : pending' = pending \ {p} =>
              Cardinality(Operating') = Cardinality(Operating) - 1
<1>1. IsFiniteSet(Operating) /\ Cardinality(Operating) \in Nat
  BY FiniteOperations, FS_CardinalityType
<1>2. UNCHANGED pending => Operating' = Operating
  BY DEF Operating, Receiving, Accepting
<1>3. ASSUME NEW p, pending' = pending \cup {p}
      PROVE  /\ Cardinality(Operating') <= Cardinality(Operating) + 1
             /\ Cardinality(Operating') \in Nat
  <2>1. Operating' = Operating \/ Operating' = Operating \cup {p}
    BY <1>3 DEF Operating, Receiving, Accepting
  <2>2. Cardinality(Operating \cup {p})
          = IF p \in Operating THEN Cardinality(Operating) ELSE Cardinality(Operating) + 1
    BY <1>1, FS_AddElement
  <2>3. CASE Operating' = Operating
    BY <1>1, <2>3
  <2>4. CASE Operating' = Operating \cup {p}
    <3>1. Cardinality(Operating') = Cardinality(Operating \cup {p})
      BY <2>4
    <3> QED
      BY <1>1, <2>2, <3>1
  <2> QED
    BY <2>1, <2>3, <2>4
<1>4. ASSUME NEW p, p.op = "send", pending' = pending \cup {p} \/ pending' = pending \ {p}
      PROVE  Operating' = Operating
  BY <1>4 DEF Operating, Receiving, Accepting
<1>5. ASSUME NEW p \in Operating, pending' = pending \ {p}
      PROVE  Cardinality(Operating') = Cardinality(Operating) - 1
  <2>1. Operating' = Operating \ {p}
    BY <1>5 DEF Operating, Receiving, Accepting
  <2> QED
    BY <1>1, <2>1, FS_RemoveElement
<1> QED
  BY <1>1, <1>2, <1>3, <1>4, <1>5

\* A thread moves, and d operations start.
LEMMA BudgetMove ==
  ASSUME TypeOK, Exclusive, BInv, NEW t \in Threads, NEW a, Move(t, a),
         contested \subseteq contested',
         NEW d \in Int, Cardinality(Operating') <= Cardinality(Operating) + d,
         Cardinality(Operating') \in Int,
         conns' \in Nat, Load(a) + d <= Load(at[t]) + (conns' - conns)
  PROVE  BInv'
<1> SUFFICES ASSUME contested' = {}
             PROVE  Cardinality(Operating') + Cardinality(StartsOne') + Cardinality(StartsTwo')
                      <= ReadyCount + conns'
  BY DEF BInv
<1>1. Cardinality(Operating) + Cardinality(StartsOne) + Cardinality(StartsTwo)
        <= ReadyCount + conns
  BY DEF BInv
<1>2. Cardinality(StartsOne') + Cardinality(StartsTwo') + Load(at[t])
        = Cardinality(StartsOne) + Cardinality(StartsTwo) + Load(a)
  BY LoadsAfter
<1>3. /\ Cardinality(Operating) \in Nat /\ ReadyCount \in Nat /\ conns \in Nat
      /\ Cardinality(StartsOne) \in Nat /\ Cardinality(StartsTwo) \in Nat
      /\ Cardinality(StartsOne') \in Nat /\ Cardinality(StartsTwo') \in Nat
      /\ Load(a) \in Nat /\ Load(at[t]) \in Nat
  <2>1. Cardinality(Operating) \in Nat
    BY OperatingAfter
  <2>2. IsFiniteSet(StartsOne') /\ IsFiniteSet(StartsTwo')
    <3>1. StartsOne' \in SUBSET Threads /\ StartsTwo' \in SUBSET Threads
      BY DEF StartsOne, StartsTwo
    <3> QED
      BY <3>1, FS_Subset, NetworkAssumption DEF NetworkAssumption
  <2>3. Cardinality(StartsOne') \in Nat /\ Cardinality(StartsTwo') \in Nat
    BY <2>2, FS_CardinalityType
  <2>4. ReadyCount \in Nat /\ conns \in Nat
    BY NetworkAssumption DEF NetworkAssumption, TypeOK
  <2> QED
    BY <2>1, <2>3, <2>4, FiniteLoads DEF Load
<1> QED
  BY <1>1, <1>2, <1>3

\* No thread moves, and no operation but a send starts or ends, or an accept fails.
LEMMA BudgetStill ==
  ASSUME TypeOK, Exclusive, BInv, UNCHANGED <<at, contested, conns>>,
         Cardinality(Operating') <= Cardinality(Operating),
         Cardinality(Operating') \in Int
  PROVE  BInv'
<1>1. StartsOne' = StartsOne /\ StartsTwo' = StartsTwo
  BY DEF StartsOne, StartsTwo
<1>2. Cardinality(Operating) \in Nat /\ ReadyCount \in Nat /\ conns \in Nat
  BY OperatingAfter, NetworkAssumption DEF NetworkAssumption, TypeOK
<1> QED
  BY <1>1, <1>2, FiniteLoads DEF BInv

\* The loads of the states that threads move to.
LEMMA LoadOf ==
  ASSUME NEW a
  PROVE  /\ a.step \in {"idle", "send", "wsaSend", "return"} => Load(a) = 0
         /\ a.step = "accept" => Load(a) = 2
         /\ a.step \in {"receive", "disconnect", "giveBack", "rearm", "teardown",
                        "deinitialize", "erase", "activate", "retry"} => Load(a) = 1
         /\ a.step = "receiveReady" => Load(a) = IF a.ov = NoOverlapped THEN 1 ELSE 2
         /\ Load(a) \in 0 .. 2
  BY DEF Load, LoadOne, LoadTwo, Attending

\* Taking a completion: an accept brings two operations, for the client that has come
\* and for the next one; a receive brings one.
LEMMA SessionTakesBudget ==
  ASSUME IInv, BInv, NEW t \in Sessions, NEW p \in pending, SessionTakes(t, p)
  PROVE  BInv'
<1>0. /\ TypeOK /\ Exclusive /\ t \in Threads /\ conns \in Nat
      /\ Cardinality(Operating) \in Nat
  BY OperatingAfter DEF IInv, TypeOK, Threads
<1>idle. ASSUME at[t] = Idle
         PROVE  Load(at[t]) = 0
  BY <1>idle DEF Idle, At, Load, LoadOne, LoadTwo, Attending
<1>1. CASE Accepted(t, p)
  <2> DEFINE a == At("accept", p.socket, p.ov, NoOverlapped)
  <2>1. /\ Move(t, a) /\ at[t] = Idle /\ p \in Operating /\ pending' = pending \ {p}
        /\ conns' = conns + 1 /\ contested' = contested
    BY <1>1 DEF Accepted, ghosts, Operating, Accepting
  <2>2. Load(a) = 2
    BY LoadOf DEF At
  <2>3. Cardinality(Operating') = Cardinality(Operating) + (0 - 1)
    BY <1>0, <2>1, OperatingAfter
  <2> HIDE DEF a
  <2> QED
    BY <1>0, <1>idle, <2>1, <2>2, <2>3, BudgetMove
<1>2. CASE AcceptFails(t, p)
  <2>1. /\ p \in Operating /\ pending' = pending \ {p} /\ UNCHANGED <<at, conns, contested>>
    BY <1>2 DEF AcceptFails, Operating, Accepting
  <2>2. Cardinality(Operating') = Cardinality(Operating) - 1
    BY <1>0, <2>1, OperatingAfter
  <2> QED
    BY <1>0, <2>1, <2>2, BudgetStill
<1>3. CASE Received(t, p) \/ Closed(t, p)
  <2> PICK step \in {"receive", "disconnect"} : Move(t, At(step, p.socket, p.ov, NoOverlapped))
    BY <1>3 DEF Received, Closed
  <2> DEFINE a == At(step, p.socket, p.ov, NoOverlapped)
  <2>1. /\ Move(t, a) /\ at[t] = Idle /\ p \in Operating /\ pending' = pending \ {p}
        /\ conns' = conns /\ contested' = contested
    BY <1>3 DEF Received, Closed, ghosts, Operating, Receiving
  <2>2. Load(a) = 1
    BY LoadOf DEF At
  <2>3. Cardinality(Operating') = Cardinality(Operating) + (0 - 1)
    BY <1>0, <2>1, OperatingAfter
  <2> HIDE DEF a
  <2> QED
    BY <1>0, <1>idle, <2>1, <2>2, <2>3, BudgetMove
<1>4. CASE SendFails(t, p)
  <2>1. contested' # {}
    BY <1>4 DEF SendFails
  <2> QED
    BY <2>1 DEF BInv
<1>5. CASE Sent(t, p)
  <2>1. p.op = "send" /\ pending' = pending \ {p} /\ UNCHANGED <<at, conns, contested>>
    BY <1>5 DEF Sent, ghosts
  <2>2. Cardinality(Operating') = Cardinality(Operating)
    BY <1>0, <2>1, OperatingAfter
  <2> QED
    BY <1>0, <2>1, <2>2, BudgetStill
<1> QED
  BY <1>1, <1>2, <1>3, <1>4, <1>5 DEF SessionTakes

\* Handlers that start no operation: what they had to start, they have still to start
\* or give up.
LEMMA HandlerBudget ==
  ASSUME IInv, BInv, NEW t \in Threads,
         \/ AcceptLost(t) \/ AcceptFind(t) \/ PrepareSocket(t) \/ ActivateNothing(t) \/ Return(t)
         \/ ReceiveLost(t) \/ ReceiveFind(t) \/ GiveBack(t) \/ Rearm(t)
         \/ DisconnectLost(t) \/ DisconnectFind(t)
         \/ Teardown(t) \/ Deinitialize(t) \/ Erase(t)
         \/ SendChecked(t) \/ SendLost(t)
  PROVE  BInv'
<1>0. /\ TypeOK /\ Exclusive /\ conns \in Nat /\ Cardinality(Operating) \in Nat
  BY OperatingAfter DEF IInv, TypeOK
<1>1. UNCHANGED <<pending, conns, contested>>
  BY DEF AcceptLost, AcceptFind, PrepareSocket, ActivateNothing, Return, ReceiveLost,
         ReceiveFind, GiveBack, Rearm, DisconnectLost, DisconnectFind, Teardown, Deinitialize,
         Erase, SendChecked, SendLost, ghosts
<1>2. \E a : Move(t, a) /\ Load(a) <= Load(at[t])
  <2>1. ASSUME NEW step \in {"giveBack", "teardown", "deinitialize", "erase", "retry",
                             "return", "wsaSend"},
               Go(t, step), at[t].step \in {"send"} => step = "wsaSend",
               Load(at[t]) >= 1 \/ step \in {"return", "wsaSend"}
        PROVE  \E a : Move(t, a) /\ Load(a) <= Load(at[t])
    <3> DEFINE a == At(step, at[t].socket, at[t].ov, at[t].new)
    <3>1. Move(t, a)
      BY <1>0, <2>1, GoMoves DEF Steps, HoldsEntry
    <3>2. a.step = step
      BY DEF At
    <3> HIDE DEF a
    <3>3. Load(a) = IF step \in {"return", "wsaSend"} THEN 0 ELSE 1
      BY <3>2, LoadOf
    <3>4. Load(at[t]) \in 0 .. 2
      BY LoadOf
    <3> QED
      BY <2>1, <3>1, <3>3, <3>4
  <2>2. CASE Move(t, Idle)
    <3>1. Load(Idle) = 0 /\ Load(at[t]) \in 0 .. 2
      BY LoadOf DEF Idle, At
    <3> QED
      BY <2>2, <3>1
  <2>3. CASE AcceptFind(t)
    <3>1. Load(at[t]) = 2
      BY <2>3, LoadOf DEF AcceptFind
    <3> DEFINE a == At("receiveReady", at[t].socket, at[t].ov, Head(pool))
    <3>2. Move(t, a) /\ Load(a) \in 0 .. 2
      BY <2>3, LoadOf DEF AcceptFind
    <3> HIDE DEF a
    <3> QED
      BY <3>1, <3>2
  <2>4. CASE GiveBack(t) \/ Rearm(t) \/ Erase(t)
    <3>1. Load(at[t]) = 1
      BY <2>4, LoadOf DEF GiveBack, Rearm, Erase
    <3>2. \E a : Move(t, a) /\ \/ a.step = "rearm" \/ a.step = "activate"
                               \/ a.step = "receiveReady" /\ a.ov = NoOverlapped
      BY <2>4 DEF GiveBack, Rearm, Erase, At
    <3> PICK a : Move(t, a) /\ \/ a.step = "rearm" \/ a.step = "activate"
                               \/ a.step = "receiveReady" /\ a.ov = NoOverlapped
      BY <3>2
    <3>3. Load(a) = 1
      BY LoadOf
    <3> QED
      BY <3>1, <3>3
  <2>5. CASE \/ PrepareSocket(t) \/ ReceiveFind(t) \/ DisconnectFind(t)
             \/ Teardown(t) \/ Deinitialize(t)
    <3>1. Load(at[t]) = 1 /\ at[t].step # "send"
      BY <2>5, LoadOf DEF PrepareSocket, ReceiveFind, DisconnectFind, Teardown, Deinitialize
    <3> QED
      BY <2>1, <2>5, <3>1 DEF PrepareSocket, ReceiveFind, DisconnectFind, Teardown, Deinitialize
  <2>6. CASE (ActivateNothing(t) /\ Go(t, "return")) \/ SendChecked(t)
    BY <2>1, <2>6 DEF ActivateNothing, SendChecked
  <2> QED
    BY <2>2, <2>3, <2>4, <2>5, <2>6
    DEF AcceptLost, ActivateNothing, Return, ReceiveLost, DisconnectLost, SendLost
<1> PICK a : Move(t, a) /\ Load(a) <= Load(at[t])
  BY <1>2
<1>3. Cardinality(Operating') = Cardinality(Operating)
  BY <1>0, <1>1, OperatingAfter
<1>4. Load(a) \in 0 .. 2 /\ Load(at[t]) \in 0 .. 2
  BY LoadOf
<1> QED
  BY <1>0, <1>1, <1>3, <1>4, BudgetMove

\* Handlers that start an operation: a receive, an accept, a send.
LEMMA StartsBudget ==
  ASSUME IInv, BInv, NEW t \in Threads, ReceiveReady(t) \/ ActivateClient(t) \/ WsaSend(t)
  PROVE  BInv'
<1>0. /\ TypeOK /\ Exclusive /\ conns \in Nat /\ Cardinality(Operating) \in Nat
  BY OperatingAfter DEF IInv, TypeOK
<1>1. conns' = conns /\ contested' = contested
  BY DEF ReceiveReady, ActivateClient, WsaSend, ghosts
<1>2. CASE ReceiveReady(t) \/ ActivateClient(t)
  <2>1. UNCHANGED pending \/ \E p : pending' = pending \cup {p}
    BY <1>2 DEF ReceiveReady, ActivateClient
  <2>2. Cardinality(Operating') <= Cardinality(Operating) + 1 /\ Cardinality(Operating') \in Nat
    <3>1. CASE UNCHANGED pending
      BY <1>0, <3>1, OperatingAfter
    <3>2. ASSUME NEW p, pending' = pending \cup {p}
          PROVE  /\ Cardinality(Operating') <= Cardinality(Operating) + 1
                 /\ Cardinality(Operating') \in Nat
      BY <1>0, <3>2, OperatingAfter
    <3> QED
      BY <2>1, <3>1, <3>2
  <2>3. \E a : Move(t, a) /\ Load(a) + 1 <= Load(at[t])
    <3>1. CASE ReceiveReady(t)
      <4>1. Load(Idle) = 0 /\ \A s, o, n : Load(At("activate", s, o, n)) = 1
        BY LoadOf DEF Idle, At
      <4>2. Load(at[t]) = IF at[t].ov = NoOverlapped THEN 1 ELSE 2
        BY <3>1, LoadOf DEF ReceiveReady
      <4> QED
        BY <3>1, <4>1, <4>2 DEF ReceiveReady
    <3>2. CASE ActivateClient(t)
      <4> DEFINE a == At("return", at[t].socket, at[t].ov, at[t].new)
      <4>1. Move(t, a)
        BY <1>0, <3>2, GoMoves DEF ActivateClient, Steps
      <4>2. Load(a) = 0 /\ Load(at[t]) = 1
        BY <3>2, LoadOf DEF ActivateClient, At
      <4> HIDE DEF a
      <4> QED
        BY <4>1, <4>2
    <3> QED
      BY <1>2, <3>1, <3>2
  <2> PICK a : Move(t, a) /\ Load(a) + 1 <= Load(at[t])
    BY <2>3
  <2>4. Load(a) \in 0 .. 2 /\ Load(at[t]) \in 0 .. 2
    BY LoadOf
  <2> QED
    BY <1>0, <1>1, <2>2, <2>4, BudgetMove
<1>3. CASE WsaSend(t)
  <2>1. \E p : p.op = "send" /\ pending' = pending \cup {p}
    BY <1>3 DEF WsaSend, Operation
  <2>2. Cardinality(Operating') = Cardinality(Operating)
    BY <1>0, <2>1, OperatingAfter
  <2>3. Move(t, Idle) /\ Load(Idle) = 0 /\ Load(at[t]) = 0
    BY <1>3, LoadOf DEF WsaSend, Idle, At
  <2> QED
    BY <1>0, <1>1, <2>2, <2>3, BudgetMove
<1> QED
  BY <1>2, <1>3

LEMMA NextBudget ==
  ASSUME IInv, BInv, [Next]_vars
  PROVE  BInv'
<1>0. /\ TypeOK /\ Exclusive /\ conns \in Nat /\ Cardinality(Operating) \in Nat
  BY OperatingAfter DEF IInv, TypeOK
<1>still. ASSUME UNCHANGED <<pending, at, contested, conns>>
          PROVE  BInv'
  BY <1>0, <1>still, OperatingAfter, BudgetStill
<1>1. ASSUME NEW t \in Sessions, NEW p \in pending, SessionTakes(t, p)
      PROVE  BInv'
  BY <1>1, SessionTakesBudget
<1>2. ASSUME NEW t \in Threads, Handler(t)
      PROVE  BInv'
  <2>1. CASE NullDereference(t)
    BY <2>1, <1>still DEF NullDereference, ghosts
  <2>2. CASE PopStale(t)
    <3>1. PICK a : Move(t, a) /\ a.step = at[t].step /\ a.ov = at[t].ov
      BY <1>0, <2>2, PopStaleStops
    <3>2. Load(a) = Load(at[t]) /\ Load(a) \in 0 .. 2
      BY <3>1, LoadOf DEF Load, LoadOne, LoadTwo
    <3>3. UNCHANGED <<pending, conns, contested>>
      BY <2>2 DEF PopStale, ghosts
    <3>4. Cardinality(Operating') = Cardinality(Operating)
      BY <1>0, <3>3, OperatingAfter
    <3> QED
      BY <1>0, <3>1, <3>2, <3>3, <3>4, BudgetMove
  <2> QED
    BY <1>2, <2>1, <2>2, HandlerBudget, StartsBudget DEF Handler
<1>3. ASSUME NEW t \in EventThreads, NEW s \in Sockets, DisconnectRequest(t, s)
      PROVE  BInv'
  <2>1. contested' # {}
    BY <1>3 DEF DisconnectRequest
  <2> QED
    BY <2>1 DEF BInv
<1>4. ASSUME NEW t \in Senders, NEW s \in Sockets, SendRequest(t, s)
      PROVE  BInv'
  <2> DEFINE a == At("send", s, NoOverlapped, Head(pool))
  <2>1. /\ t \in Threads /\ Move(t, a) /\ a.step = "send" /\ at[t].step = "idle"
        /\ UNCHANGED <<pending, conns, contested>>
    BY <1>4 DEF SendRequest, ghosts, At, Threads, Idle
  <2> HIDE DEF a
  <2>2. Load(a) = 0 /\ Load(at[t]) = 0
    BY <2>1, LoadOf
  <2>3. Cardinality(Operating') = Cardinality(Operating)
    BY <1>0, <2>1, OperatingAfter
  <2> QED
    BY <1>0, <2>1, <2>2, <2>3, BudgetMove
<1>5. CASE UNCHANGED vars
  BY <1>5, <1>still DEF vars
<1> QED
  BY <1>1, <1>2, <1>3, <1>4, <1>5 DEF Next

\* ReadyCount accepts are pending at the start.
LEMMA InitBudget == Init => BInv
<1> SUFFICES ASSUME Init
             PROVE  BInv
  OBVIOUS
<1>1. PICK order \in Orders(Overlappeds, Cardinality(Overlappeds)),
           ready \in Orders(Sockets, ReadyCount) :
        pending = {Operation("accept", ready[i], order[i]) : i \in 1 .. ReadyCount}
  BY DEF Init
<1>2. at = [t \in Threads |-> Idle] /\ conns = 0
  BY DEF Init
<1>3. ReadyCount \in Nat /\ IsFiniteSet(1 .. ReadyCount) /\ Cardinality(1 .. ReadyCount) = ReadyCount
  BY NetworkAssumption, FS_Interval DEF NetworkAssumption
<1> DEFINE f == [i \in 1 .. ReadyCount |-> Operation("accept", ready[i], order[i])]
<1>4. f \in Surjection(1 .. ReadyCount, pending)
  BY <1>1 DEF Surjection
<1>5. IsFiniteSet(pending) /\ Cardinality(pending) <= ReadyCount
  BY <1>3, <1>4, FS_Surjection
<1>6. Operating \in SUBSET pending
  BY DEF Operating, Receiving, Accepting
<1>7. Cardinality(Operating) <= ReadyCount /\ Cardinality(Operating) \in Nat
  <2>1. IsFiniteSet(Operating) /\ Cardinality(Operating) <= Cardinality(pending)
    BY <1>5, <1>6, FS_Subset
  <2> QED
    BY <1>3, <1>5, <2>1, FS_CardinalityType
<1>8. StartsOne = {} /\ StartsTwo = {}
  BY <1>2 DEF StartsOne, StartsTwo, LoadOne, LoadTwo, Attending, Idle, At
<1> QED
  BY <1>2, <1>3, <1>7, <1>8, FS_EmptySet DEF BInv

LEMMA BudgetInvariance == Spec => []BInv
<1>1. Init => BInv
  BY InitBudget
<1>2. Sound /\ BInv /\ [Next]_vars => BInv'
  <2> SUFFICES ASSUME Sound, BInv, [Next]_vars
               PROVE  BInv'
    OBVIOUS
  <2>1. CASE running
    BY <2>1, NextBudget DEF Sound
  <2>2. CASE ~running
    <3>1. UNCHANGED <<pending, at, contested, conns>>
      BY <2>2 DEF Next, vars
    <3>2. Operating' = Operating /\ StartsOne' = StartsOne /\ StartsTwo' = StartsTwo
      BY <3>1 DEF Operating, Receiving, Accepting, StartsOne, StartsTwo
    <3> QED
      BY <3>1, <3>2 DEF BInv
  <2> QED
    BY <2>1, <2>2
<1> QED
  BY <1>1, <1>2, Invariance, PTL DEF Spec

\* What the threads hold is at most an object for each that is busy, and one more for
\* each that has two operations to start.
LEMMA HeldCount ==
  ASSUME IInv
  PROVE  /\ IsFiniteSet(Held)
         /\ Cardinality(Held) <= Cardinality({t \in Threads : at[t] # Idle})
                                   + Cardinality(StartsTwo)
<1> DEFINE Busy == {t \in Threads : at[t] # Idle}
           O == {t \in Threads : at[t].ov # NoOverlapped}
           N == {t \in Threads : at[t].new # NoOverlapped}
           HO == {at[t].ov : t \in O}
           HN == {at[t].new : t \in N}
<1>1. \A t \in Threads : Shape(at[t])
  BY DEF IInv, GoodThreads
<1>2. IsFiniteSet(Threads) /\ O \in SUBSET Threads /\ N \in SUBSET Threads
      /\ Busy \in SUBSET Threads
  BY NetworkAssumption DEF NetworkAssumption
<1>3. IsFiniteSet(O) /\ IsFiniteSet(N) /\ IsFiniteSet(Busy)
  BY <1>2, FS_Subset
<1>4. O \cup N \in SUBSET Busy
  BY DEF Idle, At
<1>5. O \cap N \in SUBSET StartsTwo
  BY <1>1, NetworkAssumption DEF Shape, StartsTwo, LoadTwo, NetworkAssumption
<1>6. IsFiniteSet(HO) /\ Cardinality(HO) <= Cardinality(O)
  <2>1. [t \in O |-> at[t].ov] \in Surjection(O, HO)
    BY DEF Surjection
  <2> QED
    BY <1>3, <2>1, FS_Surjection
<1>7. IsFiniteSet(HN) /\ Cardinality(HN) <= Cardinality(N)
  <2>1. [t \in N |-> at[t].new] \in Surjection(N, HN)
    BY DEF Surjection
  <2> QED
    BY <1>3, <2>1, FS_Surjection
<1>8. Held = HO \cup HN
  BY DEF Held, HeldBy
<1> HIDE DEF O, N, HO, HN, Busy
<1>9. /\ IsFiniteSet(Held) /\ IsFiniteSet(HO \cap HN)
      /\ Cardinality(Held) = Cardinality(HO) + Cardinality(HN) - Cardinality(HO \cap HN)
  BY <1>6, <1>7, <1>8, FS_Union, FS_Intersection
<1>10. Cardinality(O \cup N) = Cardinality(O) + Cardinality(N) - Cardinality(O \cap N)
       /\ IsFiniteSet(O \cup N) /\ IsFiniteSet(O \cap N)
  BY <1>3, FS_Union, FS_Intersection
<1>11. Cardinality(O \cup N) <= Cardinality(Busy)
       /\ Cardinality(O \cap N) <= Cardinality(StartsTwo)
  BY <1>3, <1>4, <1>5, FS_Subset, FiniteLoads
<1>12. /\ Cardinality(HO) \in Nat /\ Cardinality(HN) \in Nat /\ Cardinality(HO \cap HN) \in Nat
       /\ Cardinality(O) \in Nat /\ Cardinality(N) \in Nat /\ Cardinality(O \cap N) \in Nat
       /\ Cardinality(O \cup N) \in Nat /\ Cardinality(Busy) \in Nat
       /\ Cardinality(StartsTwo) \in Nat
  BY <1>3, <1>6, <1>7, <1>9, <1>10, FS_CardinalityType, FiniteLoads
<1>13. Cardinality(Held) <= Cardinality(Busy) + Cardinality(StartsTwo)
  BY <1>6, <1>7, <1>9, <1>10, <1>11, <1>12
<1> QED
  BY <1>9, <1>13 DEF Busy

\* Sharing nothing, the four places have as many objects as there are.
LEMMA PlacesCount ==
  ASSUME NEW A, NEW B, NEW C, NEW D, IsFiniteSet(A), IsFiniteSet(B), IsFiniteSet(C),
         IsFiniteSet(D)
  PROVE  Cardinality(A \cup B \cup C \cup D)
           <= Cardinality(A) + Cardinality(B) + Cardinality(C) + Cardinality(D)
<1>1. ASSUME NEW S, NEW T, IsFiniteSet(S), IsFiniteSet(T)
      PROVE  /\ IsFiniteSet(S \cup T) /\ Cardinality(S \cup T) \in Nat
             /\ Cardinality(S) \in Nat /\ Cardinality(T) \in Nat
             /\ Cardinality(S \cup T) <= Cardinality(S) + Cardinality(T)
  <2>1. IsFiniteSet(S \cup T) /\ IsFiniteSet(S \cap T)
        /\ Cardinality(S \cup T) = Cardinality(S) + Cardinality(T) - Cardinality(S \cap T)
    BY <1>1, FS_Union, FS_Intersection
  <2> QED
    BY <1>1, <2>1, FS_CardinalityType
<1>2. /\ IsFiniteSet(A \cup B) /\ IsFiniteSet(A \cup B \cup C)
  BY <1>1
<1>3. /\ Cardinality(A \cup B) <= Cardinality(A) + Cardinality(B)
      /\ Cardinality(A \cup B \cup C) <= Cardinality(A \cup B) + Cardinality(C)
      /\ Cardinality(A \cup B \cup C \cup D) <= Cardinality(A \cup B \cup C) + Cardinality(D)
      /\ Cardinality(A) \in Nat /\ Cardinality(B) \in Nat /\ Cardinality(C) \in Nat
      /\ Cardinality(D) \in Nat /\ Cardinality(A \cup B) \in Nat
      /\ Cardinality(A \cup B \cup C) \in Nat /\ Cardinality(A \cup B \cup C \cup D) \in Nat
  BY <1>1, <1>2
<1> QED
  BY <1>3

\* While the server runs, and unless a client is disconnected twice, the pool shrinks by no more than one object
\* for each client that has come, one for each busy thread, the sends under way and the
\* objects lost: for any number of sockets, objects and threads, and any failures.  What
\* it does lose for each client is the AcceptEx that every disconnect adds
\* (NetworkManager.cpp lines 192-238 and 344-348).
THEOREM PoolBudgetCorrect == Spec => []PoolBudget
<1>1. Sound /\ BInv => PoolBudget
  <2> SUFFICES ASSUME IInv, BInv, contested = {}
               PROVE  Len(pool) + ReadyCount + conns
                        + Cardinality({t \in Threads : at[t] # Idle})
                        + Cardinality(Sending) + Cardinality(leaked) >= Cardinality(Overlappeds)
    BY DEF PoolBudget, Sound
  <2> DEFINE Busy == {t \in Threads : at[t] # Idle}
  <2>1. /\ TypeOK /\ Exclusive /\ pool \in Seq(Overlappeds) /\ conns \in Nat
        /\ leaked \in SUBSET Overlappeds
    BY DEF IInv, TypeOK
  <2>2. Cardinality(Operating) + Cardinality(StartsOne) + Cardinality(StartsTwo)
          <= ReadyCount + conns
    BY DEF BInv
  <2>3. IsFiniteSet(Pooled) /\ Cardinality(Pooled) <= Len(pool) /\ Len(pool) \in Nat
    <3>1. Len(pool) \in Nat /\ pool \in Surjection(1 .. Len(pool), Pooled)
      BY <2>1 DEF Surjection, Pooled
    <3>2. IsFiniteSet(1 .. Len(pool)) /\ Cardinality(1 .. Len(pool)) = Len(pool)
      BY <3>1, FS_Interval
    <3> QED
      BY <3>1, <3>2, FS_Surjection
  <2>4. /\ IsFiniteSet(InKernel) /\ IsFiniteSet(pending)
        /\ IsFiniteSet(Operating) /\ IsFiniteSet(Sending)
        /\ Cardinality(InKernel) <= Cardinality(pending)
        /\ Cardinality(pending) <= Cardinality(Operating) + Cardinality(Sending)
    BY <2>1, FiniteOperations
  <2>5. /\ IsFiniteSet(Held) /\ IsFiniteSet(Busy)
        /\ Cardinality(Held) <= Cardinality(Busy) + Cardinality(StartsTwo)
    <3>1. Busy \in SUBSET Threads /\ IsFiniteSet(Threads)
      BY NetworkAssumption DEF NetworkAssumption
    <3> QED
      BY <3>1, HeldCount, FS_Subset
  <2>6. IsFiniteSet(leaked)
    BY <2>1, FS_Subset, NetworkAssumption DEF NetworkAssumption
  <2>7. Overlappeds = Pooled \cup InKernel \cup Held \cup leaked
    BY <2>1 DEF Exclusive
  <2> HIDE DEF Busy
  <2>8. Cardinality(Overlappeds) <= Cardinality(Pooled) + Cardinality(InKernel)
                                      + Cardinality(Held) + Cardinality(leaked)
    BY <2>3, <2>4, <2>5, <2>6, <2>7, PlacesCount
  <2>9. /\ Cardinality(Overlappeds) \in Nat /\ ReadyCount \in Nat
        /\ Cardinality(Pooled) \in Nat /\ Cardinality(InKernel) \in Nat
        /\ Cardinality(pending) \in Nat
        /\ Cardinality(Operating) \in Nat /\ Cardinality(Sending) \in Nat
        /\ Cardinality(Held) \in Nat /\ Cardinality(Busy) \in Nat /\ Cardinality(leaked) \in Nat
        /\ Cardinality(StartsOne) \in Nat /\ Cardinality(StartsTwo) \in Nat
    BY <2>3, <2>4, <2>5, <2>6, FS_CardinalityType, FiniteLoads, NetworkAssumption
    DEF NetworkAssumption
  <2>10. Len(pool) + ReadyCount + conns + Cardinality(Busy)
           + Cardinality(Sending) + Cardinality(leaked) >= Cardinality(Overlappeds)
    <3> DEFINE all == Cardinality(Overlappeds)
               len == Len(pool)
               out == Cardinality(Operating)
               sends == Cardinality(Sending)
               busy == Cardinality(Busy)
               two == Cardinality(StartsTwo)
               lost == Cardinality(leaked)
               bound == ReadyCount + conns
               kernel == Cardinality(InKernel)
               held == Cardinality(Held)
    <3>1. kernel <= out + sends
      BY <2>4, <2>9
    <3>2. held <= busy + two
      BY <2>5
    <3>3. all <= len + kernel + held + lost
      BY <2>3, <2>8, <2>9
    <3>4. out + two <= bound
      BY <2>1, <2>2, <2>9
    <3>5. /\ all \in Nat /\ len \in Nat /\ out \in Nat /\ sends \in Nat /\ busy \in Nat
          /\ two \in Nat /\ lost \in Nat /\ bound \in Nat
          /\ kernel \in Nat /\ held \in Nat
      BY <2>1, <2>3, <2>9
    <3>6. len + bound + busy + sends + lost >= all
      <4> HIDE DEF all, len, out, sends, busy, two, lost, bound, kernel, held
      <4> QED
        BY <3>1, <3>2, <3>3, <3>4, <3>5
    <3> QED
      BY <2>1, <2>3, <2>9, <3>6
  <2> QED
    BY <2>10 DEF Busy
<1> QED
  BY <1>1, Invariance, BudgetInvariance, PTL
=============================================================================
