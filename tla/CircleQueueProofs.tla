------------------------- MODULE CircleQueueProofs -------------------------
(***************************************************************************)
(* Proofs about CircleQueue for every queue length, every set of items and *)
(* any producer and consumer threads.  Two pushes that overlap may lose an *)
(* item (run `shared`), so what is proved of the contents holds until the  *)
(* first two calls of one end overlap.                                     *)
(***************************************************************************)
EXTENDS CircleQueue, SequenceTheorems, TLAPS

\* % on the indices the code computes, which are below 2 * N.
LEMMA Wrap ==
  ASSUME NEW a \in 0 .. 2 * N - 1
  PROVE  a % N = IF a < N THEN a ELSE a - N
  BY CircleQueueAssumption

\* The slot k - 1 places behind slot i.
SlotAt(i, k) == IF i + k - 1 < N THEN i + k - 1 ELSE i + k - 1 - N

LEMMA SlotAtWraps ==
  ASSUME NEW i \in Slots, NEW k \in 1 .. N
  PROVE  /\ (i + k - 1) % N = SlotAt(i, k)
         /\ SlotAt(i, k) \in Slots
<1> DEFINE a == i + k - 1
<1>1. a \in 0 .. 2 * N - 1 /\ N \in Nat \ {0}
  BY CircleQueueAssumption DEF Slots
<1> HIDE DEF a
<1>2. a % N = (IF a < N THEN a ELSE a - N) /\ a % N \in 0 .. N - 1
  BY <1>1, Wrap
<1> QED
  BY <1>1, <1>2 DEF a, SlotAt, Slots

\* The index after the last slot is slot 0 (push() line 40, pop() line 64).
LEMMA NextIndexWraps ==
  ASSUME NEW i \in Slots
  PROVE  /\ NextIndex(i) \in Slots
         /\ NextIndex(i) = IF i = N - 1 THEN 0 ELSE i + 1
<1>1. i + 1 \in 0 .. 2 * N - 1 /\ N \in Nat \ {0} /\ i \in 0 .. N - 1
  BY CircleQueueAssumption DEF Slots
<1>2. NextIndex(i) = IF i + 1 < N THEN i + 1 ELSE i + 1 - N
  BY <1>1, Wrap DEF NextIndex
<1> QED
  BY <1>1, <1>2 DEF Slots

-----------------------------------------------------------------------------
(* How the occupied slots change *)

LEMMA CountBounds ==
  ASSUME TypeOK
  PROVE  /\ Count \in 0 .. N - 1
         /\ \A i \in Slots : Distance(i) \in 0 .. N - 1
         /\ \A i, j \in Slots : Distance(i) = Distance(j) => i = j
         /\ (Count = N - 1) <=> (NextIndex(inputIndex) = outputIndex)
         /\ (Count = 0) <=> (inputIndex = outputIndex)
<1>1. inputIndex \in 0 .. N - 1 /\ outputIndex \in 0 .. N - 1 /\ N \in Nat \ {0}
  BY CircleQueueAssumption DEF TypeOK, Slots
<1>2. NextIndex(inputIndex) = IF inputIndex = N - 1 THEN 0 ELSE inputIndex + 1
  BY NextIndexWraps DEF TypeOK
<1> QED
  BY <1>1, <1>2 DEF Count, Distance, Slots

\* push() makes one more slot occupied, the one it wrote.
LEMMA PushOccupies ==
  ASSUME TypeOK, NextIndex(inputIndex) # outputIndex,
         inputIndex' = NextIndex(inputIndex), outputIndex' = outputIndex
  PROVE  /\ Count' = Count + 1
         /\ Distance(inputIndex) = Count
         /\ inputIndex \notin Occupied
         /\ Occupied' = Occupied \cup {inputIndex}
         /\ \A i \in Slots : Distance(i)' = Distance(i)
<1>1. inputIndex \in 0 .. N - 1 /\ outputIndex \in 0 .. N - 1 /\ N \in Nat \ {0}
  BY CircleQueueAssumption DEF TypeOK, Slots
<1>2. inputIndex' = IF inputIndex = N - 1 THEN 0 ELSE inputIndex + 1
  BY NextIndexWraps DEF TypeOK
<1>3. inputIndex' # outputIndex
  OBVIOUS
<1>4. /\ Count' = Count + 1
      /\ Distance(inputIndex) = Count
      /\ \A i \in Slots : Distance(i)' = Distance(i)
  BY <1>1, <1>2, <1>3 DEF Count, Distance, Slots
<1>5. \A i \in Slots : Distance(i) = Count => i = inputIndex
  BY <1>1 DEF Count, Distance, Slots
<1>6. Count \in Nat /\ \A i \in Slots : Distance(i) \in Nat
  BY CountBounds
<1>7. \A i \in Slots : Distance(i)' < Count' <=> (Distance(i) < Count \/ i = inputIndex)
  BY <1>4, <1>5, <1>6
<1> QED
  BY <1>1, <1>4, <1>6, <1>7 DEF Occupied, Slots

\* pop() frees one slot, the oldest, and every other item moves up by one.
LEMMA PopFrees ==
  ASSUME TypeOK, outputIndex # inputIndex,
         outputIndex' = NextIndex(outputIndex), inputIndex' = inputIndex
  PROVE  /\ Count' = Count - 1
         /\ outputIndex \in Occupied
         /\ Occupied' = Occupied \ {outputIndex}
         /\ \A i \in Occupied' : Distance(i)' = Distance(i) - 1
<1>1. inputIndex \in 0 .. N - 1 /\ outputIndex \in 0 .. N - 1 /\ N \in Nat \ {0}
  BY CircleQueueAssumption DEF TypeOK, Slots
<1>2. outputIndex' = IF outputIndex = N - 1 THEN 0 ELSE outputIndex + 1
  BY NextIndexWraps DEF TypeOK
<1>3. Count' = Count - 1 /\ Distance(outputIndex) = 0 /\ 0 < Count
  BY <1>1, <1>2 DEF Count, Distance
<1>4. \A i \in Slots : IF i = outputIndex THEN Distance(i)' = N - 1
                                         ELSE Distance(i)' = Distance(i) - 1
  BY <1>1, <1>2 DEF Distance, Slots
<1>5. Count \in 0 .. N - 1 /\ \A i \in Slots : Distance(i) \in Nat
  BY CountBounds
<1>6. \A i \in Slots : Distance(i)' < Count' <=> (Distance(i) < Count /\ i # outputIndex)
  BY <1>1, <1>3, <1>4, <1>5
<1> QED
  BY <1>1, <1>3, <1>4, <1>6 DEF Occupied, Slots

-----------------------------------------------------------------------------
(* Types, for any number of producers and consumers *)

\* A push() in progress carries an item.
PushCarriesItem == \A t \in Threads : pc[t] \in PushSteps => item[t] \in Values

TypeInv == TypeOK /\ PushCarriesItem

LEMMA InitTypeInv == Init => TypeInv
<1>1. Init => overlapped \in BOOLEAN
  BY DEF Init
<1> QED
  BY <1>1, CircleQueueAssumption
  DEF Init, TypeInv, PushCarriesItem, TypeOK, Slots, Result, PushSteps

LEMMA NextTypeInv == TypeInv /\ [Next]_vars => TypeInv'
<1> SUFFICES ASSUME TypeInv, [Next]_vars
             PROVE  TypeInv'
  OBVIOUS
<1>b. overlapped' \in BOOLEAN
  BY DEF TypeInv, TypeOK, Next, vars
<1> USE DEF TypeInv, TypeOK, PushCarriesItem, Goto, Result, PushSteps, PopSteps, SizeSteps
<1>0. \A i \in Slots : NextIndex(i) \in Slots
  BY NextIndexWraps
<1>1. ASSUME NEW t \in Threads, Push(t)
      PROVE  TypeInv'
  <2>1. ASSUME NEW v \in Values, PushLoadInput(t, v)
        PROVE  TypeInv'
    BY <1>b, <2>1 DEF PushLoadInput
  <2>2. CASE PushFull(t)
    BY <1>b, <2>2 DEF PushFull
  <2>3. CASE PushRoom(t)
    BY <1>b, <2>3 DEF PushRoom
  <2>4. CASE PushWrite(t)
    BY <1>b, <2>4 DEF PushWrite
  <2>5. CASE PushStoreInput(t)
    BY <1>0, <1>b, <2>5 DEF PushStoreInput
  <2> QED
    BY <1>1, <2>1, <2>2, <2>3, <2>4, <2>5 DEF Push
<1>2. ASSUME NEW t \in Threads, Pop(t)
      PROVE  TypeInv'
  <2>1. CASE PopLoadOutput(t)
    BY <1>b, <2>1 DEF PopLoadOutput
  <2>2. CASE PopEmpty(t)
    BY <1>b, <2>2 DEF PopEmpty
  <2>3. CASE PopFound(t)
    BY <1>b, <2>3 DEF PopFound
  <2>4. CASE PopRead(t)
    BY <1>b, <2>4 DEF PopRead, Readable
  <2>5. CASE PopStoreOutput(t)
    BY <1>0, <1>b, <2>5 DEF PopStoreOutput
  <2> QED
    BY <1>2, <2>1, <2>2, <2>3, <2>4, <2>5 DEF Pop
<1>3. ASSUME NEW t \in Threads, Size(t)
      PROVE  TypeInv'
  <2>0. /\ \A i \in Slots : i - outputIndex \in Int /\ N - outputIndex + i \in Int
    BY CircleQueueAssumption DEF Slots
  <2>1. CASE SizeLoadInput(t)
    BY <1>b, <2>1 DEF SizeLoadInput
  <2>2. CASE SizeStraight(t)
    BY <1>b, <2>0, <2>2 DEF SizeStraight
  <2>3. CASE SizeWrapped(t)
    BY <1>b, <2>3 DEF SizeWrapped
  <2>4. CASE SizeReloadOutput(t)
    BY <1>b, <2>0, <2>4 DEF SizeReloadOutput
  <2> QED
    BY <1>3, <2>1, <2>2, <2>3, <2>4 DEF Size
<1>4. CASE UNCHANGED vars
  BY <1>b, <1>4 DEF vars
<1> QED
  BY <1>1, <1>2, <1>3, <1>4 DEF Next, Threads

\* Every variable keeps its type, however many threads push and pop: the racing
\* threads of the servers lose items, never the bounds of the indices.
THEOREM TypeCorrect == Spec => []TypeOK
<1>1. Init => TypeInv
  BY InitTypeInv
<1>2. TypeInv /\ [Next]_vars => TypeInv'
  BY NextTypeInv
<1>3. TypeInv => TypeOK
  BY DEF TypeInv
<1> QED
  BY <1>1, <1>2, <1>3, PTL DEF Spec

-----------------------------------------------------------------------------
(* The inductive invariant until two calls of one end overlap *)

LEMMA InitApart == Init => Apart
  BY DEF Init, Apart, Threads, PushSteps, PopSteps, SizeSteps

LEMMA InitIInv == Init => IInv
<1> SUFFICES ASSUME Init PROVE IInv
  OBVIOUS
<1>1. TypeOK
  BY InitTypeInv DEF TypeInv
<1>2. Occupied = {} /\ Count = 0
  BY <1>1, CountBounds DEF Init, Occupied
<1> QED
  BY <1>1, <1>2, InitApart DEF Init, IInv, PushInv, PopInv, SizeInv, MovedInv, NothingLost,
                    PushSteps, PopSteps, SizeSteps

\* The steps that leave the indices, the slots and `stored` alone.
LEMMA QuietStep ==
  ASSUME IInv, TypeOK', UNCHANGED <<inputIndex, outputIndex, buffer, moved, stored>>
  PROVE  /\ NothingLost'
         /\ Count' = Count
         /\ Occupied' = Occupied
         /\ \A i \in Slots : Distance(i)' = Distance(i)
<1>1. Count' = Count /\ \A i \in Slots : Distance(i)' = Distance(i)
  BY DEF Count, Distance
<1>2. Occupied' = Occupied
  BY <1>1 DEF Occupied
<1> QED
  BY <1>1, <1>2 DEF IInv, NothingLost

LEMMA PushIInv ==
  ASSUME IInv, TypeOK', Apart', NEW t \in Producers, Push(t)
  PROVE  IInv'
<1> USE DEF PushSteps, PopSteps, SizeSteps, Goto
<1>0. /\ TypeOK /\ t \in Threads /\ inputIndex \in Slots /\ outputIndex \in Slots
      /\ pc[t] \in PushSteps => \A u \in Threads \ {t} : pc[u] \notin PushSteps
  BY DEF IInv, TypeOK, Threads, Apart
<1>1. ASSUME NEW v \in Values, PushLoadInput(t, v)
      PROVE  IInv'
  <2>1. UNCHANGED <<inputIndex, outputIndex, buffer, moved, stored>>
    BY <1>1 DEF PushLoadInput
  <2>2. PushInv' /\ PopInv' /\ SizeInv' /\ MovedInv'
    BY <1>0, <1>1, <2>1, QuietStep
    DEF PushLoadInput, IInv, PushInv, PopInv, SizeInv, MovedInv, TypeOK
  <2> QED
    BY <2>1, <2>2, QuietStep DEF IInv
<1>2. CASE PushFull(t) \/ PushRoom(t)
  <2>1. UNCHANGED <<inputIndex, outputIndex, buffer, moved, stored>>
    BY <1>2 DEF PushFull, PushRoom
  <2>2. PushInv' /\ PopInv' /\ SizeInv' /\ MovedInv'
    BY <1>0, <1>2, <2>1, QuietStep
    DEF PushFull, PushRoom, IInv, PushInv, PopInv, SizeInv, MovedInv, TypeOK
  <2> QED
    BY <2>1, <2>2, QuietStep DEF IInv
<1>3. CASE PushWrite(t)
  <2>1. idx[t] = inputIndex /\ inputIndex \notin Occupied
    BY <1>0, <1>3, CountBounds DEF PushWrite, IInv, PushInv, Occupied, Count
  <2>2. Count' = Count /\ Occupied' = Occupied /\ \A i \in Slots : Distance(i)' = Distance(i)
    BY <1>3 DEF PushWrite, Count, Distance, Occupied
  <2>3. \A i \in Occupied : buffer'[i] = buffer[i]
    BY <1>0, <1>3, <2>1 DEF PushWrite, TypeOK, Occupied
  <2>4. NothingLost' /\ MovedInv'
    BY <1>0, <1>3, <2>1, <2>2, <2>3 DEF PushWrite, IInv, NothingLost, MovedInv, TypeOK
  <2>5. PopInv'
    BY <1>0, <1>3, <2>1 DEF PushWrite, IInv, PopInv, TypeOK
  <2>6. PushInv'
    BY <1>0, <1>3, <2>1 DEF PushWrite, IInv, PushInv, TypeOK
  <2>7. SizeInv'
    BY <1>0, <1>3, <2>2 DEF PushWrite, IInv, SizeInv, TypeOK
  <2> QED
    BY <2>4, <2>5, <2>6, <2>7 DEF IInv
<1>4. CASE PushStoreInput(t)
  <2>1. /\ idx[t] = inputIndex /\ NextIndex(inputIndex) # outputIndex
        /\ buffer[inputIndex] = item[t] /\ inputIndex \notin moved
        /\ item[t] \in Values \ stored
    BY <1>0, <1>4 DEF PushStoreInput, IInv, PushInv
  <2>2. inputIndex' = NextIndex(inputIndex) /\ UNCHANGED <<outputIndex, buffer, moved, idx>>
    BY <1>4, <2>1 DEF PushStoreInput
  <2>3. /\ Count' = Count + 1 /\ inputIndex \notin Occupied
        /\ Occupied' = Occupied \cup {inputIndex}
        /\ \A i \in Slots : Distance(i)' = Distance(i)
    BY <1>0, <2>1, <2>2, PushOccupies
  <2>4. NothingLost'
    <3>1. stored' = stored \cup {buffer[inputIndex]} /\ buffer[inputIndex] \notin stored
      BY <1>4, <2>1 DEF PushStoreInput
    <3> QED
      BY <2>2, <2>3, <3>1 DEF IInv, NothingLost
  <2>5. MovedInv'
    BY <1>0, <1>4, <2>1, <2>2, <2>3 DEF PushStoreInput, IInv, MovedInv, TypeOK
  <2>6. PopInv'
    <3>1. inputIndex' # outputIndex
      BY <2>1, <2>2
    <3> QED
      BY <1>0, <1>4, <2>2, <3>1 DEF PushStoreInput, IInv, PopInv, TypeOK
  <2>7. PushInv'
    BY <1>0, <1>4, <2>2 DEF PushStoreInput, IInv, PushInv, TypeOK
  <2>8. SizeInv'
    <3>1. Count \in Int /\ \A i \in Slots : Distance(i) \in Int
      BY <1>0, CountBounds
    <3> QED
      BY <1>0, <1>4, <2>2, <2>3, <3>1 DEF PushStoreInput, IInv, SizeInv, TypeOK
  <2> QED
    BY <2>4, <2>5, <2>6, <2>7, <2>8 DEF IInv
<1> QED
  BY <1>1, <1>2, <1>3, <1>4 DEF Push

LEMMA PopIInv ==
  ASSUME IInv, TypeOK', Apart', NEW t \in Consumers, Pop(t)
  PROVE  IInv'
<1> USE DEF PushSteps, PopSteps, SizeSteps, Goto
<1>0. /\ TypeOK /\ t \in Threads /\ inputIndex \in Slots /\ outputIndex \in Slots
      /\ pc[t] \in PopSteps =>
           \A u \in Threads \ {t} : pc[u] \notin PopSteps \cup SizeSteps
  BY DEF IInv, TypeOK, Threads, Apart
<1>1. CASE PopLoadOutput(t) \/ PopEmpty(t) \/ PopFound(t)
  <2>1. UNCHANGED <<inputIndex, outputIndex, buffer, moved, stored>>
    BY <1>1 DEF PopLoadOutput, PopEmpty, PopFound
  <2>2. PushInv' /\ PopInv' /\ SizeInv' /\ MovedInv'
    BY <1>0, <1>1, <2>1, QuietStep
    DEF PopLoadOutput, PopEmpty, PopFound, IInv, PushInv, PopInv, SizeInv, MovedInv, TypeOK
  <2> QED
    BY <2>1, <2>2, QuietStep DEF IInv
<1>2. CASE PopRead(t)
  <2>1. /\ idx[t] = outputIndex /\ outputIndex # inputIndex
        /\ \A u \in Threads : pc[u] # "popStore"
    BY <1>0, <1>2 DEF PopRead, IInv, PopInv
  <2>2. Count' = Count /\ Occupied' = Occupied /\ \A i \in Slots : Distance(i)' = Distance(i)
    BY <1>2 DEF PopRead, Count, Distance, Occupied
  <2>3. outputIndex \in Occupied
    <3>1. outputIndex \in 0 .. N - 1 /\ inputIndex \in 0 .. N - 1 /\ N \in Nat
      BY <1>0, CircleQueueAssumption DEF Slots
    <3> QED
      BY <1>0, <2>1, <3>1 DEF Occupied, Count, Distance
  <2>4. outputIndex \notin moved /\ item'[t] = buffer[outputIndex]
    <3>1. outputIndex \notin moved
      BY <2>1, <2>3 DEF IInv, MovedInv
    <3> QED
      BY <1>0, <1>2, <2>1, <3>1 DEF PopRead, Readable, TypeOK
  <2>5. NothingLost'
    BY <1>2, <2>2 DEF PopRead, IInv, NothingLost
  <2>6. MovedInv'
    BY <1>0, <1>2, <2>1, <2>2 DEF PopRead, IInv, MovedInv, TypeOK
  <2>7. PopInv'
    BY <1>0, <1>2, <2>1, <2>4 DEF PopRead, IInv, PopInv, TypeOK
  <2>8. PushInv'
    BY <1>0, <1>2, <2>1 DEF PopRead, IInv, PushInv, TypeOK
  <2>9. SizeInv'
    BY <1>0, <1>2, <2>2 DEF PopRead, IInv, SizeInv, TypeOK
  <2> QED
    BY <2>5, <2>6, <2>7, <2>8, <2>9 DEF IInv
<1>3. CASE PopStoreOutput(t)
  <2>1. /\ idx[t] = outputIndex /\ outputIndex # inputIndex
        /\ item[t] = buffer[outputIndex]
    BY <1>0, <1>3 DEF PopStoreOutput, IInv, PopInv
  <2>2. outputIndex' = NextIndex(outputIndex) /\ UNCHANGED <<inputIndex, buffer, moved, idx>>
    BY <1>3, <2>1 DEF PopStoreOutput
  <2>3. /\ Count' = Count - 1 /\ outputIndex \in Occupied
        /\ Occupied' = Occupied \ {outputIndex}
    BY <1>0, <2>1, <2>2, PopFrees
  <2>4. NothingLost'
    <3>1. stored' = stored \ {buffer[outputIndex]}
      BY <1>3, <2>1 DEF PopStoreOutput
    <3> QED
      BY <2>2, <2>3, <3>1 DEF IInv, NothingLost
  <2>5. MovedInv'
    BY <1>0, <1>3, <2>2, <2>3 DEF PopStoreOutput, IInv, MovedInv, TypeOK
  <2>6. PopInv'
    BY <1>0, <1>3, <2>2 DEF PopStoreOutput, IInv, PopInv, TypeOK
  <2>7. PushInv'
    <3>1. ASSUME NextIndex(inputIndex) # outputIndex
          PROVE  NextIndex(inputIndex) # outputIndex'
      <4>1. /\ inputIndex \in 0 .. N - 1 /\ outputIndex \in 0 .. N - 1 /\ N \in Nat \ {0}
            /\ NextIndex(inputIndex) = IF inputIndex = N - 1 THEN 0 ELSE inputIndex + 1
            /\ NextIndex(outputIndex) = IF outputIndex = N - 1 THEN 0 ELSE outputIndex + 1
        BY <1>0, CircleQueueAssumption, NextIndexWraps DEF Slots
      <4> QED
        BY <2>1, <2>2, <4>1
    <3>2. stored' \subseteq stored
      BY <1>3 DEF PopStoreOutput
    <3>3. NextIndex(inputIndex') = NextIndex(inputIndex)
      BY <2>2
    <3> QED
      BY <1>0, <1>3, <2>2, <3>1, <3>2, <3>3 DEF PopStoreOutput, IInv, PushInv, TypeOK
  <2>8. SizeInv'
    BY <1>0, <1>3, <2>2 DEF PopStoreOutput, IInv, SizeInv, TypeOK
  <2> QED
    BY <2>4, <2>5, <2>6, <2>7, <2>8 DEF IInv
<1> QED
  BY <1>1, <1>2, <1>3 DEF Pop

LEMMA SizeIInv ==
  ASSUME IInv, TypeOK', Apart', NEW t \in Consumers, Size(t)
  PROVE  IInv'
<1> USE DEF PushSteps, PopSteps, SizeSteps, Goto
<1>0. TypeOK /\ t \in Threads
  BY DEF IInv, Threads
<1>1. UNCHANGED <<inputIndex, outputIndex, buffer, moved, stored>>
  BY DEF Size, SizeLoadInput, SizeStraight, SizeWrapped, SizeReloadOutput
<1>2. Count \in Int /\ Count = Distance(inputIndex)
  BY <1>0, CountBounds DEF Count
<1>3. PushInv' /\ PopInv' /\ MovedInv'
  BY <1>0, <1>1, QuietStep
  DEF Size, SizeLoadInput, SizeStraight, SizeWrapped, SizeReloadOutput,
      IInv, PushInv, PopInv, MovedInv, TypeOK
<1>4. SizeInv'
  BY <1>0, <1>1, <1>2, QuietStep
  DEF Size, SizeLoadInput, SizeStraight, SizeWrapped, SizeReloadOutput, IInv, SizeInv, TypeOK
<1> QED
  BY <1>1, <1>3, <1>4, QuietStep DEF IInv

LEMMA NextIInv ==
  ASSUME IInv, Apart', [Next]_vars
  PROVE  IInv'
<1>1. TypeOK'
  <2>1. TypeInv
    BY DEF IInv, TypeInv, PushInv, PushCarriesItem
  <2> QED
    BY <2>1, NextTypeInv DEF TypeInv
<1>2. CASE UNCHANGED vars
  BY <1>1, <1>2, QuietStep DEF vars, IInv, PushInv, PopInv, SizeInv, MovedInv, TypeOK
<1> QED
  BY <1>1, <1>2, PushIInv, PopIInv, SizeIInv DEF Next

\* Calls that have not overlapped so far did not overlap before.
LEMMA OrderlyBefore ==
  [Next]_vars /\ ~overlapped' => ~overlapped /\ (Apart' \/ UNCHANGED vars)
<1>1. Next => (overlapped' <=> (overlapped \/ ~Apart'))
  BY Zenon DEF Next
<1>2. UNCHANGED vars => overlapped' = overlapped
  BY DEF vars
<1> QED
  BY <1>1, <1>2

LEMMA Invariance == Spec => []Orderly
<1>1. Init => Orderly
  BY InitIInv DEF Orderly
<1>2. Orderly /\ [Next]_vars => Orderly'
  <2> SUFFICES ASSUME Orderly, [Next]_vars, ~overlapped'
               PROVE  IInv'
    BY DEF Orderly
  <2>1. IInv /\ (Apart' \/ UNCHANGED vars)
    BY OrderlyBefore DEF Orderly
  <2>2. Apart'
    BY <2>1 DEF IInv, Apart, vars
  <2> QED
    BY <2>1, <2>2, NextIInv
<1> QED
  BY <1>1, <1>2, PTL DEF Spec

\* Whatever threads push and pop, until two calls of one end overlap every
\* accepted item stays in exactly one occupied slot until pop() returns it.
THEOREM NothingLostCorrect == Spec => [](~overlapped => NothingLost)
<1>1. Orderly => (~overlapped => NothingLost)
  BY DEF Orderly, IInv
<1> QED
  BY <1>1, Invariance, PTL

\* Whatever threads push and pop, until two calls of one end overlap the slot
\* push() is about to write is never one that pop() is about to read.
THEOREM NoSlotRaceCorrect == Spec => [](~overlapped => NoSlotRace)
<1>1. Orderly => (~overlapped => NoSlotRace)
  <2> SUFFICES ASSUME IInv, NEW t \in Threads, NEW u \in Threads, t # u,
                      pc[t] = "pushWrite", pc[u] \in {"pushWrite", "popRead"}
               PROVE  idx[t] # idx[u]
    BY DEF Orderly, NoSlotRace
  <2>1. pc[u] = "popRead"
    BY DEF IInv, Apart, PushSteps
  <2>2. idx[t] = inputIndex
    BY DEF IInv, PushInv, PushSteps
  <2>3. idx[u] = outputIndex /\ outputIndex # inputIndex
    BY <2>1 DEF IInv, PopInv, PopSteps
  <2> QED
    BY <2>2, <2>3
<1> QED
  BY <1>1, Invariance, PTL

\* The calls of one producer and one consumer never overlap: for them the
\* theorems of this module hold without a condition.
THEOREM OneEachNeverOverlaps ==
  ASSUME SingleProducer, SingleConsumer
  PROVE  Spec => []~overlapped
<1> DEFINE Roles == /\ ~overlapped
                    /\ pc \in [Threads -> {"idle"} \cup PushSteps \cup PopSteps \cup SizeSteps]
                    /\ \A t \in Threads :
                         /\ pc[t] \in PushSteps => t \in Producers
                         /\ pc[t] \in PopSteps \cup SizeSteps => t \in Consumers
<1> USE DEF PushSteps, PopSteps, SizeSteps
<1>1. Init => Roles
  BY DEF Init
<1>2. Roles /\ [Next]_vars => Roles'
  <2> SUFFICES ASSUME Roles, [Next]_vars PROVE Roles'
    OBVIOUS
  <2>1. CASE UNCHANGED vars
    BY <2>1 DEF vars
  <2>2. CASE Next
    <3>1. \E t \in Threads, step \in {"idle"} \cup PushSteps \cup PopSteps \cup SizeSteps :
            /\ pc' = [pc EXCEPT ![t] = step]
            /\ step \in PushSteps => t \in Producers
            /\ step \in PopSteps \cup SizeSteps => t \in Consumers
      BY <2>2 DEF Next, Goto, Threads, Push, PushLoadInput, PushFull, PushRoom, PushWrite,
                  PushStoreInput, Pop, PopLoadOutput, PopEmpty, PopFound, PopRead,
                  PopStoreOutput, Size, SizeLoadInput, SizeStraight, SizeWrapped,
                  SizeReloadOutput
    <3>2. /\ pc' \in [Threads -> {"idle"} \cup PushSteps \cup PopSteps \cup SizeSteps]
          /\ \A t \in Threads :
               /\ pc'[t] \in PushSteps => t \in Producers
               /\ pc'[t] \in PopSteps \cup SizeSteps => t \in Consumers
      BY <3>1
    <3>3. Apart'
      BY <3>2 DEF Apart, SingleProducer, SingleConsumer
    <3> QED
      BY <2>2, <3>2, <3>3 DEF Next
  <2> QED
    BY <2>1, <2>2
<1> QED
  BY <1>1, <1>2, PTL DEF Spec

-----------------------------------------------------------------------------
(* Refinement of the bounded FIFO queue *)

\* The items between the two indices, oldest first, as a sequence.
ContentsOK == /\ Count \in Nat
              /\ Contents \in Seq(Values \cup {NoItem})
              /\ Len(Contents) = Count
              /\ \A k \in 1 .. Count :
                    Contents[k] = buffer[SlotAt(outputIndex, k)]

LEMMA ContentsSeq == TypeOK => ContentsOK
<1> SUFFICES ASSUME TypeOK PROVE ContentsOK
  OBVIOUS
<1>1. /\ outputIndex \in Slots /\ Count \in 0 .. N - 1 /\ N \in Nat \ {0}
      /\ buffer \in [Slots -> Values \cup {NoItem}]
  BY CountBounds, CircleQueueAssumption DEF TypeOK
<1>2. \A k \in 1 .. Count : /\ (outputIndex + k - 1) % N = SlotAt(outputIndex, k)
                            /\ SlotAt(outputIndex, k) \in Slots
  <2>1. \A k \in 1 .. Count : k \in 1 .. N
    BY <1>1
  <2> QED
    BY <1>1, <2>1, SlotAtWraps
<1>3. /\ Contents \in [1 .. Count -> Values \cup {NoItem}]
      /\ \A k \in 1 .. Count : Contents[k] = buffer[SlotAt(outputIndex, k)]
  BY <1>1, <1>2 DEF Contents
<1> QED
  BY <1>1, <1>3 DEF ContentsOK

LEMMA ContentsSeqNext == TypeOK' => ContentsOK'
  BY ContentsSeq, PTL

LEMMA SameContents ==
  ASSUME UNCHANGED <<inputIndex, outputIndex, buffer>>
  PROVE  Contents' = Contents /\ Count' = Count
<1>1. Count' = Count
  BY DEF Count, Distance
<1> QED
  BY <1>1 DEF Contents

\* A step of push() is a step of the FIFO queue or invisible to it.
LEMMA PushImplements ==
  ASSUME IInv, IInv', NEW t \in Producers, Push(t)
  PROVE  [Fifo!FifoNext]_(Fifo!fvars)
<1> USE DEF PushSteps, Result, Fifo!Result
<1>0. /\ TypeOK /\ TypeOK' /\ ContentsOK /\ ContentsOK' /\ t \in Threads
      /\ N \in Nat \ {0}
  BY ContentsSeq, ContentsSeqNext, CircleQueueAssumption DEF IInv, Threads
<1>1. ASSUME \/ \E v \in Values : PushLoadInput(t, v)
             \/ PushRoom(t)
      PROVE  UNCHANGED Fifo!fvars
  BY <1>1, SameContents DEF PushLoadInput, PushRoom, Fifo!fvars
<1>2. CASE PushFull(t)
  <2>1. idx[t] = inputIndex /\ item[t] \in Values
    BY <1>0, <1>2 DEF PushFull, IInv, PushInv
  <2>2. Len(Contents) = N - 1
    BY <1>0, <1>2, <2>1, CountBounds DEF PushFull, ContentsOK
  <2>3. Contents' = Contents
    BY <1>2, SameContents DEF PushFull
  <2> QED
    BY <1>2, <2>1, <2>2, <2>3 DEF PushFull, Fifo!FifoNext, Fifo!Refuse
<1>3. CASE PushWrite(t)
  <2>1. idx[t] = inputIndex /\ UNCHANGED <<inputIndex, outputIndex, last>>
    BY <1>0, <1>3 DEF PushWrite, IInv, PushInv
  <2>2. Count' = Count
    BY <2>1 DEF Count, Distance
  <2>3. \A i \in Slots : i # inputIndex => buffer'[i] = buffer[i]
    BY <1>0, <1>3, <2>1 DEF PushWrite, TypeOK
  <2>4. \A k \in 1 .. Count : (outputIndex + k - 1) % N \in Slots \ {inputIndex}
    <3> SUFFICES ASSUME NEW k \in 1 .. Count
                 PROVE  (outputIndex + k - 1) % N \in Slots \ {inputIndex}
      OBVIOUS
    <3>1. /\ outputIndex \in 0 .. N - 1 /\ inputIndex \in 0 .. N - 1
          /\ outputIndex \in Slots /\ Count \in 0 .. N - 1 /\ k \in 1 .. N
      BY <1>0, CountBounds DEF TypeOK, Slots
    <3>2. SlotAt(outputIndex, k) # inputIndex
      BY <1>0, <3>1 DEF SlotAt, Count, Distance
    <3> QED
      BY <3>1, <3>2, SlotAtWraps
  <2>5. Contents' = Contents
    BY <2>1, <2>2, <2>3, <2>4 DEF Contents
  <2> QED
    BY <2>1, <2>5 DEF Fifo!fvars
<1>4. CASE PushStoreInput(t)
  <2>1. /\ idx[t] = inputIndex /\ item[t] \in Values
        /\ buffer[inputIndex] = item[t] /\ NextIndex(inputIndex) # outputIndex
    BY <1>0, <1>4 DEF PushStoreInput, IInv, PushInv
  <2>2. inputIndex' = NextIndex(inputIndex) /\ UNCHANGED <<outputIndex, buffer>>
    BY <1>4, <2>1 DEF PushStoreInput
  <2>3. Count' = Count + 1 /\ Distance(inputIndex) = Count
    BY <1>0, <2>1, <2>2, PushOccupies
  <2>4. Count < N - 1
    BY <1>0, <2>1, CountBounds
  <2>5. Contents' = Append(Contents, item[t])
    <3>1. /\ outputIndex \in 0 .. N - 1 /\ inputIndex \in 0 .. N - 1
          /\ Count \in 0 .. N - 1
      BY <1>0, CountBounds DEF TypeOK, Slots
    <3>2. inputIndex = SlotAt(outputIndex, Count + 1)
      BY <1>0, <2>3, <3>1 DEF Distance, SlotAt
    <3>3. \A k \in 1 .. Count + 1 : Contents'[k] = buffer[SlotAt(outputIndex, k)]
      BY <1>0, <2>2, <2>3 DEF ContentsOK, SlotAt
    <3>4. \A k \in 1 .. Count : Contents'[k] = Contents[k]
      BY <1>0, <3>1, <3>3 DEF ContentsOK
    <3>5. Contents'[Count + 1] = item[t]
      BY <2>1, <3>1, <3>2, <3>3
    <3> DEFINE S == Values \cup {NoItem}
               r == Append(Contents, item[t])
    <3>6. /\ r \in Seq(S) /\ Len(r) = Count + 1 /\ r[Count + 1] = item[t]
          /\ \A k \in 1 .. Count : r[k] = Contents[k]
      BY <1>0, <2>1, <3>1 DEF ContentsOK
    <3>7. Contents' \in Seq(S) /\ Len(Contents') = Count + 1
      BY <1>0, <2>3 DEF ContentsOK
    <3>8. \A k \in 1 .. Count + 1 : Contents'[k] = r[k]
      BY <3>1, <3>4, <3>5, <3>6
    <3> HIDE DEF S, r
    <3>9. Contents' = r
      BY <3>6, <3>7, <3>8, SeqEqual
    <3> QED
      BY <3>9 DEF r
  <2> QED
    BY <1>0, <1>4, <2>1, <2>4, <2>5
    DEF PushStoreInput, ContentsOK, Fifo!FifoNext, Fifo!Put
<1> QED
  BY <1>1, <1>2, <1>3, <1>4 DEF Push

\* A step of pop() is a step of the FIFO queue or invisible to it.
LEMMA PopImplements ==
  ASSUME IInv, IInv', NEW t \in Consumers, Pop(t)
  PROVE  [Fifo!FifoNext]_(Fifo!fvars)
<1> USE DEF PopSteps, Result, Fifo!Result
<1>0. /\ TypeOK /\ TypeOK' /\ ContentsOK /\ ContentsOK' /\ t \in Threads
      /\ N \in Nat \ {0}
  BY ContentsSeq, ContentsSeqNext, CircleQueueAssumption DEF IInv, Threads
<1>1. CASE PopLoadOutput(t) \/ PopFound(t) \/ PopRead(t)
  BY <1>1, SameContents DEF PopLoadOutput, PopFound, PopRead, Fifo!fvars
<1>2. CASE PopEmpty(t)
  <2>1. inputIndex = outputIndex
    BY <1>0, <1>2 DEF PopEmpty, IInv, PopInv
  <2>2. Contents = <<>> /\ Contents' = Contents
    <3>1. Len(Contents) = 0
      BY <1>0, <2>1, CountBounds DEF ContentsOK
    <3> QED
      BY <1>0, <1>2, <3>1, SameContents DEF PopEmpty, ContentsOK
  <2> QED
    BY <1>2, <2>2 DEF PopEmpty, Fifo!FifoNext, Fifo!Nothing
<1>3. CASE PopStoreOutput(t)
  <2>1. /\ idx[t] = outputIndex /\ outputIndex # inputIndex
        /\ item[t] = buffer[outputIndex]
    BY <1>0, <1>3 DEF PopStoreOutput, IInv, PopInv
  <2>2. outputIndex' = NextIndex(outputIndex) /\ UNCHANGED <<inputIndex, buffer>>
    BY <1>3, <2>1 DEF PopStoreOutput
  <2>3. Count' = Count - 1
    BY <1>0, <2>1, <2>2, PopFrees
  <2>4. /\ outputIndex \in 0 .. N - 1 /\ Count \in 1 .. N - 1
        /\ outputIndex' = IF outputIndex = N - 1 THEN 0 ELSE outputIndex + 1
    <3>1. outputIndex \in Slots
      BY <1>0 DEF TypeOK
    <3>2. Count \in 0 .. N - 1 /\ Count # 0
      BY <1>0, <2>1, CountBounds
    <3> QED
      BY <1>0, <2>2, <3>1, <3>2, NextIndexWraps DEF Slots
  <2>5. Contents # <<>> /\ Head(Contents) = item[t]
    <3>1. SlotAt(outputIndex, 1) = outputIndex
      BY <1>0, <2>4 DEF SlotAt
    <3>2. Contents[1] = buffer[outputIndex] /\ Len(Contents) > 0
      BY <1>0, <2>4, <3>1 DEF ContentsOK
    <3> QED
      BY <1>0, <2>1, <3>2 DEF ContentsOK
  <2>6. Contents' = Tail(Contents)
    <3>1. /\ Tail(Contents) \in Seq(Values \cup {NoItem})
          /\ Len(Tail(Contents)) = Count - 1
          /\ \A k \in 1 .. Count - 1 : Tail(Contents)[k] = Contents[k + 1]
      BY <1>0, <2>4, <2>5 DEF ContentsOK
    <3>2. \A k \in 1 .. Count - 1 : Contents'[k] = buffer[SlotAt(outputIndex', k)]
      BY <1>0, <2>2, <2>3 DEF ContentsOK, SlotAt
    <3>3. \A k \in 1 .. Count - 1 : SlotAt(outputIndex', k) = SlotAt(outputIndex, k + 1)
      BY <1>0, <2>4 DEF SlotAt
    <3>4. \A k \in 1 .. Count - 1 : Contents'[k] = Contents[k + 1]
      BY <1>0, <2>4, <3>2, <3>3 DEF ContentsOK
    <3> DEFINE S == Values \cup {NoItem}
               r == Tail(Contents)
    <3>5. Contents' \in Seq(S) /\ Len(Contents') = Count - 1
      BY <1>0, <2>3 DEF ContentsOK
    <3>6. /\ r \in Seq(S) /\ Len(r) = Count - 1
          /\ \A k \in 1 .. Count - 1 : Contents'[k] = r[k]
      BY <3>1, <3>4
    <3> HIDE DEF S, r
    <3>7. Contents' = r
      BY <3>5, <3>6, SeqEqual
    <3> QED
      BY <3>7 DEF r
  <2> QED
    BY <1>3, <2>5, <2>6 DEF PopStoreOutput, Fifo!FifoNext, Fifo!Get
<1> QED
  BY <1>1, <1>2, <1>3 DEF Pop

\* A step of size() is a step of the FIFO queue or invisible to it.
LEMMA SizeImplements ==
  ASSUME IInv, IInv', NEW t \in Consumers, Size(t)
  PROVE  [Fifo!FifoNext]_(Fifo!fvars)
<1> USE DEF SizeSteps, Result, Fifo!Result
<1>0. TypeOK /\ ContentsOK /\ t \in Threads /\ N \in Nat \ {0}
  BY ContentsSeq, CircleQueueAssumption DEF IInv, Threads
<1>1. Contents' = Contents
  BY SameContents DEF Size, SizeLoadInput, SizeStraight, SizeWrapped, SizeReloadOutput
<1>2. CASE SizeLoadInput(t) \/ SizeWrapped(t)
  BY <1>1, <1>2 DEF SizeLoadInput, SizeWrapped, Fifo!fvars
<1>3. CASE SizeStraight(t) \/ SizeReloadOutput(t)
  <2>1. /\ idx[t] \in Slots /\ Distance(idx[t]) <= Count
        /\ last' = Result("size", NoItem, Distance(idx[t]))
    <3>1. idx[t] \in Slots /\ Distance(idx[t]) <= Count
      BY <1>0, <1>3 DEF SizeStraight, SizeReloadOutput, IInv, SizeInv, TypeOK
    <3>2. /\ idx[t] \in 0 .. N - 1 /\ outputIndex \in 0 .. N - 1
          /\ pc[t] = "sizeWrap" => idx[t] < outputIndex
      BY <1>0, <3>1 DEF IInv, SizeInv, TypeOK, Slots
    <3> QED
      BY <1>3, <3>1, <3>2 DEF SizeStraight, SizeReloadOutput, Distance
  <2>2. Distance(idx[t]) \in 0 .. N - 1
    BY <1>0, <2>1, CountBounds
  <2>3. Fifo!AtLeast(Distance(idx[t]))
    BY <1>0, <1>1, <2>1 DEF Fifo!AtLeast, ContentsOK
  <2> QED
    BY <2>2, <2>3 DEF Fifo!FifoNext
<1> QED
  BY <1>2, <1>3 DEF Size

\* Whatever threads push and pop, until two calls of one end overlap the class
\* is a FIFO queue of N - 1 items: push() fails only when it is full, pop() comes
\* back empty only when it is empty, and size() never promises an item that is
\* not there.  Calls that never overlap make it that queue for ever.
THEOREM FifoRefinementCorrect ==
  Spec => FifoUntilOverlap /\ ([]~overlapped => FifoRefinement)
<1>1. Init => Fifo!FifoInit
  <2> SUFFICES ASSUME Init PROVE Fifo!FifoInit
    OBVIOUS
  <2>1. TypeOK /\ ContentsOK
    BY InitTypeInv, ContentsSeq DEF TypeInv
  <2>2. Contents = <<>>
    BY <2>1, CountBounds DEF Init, ContentsOK
  <2> QED
    BY <2>2 DEF Init, Fifo!FifoInit, Result, Fifo!Result
<1>2. Orderly /\ Orderly' /\ [Next]_vars
        => overlapped' \/ [Fifo!FifoNext]_(Fifo!fvars)
  <2> SUFFICES ASSUME Orderly, Orderly', [Next]_vars, ~overlapped'
               PROVE  [Fifo!FifoNext]_(Fifo!fvars)
    OBVIOUS
  <2>0. IInv /\ IInv'
    BY OrderlyBefore DEF Orderly
  <2>1. CASE UNCHANGED vars
    BY <2>1, SameContents DEF vars, Fifo!fvars
  <2> QED
    BY <2>0, <2>1, PushImplements, PopImplements, SizeImplements DEF Next
<1>3. Orderly /\ Orderly' /\ [Next]_vars
        => [overlapped' \/ Fifo!FifoNext]_(Fifo!fvars)
  BY <1>2
<1>4. Spec => FifoUntilOverlap
  BY <1>1, <1>3, Invariance, PTL DEF Spec, FifoUntilOverlap
<1>5. Spec => ([]~overlapped => FifoRefinement)
  BY <1>1, <1>2, Invariance, PTL DEF Spec, Fifo!FifoSpec, FifoRefinement
<1> QED
  BY <1>4, <1>5
=============================================================================
