---------------------------- MODULE CircleQueue ----------------------------
(***************************************************************************)
(* Utility::LockFreeCircleQueue<T> of Common/include/utility, one action   *)
(* per atomic load or store of push(), pop() and size().  The class is     *)
(* instantiated with pointers (the pool of CustomOverlapped objects) and   *)
(* with values (the task queue of a Database::Worker); an item stands for  *)
(* one pointer or one task.                                                *)
(*                                                                         *)
(* `stored`, `last` and `overlapped` are auxiliary: no action reads them   *)
(* except the guard of PushLoadInput, which says that a caller pushes only *)
(* an item it owns (no caller pushes an object that is still in the        *)
(* queue).                                                                 *)
(***************************************************************************)
EXTENDS Integers, Sequences

CONSTANTS N,          \* mQueueMaxSize
          Values,     \* the items callers push
          NoItem,     \* T()
          Producers,  \* threads that call push()
          Consumers   \* threads that call pop() and size()

ASSUME CircleQueueAssumption == /\ N \in Nat \ {0}
                                /\ NoItem \notin Values

VARIABLES inputIndex,   \* mInputIndex
          outputIndex,  \* mOutputIndex
          buffer,       \* mBuffer: the item last written to each slot
          moved,        \* the slots std::move has taken the item out of
          pc,           \* pc[t]: the atomic step thread t takes next
          idx,          \* idx[t]: currentInputIndex, currentOutputIndex or input
          item,         \* item[t]: the local `data`
          stored,       \* items a push() accepted and no pop() returned yet
          last,         \* the result of the last call that returned
          overlapped    \* two calls of one end of the queue have been under way at once

vars == <<inputIndex, outputIndex, buffer, moved, pc, idx, item, stored, last, overlapped>>

Threads == Producers \cup Consumers
Slots   == 0 .. N - 1

\* A slip of NextIndex: the index does not wrap.
NextIndexNoWrap(i) == i + 1

NextIndex(i) == (i + 1) % N

Result(op, v, n) == [op |-> op, item |-> v, num |-> n]

PushSteps == {"pushCheck", "pushWrite", "pushStore"}
PopSteps  == {"popCheck", "popRead", "popStore"}
SizeSteps == {"sizeOutput", "sizeWrap"}

TypeOK == /\ inputIndex \in Slots
          /\ outputIndex \in Slots
          /\ buffer \in [Slots -> Values \cup {NoItem}]
          /\ moved \subseteq Slots
          /\ pc \in [Threads -> {"idle"} \cup PushSteps \cup PopSteps \cup SizeSteps]
          /\ idx \in [Threads -> Slots]
          /\ item \in [Threads -> Values \cup {NoItem}]
          /\ stored \subseteq Values
          /\ last \in [op : {"none", "push", "pop", "size"},
                       item : Values \cup {NoItem}, num : Int]
          /\ overlapped \in BOOLEAN

Init == /\ inputIndex = 0
        /\ outputIndex = 0
        /\ buffer = [i \in Slots |-> NoItem]
        /\ moved = {}
        /\ pc = [t \in Threads |-> "idle"]
        /\ idx = [t \in Threads |-> 0]
        /\ item = [t \in Threads |-> NoItem]
        /\ stored = {}
        /\ last = Result("none", NoItem, 0)
        /\ overlapped = FALSE

Goto(t, step) == pc' = [pc EXCEPT ![t] = step]

-----------------------------------------------------------------------------
(* bool push(T&& data) *)

PushLoadInput(t, v) ==
  /\ pc[t] = "idle"
  /\ v \notin stored
  /\ \A u \in Threads : item[u] # v
  /\ idx' = [idx EXCEPT ![t] = inputIndex]
  /\ item' = [item EXCEPT ![t] = v]
  /\ Goto(t, "pushCheck")
  /\ UNCHANGED <<inputIndex, outputIndex, buffer, moved, stored, last>>

PushFull(t) ==
  /\ pc[t] = "pushCheck"
  /\ NextIndex(idx[t]) = outputIndex
  /\ last' = Result("push", item[t], 0)
  /\ item' = [item EXCEPT ![t] = NoItem]
  /\ Goto(t, "idle")
  /\ UNCHANGED <<inputIndex, outputIndex, buffer, moved, idx, stored>>

\* A slip of PushRoom: push() does not look at mOutputIndex.
PushRoomUnchecked(t) ==
  /\ pc[t] = "pushCheck"
  /\ Goto(t, "pushWrite")
  /\ UNCHANGED <<inputIndex, outputIndex, buffer, moved, idx, item, stored, last>>

PushRoom(t) ==
  /\ pc[t] = "pushCheck"
  /\ NextIndex(idx[t]) # outputIndex
  /\ Goto(t, "pushWrite")
  /\ UNCHANGED <<inputIndex, outputIndex, buffer, moved, idx, item, stored, last>>

PushWrite(t) ==
  /\ pc[t] = "pushWrite"
  /\ buffer' = [buffer EXCEPT ![idx[t]] = item[t]]
  /\ moved' = moved \ {idx[t]}
  /\ Goto(t, "pushStore")
  /\ UNCHANGED <<inputIndex, outputIndex, idx, item, stored, last>>

PushStoreInput(t) ==
  /\ pc[t] = "pushStore"
  /\ inputIndex' = NextIndex(idx[t])
  /\ stored' = stored \cup {item[t]}
  /\ last' = Result("push", item[t], 1)
  /\ item' = [item EXCEPT ![t] = NoItem]
  /\ Goto(t, "idle")
  /\ UNCHANGED <<outputIndex, buffer, moved, idx>>

-----------------------------------------------------------------------------
(* T pop() *)

PopLoadOutput(t) ==
  /\ pc[t] = "idle"
  /\ idx' = [idx EXCEPT ![t] = outputIndex]
  /\ Goto(t, "popCheck")
  /\ UNCHANGED <<inputIndex, outputIndex, buffer, moved, item, stored, last>>

PopEmpty(t) ==
  /\ pc[t] = "popCheck"
  /\ idx[t] = inputIndex
  /\ last' = Result("pop", NoItem, 0)
  /\ Goto(t, "idle")
  /\ UNCHANGED <<inputIndex, outputIndex, buffer, moved, idx, item, stored>>

\* A slip of PopFound: the test of empty is forgotten.
PopFoundUnchecked(t) ==
  /\ pc[t] = "popCheck"
  /\ Goto(t, "popRead")
  /\ UNCHANGED <<inputIndex, outputIndex, buffer, moved, idx, item, stored, last>>

PopFound(t) ==
  /\ pc[t] = "popCheck"
  /\ idx[t] # inputIndex
  /\ Goto(t, "popRead")
  /\ UNCHANGED <<inputIndex, outputIndex, buffer, moved, idx, item, stored, last>>

\* std::move leaves a pointer in its slot and empties a slot that holds a task,
\* so moving out of the same slot again yields the same pointer or nothing.
Readable(i) == {buffer[i]} \cup IF i \in moved THEN {NoItem} ELSE {}

PopRead(t) ==
  /\ pc[t] = "popRead"
  /\ \E data \in Readable(idx[t]) : item' = [item EXCEPT ![t] = data]
  /\ moved' = moved \cup {idx[t]}
  /\ Goto(t, "popStore")
  /\ UNCHANGED <<inputIndex, outputIndex, buffer, idx, stored, last>>

PopStoreOutput(t) ==
  /\ pc[t] = "popStore"
  /\ outputIndex' = NextIndex(idx[t])
  /\ stored' = stored \ {item[t]}
  /\ last' = Result("pop", item[t], 1)
  /\ item' = [item EXCEPT ![t] = NoItem]
  /\ Goto(t, "idle")
  /\ UNCHANGED <<inputIndex, buffer, moved, idx>>

-----------------------------------------------------------------------------
(* int size(): the branch for a wrapped queue loads mOutputIndex again. *)

SizeLoadInput(t) ==
  /\ pc[t] = "idle"
  /\ idx' = [idx EXCEPT ![t] = inputIndex]
  /\ Goto(t, "sizeOutput")
  /\ UNCHANGED <<inputIndex, outputIndex, buffer, moved, item, stored, last>>

SizeStraight(t) ==
  /\ pc[t] = "sizeOutput"
  /\ idx[t] >= outputIndex
  /\ last' = Result("size", NoItem, idx[t] - outputIndex)
  /\ Goto(t, "idle")
  /\ UNCHANGED <<inputIndex, outputIndex, buffer, moved, idx, item, stored>>

SizeWrapped(t) ==
  /\ pc[t] = "sizeOutput"
  /\ idx[t] < outputIndex
  /\ Goto(t, "sizeWrap")
  /\ UNCHANGED <<inputIndex, outputIndex, buffer, moved, idx, item, stored, last>>

\* A slip of SizeReloadOutput: the operands are swapped.
SizeReloadSwapped(t) ==
  /\ pc[t] = "sizeWrap"
  /\ last' = Result("size", NoItem, N - idx[t] + outputIndex)
  /\ Goto(t, "idle")
  /\ UNCHANGED <<inputIndex, outputIndex, buffer, moved, idx, item, stored>>

SizeReloadOutput(t) ==
  /\ pc[t] = "sizeWrap"
  /\ last' = Result("size", NoItem, N - outputIndex + idx[t])
  /\ Goto(t, "idle")
  /\ UNCHANGED <<inputIndex, outputIndex, buffer, moved, idx, item, stored>>

-----------------------------------------------------------------------------
Push(t) == \/ \E v \in Values : PushLoadInput(t, v)
           \/ PushFull(t)
           \/ PushRoom(t)
           \/ PushWrite(t)
           \/ PushStoreInput(t)

Pop(t) == \/ PopLoadOutput(t)
          \/ PopEmpty(t)
          \/ PopFound(t)
          \/ PopRead(t)
          \/ PopStoreOutput(t)

Size(t) == \/ SizeLoadInput(t)
           \/ SizeStraight(t)
           \/ SizeWrapped(t)
           \/ SizeReloadOutput(t)

\* At most one thread is inside push(), and at most one inside pop() or size().
Apart ==
  \A t, u \in Threads :
    t # u => /\ ~(pc[t] \in PushSteps /\ pc[u] \in PushSteps)
             /\ ~(pc[t] \in PopSteps \cup SizeSteps /\ pc[u] \in PopSteps \cup SizeSteps)

Next == /\ \/ \E t \in Producers : Push(t)
           \/ \E t \in Consumers : Pop(t) \/ Size(t)
        /\ overlapped' = (overlapped \/ ~Apart')

Spec == Init /\ [][Next]_vars

-----------------------------------------------------------------------------
(* Properties *)

\* How far slot i lies behind the slot the next pop() reads.
Distance(i) == IF i >= outputIndex THEN i - outputIndex ELSE N - outputIndex + i

Count == Distance(inputIndex)

Occupied == {i \in Slots : Distance(i) < Count}

Contents == [k \in 1 .. Count |-> buffer[(outputIndex + k - 1) % N]]

\* mBuffer is not atomic: when one thread is about to write a slot, no other
\* thread is about to read or write the same slot (push() line 48, pop() line 63).
NoSlotRace ==
  \A t, u \in Threads :
    /\ t # u
    /\ pc[t] = "pushWrite"
    /\ pc[u] \in {"pushWrite", "popRead"}
    => idx[t] # idx[u]

\* An item that push() accepted stays in an occupied slot until a pop()
\* returns it, and in one slot only: none is lost, none is handed out twice.
NothingLost ==
  /\ stored = {buffer[i] : i \in Occupied}
  /\ \A i, j \in Occupied : i # j => buffer[i] # buffer[j]

\* push(), pop() and size() implement the bounded FIFO queue of N - 1 items
\* (the comment on mQueueMaxSize): order, refusals and sizes included.
Fifo == INSTANCE BoundedFifo WITH Cap <- N - 1, fifo <- Contents, last <- last
FifoRefinement == Fifo!FifoSpec

\* Every step is one of that FIFO queue until two calls of one end overlap.
FifoUntilOverlap ==
  Fifo!FifoInit /\ [][overlapped' \/ Fifo!FifoNext]_(Fifo!fvars)

\* With one thread at each end no calls overlap.
SingleProducer == \A t, u \in Producers : t = u
SingleConsumer == \A t, u \in Consumers : t = u

-----------------------------------------------------------------------------
(* The inductive invariant while no two calls of one end have overlapped *)

PushInv ==
  \A t \in Threads :
    /\ pc[t] \in PushSteps => /\ idx[t] = inputIndex
                             /\ item[t] \in Values \ stored
    /\ pc[t] \in {"pushWrite", "pushStore"} => NextIndex(inputIndex) # outputIndex
    /\ pc[t] = "pushStore" => /\ buffer[inputIndex] = item[t]
                              /\ inputIndex \notin moved

PopInv ==
  \A t \in Threads :
    /\ pc[t] \in PopSteps => idx[t] = outputIndex
    /\ pc[t] \in {"popRead", "popStore"} => outputIndex # inputIndex
    /\ pc[t] = "popStore" => item[t] = buffer[outputIndex]

SizeInv ==
  \A t \in Threads :
    /\ pc[t] \in SizeSteps => Distance(idx[t]) <= Count
    /\ pc[t] = "sizeWrap" => idx[t] < outputIndex

\* Only the slot a pop() is about to free can be occupied and moved from.
MovedInv ==
  \A i \in Occupied \cap moved :
    i = outputIndex /\ \E t \in Threads : pc[t] = "popStore"

IInv == TypeOK /\ Apart /\ PushInv /\ PopInv /\ SizeInv /\ MovedInv /\ NothingLost

Orderly == ~overlapped => IInv
=============================================================================
