---------------------------- MODULE BoundedFifo ----------------------------
(***************************************************************************)
(* What the callers of Utility::LockFreeCircleQueue rely on: a first-in    *)
(* first-out queue of at most Cap items whose operations take effect in    *)
(* one step.  `last` is the result of the last call that returned, so that *)
(* an implementation must also refuse, come back empty-handed and report   *)
(* sizes only when the queue justifies it.                                 *)
(***************************************************************************)
EXTENDS Integers, Sequences

CONSTANTS Cap,      \* how many items the queue can hold
          Values,   \* the items
          NoItem    \* T(): what pop() returns when there is no item

VARIABLES fifo, last

fvars == <<fifo, last>>

Result(op, v, n) == [op |-> op, item |-> v, num |-> n]

FifoInit == fifo = <<>> /\ last = Result("none", NoItem, 0)

\* push() returns true: the item is behind all the others.
Put(v) == /\ Len(fifo) < Cap
          /\ fifo' = Append(fifo, v)
          /\ last' = Result("push", v, 1)

\* push() returns false: only a full queue refuses an item.
Refuse(v) == /\ Len(fifo) = Cap
             /\ last' = Result("push", v, 0)
             /\ UNCHANGED fifo

\* pop() returns the oldest item.
Get == /\ fifo # <<>>
       /\ last' = Result("pop", Head(fifo), 1)
       /\ fifo' = Tail(fifo)

\* pop() returns T(): only an empty queue has nothing to return.
Nothing == /\ fifo = <<>>
           /\ last' = Result("pop", NoItem, 0)
           /\ UNCHANGED fifo

\* size(), called by the thread that pops: never more than there is, so
\* that a pop() after a positive size() finds an item.
AtLeast(n) == /\ n <= Len(fifo)
              /\ last' = Result("size", NoItem, n)
              /\ UNCHANGED fifo

FifoNext == \/ \E v \in Values : Put(v) \/ Refuse(v)
            \/ Get
            \/ Nothing
            \/ \E n \in 0 .. Cap : AtLeast(n)

FifoSpec == FifoInit /\ [][FifoNext]_fvars
=============================================================================
