----------------------------- MODULE Inventory -----------------------------
(***************************************************************************)
(* AddInventoryItem and BreakInventoryItem of db/GameDatabase.sql, with    *)
(* UpdateUserMoney of db/UserDatabase.sql inside the latter, one action    *)
(* per statement.  Every lobby has one game database worker; the account   *)
(* of a user who went from one lobby to another can have calls running in  *)
(* both, so the transactions of several workers interleave.                *)
(*                                                                         *)
(* SQL Server is present through its locks at READ COMMITTED: a written    *)
(* row is locked until the transaction ends, UPDLOCK locks the row a       *)
(* SELECT returns against other UPDLOCKs and writes, and a plain SELECT    *)
(* waits for written rows and keeps no lock.  What a transaction has       *)
(* written is in delta until it commits.  SQL Server locks more than that: *)
(* the keys of IX_Inventory_Account_Item, and every row that qualifies for *)
(* SELECT TOP 1, as its plan decides.  More locks only take interleavings  *)
(* away, or make transactions wait for each other until SQL Server ends    *)
(* one of them, which is the action Fail; so what holds here of the data   *)
(* holds with those locks, while nothing is said here of deadlocks.        *)
(*                                                                         *)
(* A row is named by its Guid, here with the account and the item it is    *)
(* made for, which never change.                                           *)
(***************************************************************************)
EXTENDS Integers, FiniteSets, Functions

CONSTANTS Workers,          \* the game database workers of the lobbies
          Accounts,         \* accounts, all with a row of UserData
          Piles, Singles,   \* items with IsPile = 1 and with IsPile = 0
          PileCountMax,     \* PileCountMax[s] for the items that pile up
          BreakMoneyAmount, \* BreakMoneyAmount[s]
          Capacity,         \* UserData.InventoryCapacity
          MaxAdd,           \* items a lobby gives at once (3 in EventProcess)
          MaxRemove,        \* bound: the count of a request to break, either way
          MaxTasks,         \* bound: calls in a behaviour that may bring items
          MaxRows,          \* bound: rows ever made for an account and an item
          NoGuid            \* NULL

Seeds == Piles \cup Singles

\* There is a worker (each lobby starts one), the item table is finite, and a
\* lobby never gives more at once than fits in a pile (the sample items pile up
\* to 10 or more, and 1 to 3 are given).
ASSUME InventoryAssumption ==
  /\ IsFiniteSet(Workers) /\ Workers # {}
  /\ IsFiniteSet(Seeds)
  /\ Piles \cap Singles = {}
  /\ MaxAdd \in Nat \ {0} /\ MaxRemove \in Nat \ {0}
  /\ Capacity \in Nat /\ MaxTasks \in Nat /\ MaxRows \in Nat
  /\ PileCountMax \in [Piles -> Nat \ {0}]
  /\ \A s \in Piles : MaxAdd <= PileCountMax[s]
  /\ BreakMoneyAmount \in [Seeds -> Nat]

Guids == [account : Accounts, seed : Seeds, num : 1 .. MaxRows]

ASSUME NoGuidAssumption == NoGuid \notin Guids \cup Accounts /\ Guids \cap Accounts = {}

VARIABLES
  count,    \* count[g]: ItemCount of row g as committed; 0 when there is no such row
  money,    \* money[a]: UserData.GameMoney as committed
  made,     \* made[a][s]: how many Guids NEWID() has made
  tx,       \* tx[w]: the call worker w is in, with its local variables
  delta,    \* delta[w][g]: what its transaction has added to row g
  locked,   \* locked[w]: the rows, and the accounts in UserData, it has locked
  tasks,    \* calls that may bring items so far: to add, or to break a negative count
  forged    \* the accounts for which a negative count was to be broken

vars == <<count, money, made, tx, delta, locked, tasks, forged>>

AddSteps   == {"addSum", "addPick", "addPut", "addCommit"}
BreakSteps == {"breakFind", "breakRemove", "payRead", "payWrite", "breakCommit"}

Idle == [step |-> "idle"]

\* guid and current are @SlotGuid and @CurrentCount; n is @Remaining.
Adds == [step : AddSteps, account : Accounts, seed : Seeds,
         guid : Guids \cup {NoGuid}, current : Nat, n : Nat]

\* Neither the lobby nor the procedure looks at the sign of remove_count.
RemoveCounts == (-MaxRemove) .. MaxRemove

\* current is @ItemCount, n is @RemoveCount, purse is @Before and then @Result.
Breaks == [step : BreakSteps, account : Accounts, guid : Guids, current : Nat,
           n : RemoveCounts, purse : Int]

TypeOK ==
  /\ count \in [Guids -> Nat]
  /\ money \in [Accounts -> Int]
  /\ made \in [Accounts -> [Seeds -> 0 .. MaxRows]]
  /\ tx \in [Workers -> {Idle} \cup Adds \cup Breaks]
  /\ delta \in [Workers -> [Guids -> Int]]
  /\ locked \in [Workers -> SUBSET (Guids \cup Accounts)]
  /\ tasks \in 0 .. MaxTasks
  /\ forged \subseteq Accounts

NoChange == [g \in Guids |-> 0]

Init ==
  /\ count = NoChange
  /\ money = [a \in Accounts |-> 0]
  /\ made = [a \in Accounts |-> [s \in Seeds |-> 0]]
  /\ tx = [w \in Workers |-> Idle]
  /\ delta = [w \in Workers |-> NoChange]
  /\ locked = [w \in Workers |-> {}]
  /\ tasks = 0
  /\ forged = {}

PileMax(s) == IF s \in Piles THEN PileCountMax[s] ELSE 1

RowsOf(a, s) == [account : {a}, seed : {s}, num : 1 .. MaxRows]

Row(a, s, k) == [account |-> a, seed |-> s, num |-> k]

\* The sum of e over the rows of an account and an item.
RowSum(e, a, s) ==
  LET upTo[k \in 0 .. MaxRows] == IF k = 0 THEN 0 ELSE upTo[k - 1] + e[Row(a, s, k)]
  IN  upTo[MaxRows]

\* SUM(ItemCount) of the rows that are committed.
Held(a, s) == RowSum(count, a, s)
Total(a) == SumFunctionOnSet([s \in Seeds |-> Held(a, s)], Seeds)

\* Row g as the transaction of w sees it.
Seen(w, g) == count[g] + delta[w][g]

At(w, step) == tx[w].step = step

-----------------------------------------------------------------------------
(* Locks: of rows and of accounts.  Those SQL Server takes besides, on the keys
   of the index the rows are sought by, are left out, as said above. *)

\* The sum over an account reads its rows, and the capacity its row of UserData:
\* both wait for what another transaction has written.
SumWaitsFor(w, v) ==
  /\ At(w, "addSum")
  /\ \/ \E g \in Guids : g.account = tx[w].account /\ delta[v][g] # 0
     \/ At(v, "breakCommit") /\ tx[v].account = tx[w].account

\* SELECT TOP 1 with UPDLOCK looks at every row of the account and the item.
PickWaitsFor(w, v) ==
  /\ At(w, "addPick")
  /\ tx[w].seed \in Piles
  /\ RowsOf(tx[w].account, tx[w].seed) \cap locked[v] # {}

RowWaitsFor(w, v) ==
  /\ At(w, "addPut") \/ At(w, "breakFind") \/ At(w, "breakRemove")
  /\ tx[w].guid \in locked[v]

PurseWaitsFor(w, v) ==
  /\ At(w, "payRead") \/ At(w, "payWrite")
  /\ tx[w].account \in locked[v]

\* The workers that the next statement of w must wait for.
Waits(w) == {v \in Workers \ {w} : \/ SumWaitsFor(w, v)
                                   \/ PickWaitsFor(w, v)
                                   \/ RowWaitsFor(w, v)
                                   \/ PurseWaitsFor(w, v)}

Runs(w, step) == At(w, step) /\ Waits(w) = {}

Lock(w, x) == locked' = [locked EXCEPT ![w] = @ \cup {x}]

\* The end of a transaction.
Release(w) == /\ tx' = [tx EXCEPT ![w] = Idle]
              /\ delta' = [delta EXCEPT ![w] = NoChange]
              /\ locked' = [locked EXCEPT ![w] = {}]
              /\ UNCHANGED <<made, tasks, forged>>

CommitRows(w) == count' = [g \in Guids |-> Seen(w, g)]

\* Any statement may fail, UpdateUserMoney's ROLLBACK for a missing account
\* included: the CATCH block rolls everything back, and no callback follows.
Fail(w) == /\ tx[w] # Idle
           /\ Release(w)
           /\ UNCHANGED <<count, money>>

-----------------------------------------------------------------------------
(* AddInventoryItem *)

TakeAdd(w, a, s, n) ==
  /\ tx[w] = Idle
  /\ tasks < MaxTasks
  /\ tasks' = tasks + 1
  /\ tx' = [tx EXCEPT ![w] = [step |-> "addSum", account |-> a, seed |-> s,
                              guid |-> NoGuid, current |-> 0, n |-> n]]
  /\ UNCHANGED <<count, money, made, delta, locked, forged>>

\* A slip of AddSum: the capacity is not looked at.
AddSumUnchecked(w) ==
  /\ Runs(w, "addSum")
  /\ tx' = [tx EXCEPT ![w].step = "addPick"]
  /\ UNCHANGED <<count, money, made, delta, locked, tasks, forged>>

\* What would exceed the capacity is not added at all: @Remaining becomes 0.
AddSum(w) ==
  /\ Runs(w, "addSum")
  /\ tx' = [tx EXCEPT ![w].step =
              IF Total(tx[w].account) + tx[w].n > Capacity THEN "addCommit" ELSE "addPick"]
  /\ UNCHANGED <<count, money, made, delta, locked, tasks, forged>>

\* The piles that are not full.
Room(w) == {g \in RowsOf(tx[w].account, tx[w].seed) :
              0 < Seen(w, g) /\ Seen(w, g) < PileMax(tx[w].seed)}

Smallest(w) == {g \in Room(w) : \A h \in Room(w) : Seen(w, g) <= Seen(w, h)}

\* A slip of AddPick: the pile is read without UPDLOCK.
AddPickUnlocked(w) ==
  /\ Runs(w, "addPick")
  /\ \/ /\ tx[w].seed \in Piles
        /\ \E g \in Smallest(w) :
             tx' = [tx EXCEPT ![w] = [@ EXCEPT !.step = "addPut", !.guid = g,
                                               !.current = Seen(w, g)]]
     \/ /\ tx[w].seed \in Singles \/ Room(w) = {}
        /\ tx' = [tx EXCEPT ![w].step = "addPut"]
  /\ UNCHANGED <<count, money, made, delta, locked, tasks, forged>>

\* A SELECT that finds no row leaves @SlotGuid and @CurrentCount as they were.
AddPick(w) ==
  /\ Runs(w, "addPick")
  /\ \/ /\ tx[w].seed \in Piles
        /\ \E g \in Smallest(w) :
             /\ tx' = [tx EXCEPT ![w] = [@ EXCEPT !.step = "addPut", !.guid = g,
                                                  !.current = Seen(w, g)]]
             /\ Lock(w, g)
     \/ /\ tx[w].seed \in Piles /\ Room(w) = {}
        /\ tx' = [tx EXCEPT ![w].step = "addPut"]
        /\ UNCHANGED locked
     \/ /\ tx[w].seed \in Singles
        /\ tx' = [tx EXCEPT ![w] = [@ EXCEPT !.step = "addPut", !.guid = NoGuid]]
        /\ UNCHANGED locked
  /\ UNCHANGED <<count, money, made, delta, tasks, forged>>

Smaller(m, n) == IF m < n THEN m ELSE n

\* k items go into row g, and the loop goes on while any remain.
Put(w, g, k) ==
  /\ delta' = [delta EXCEPT ![w][g] = @ + k]
  /\ Lock(w, g)
  /\ tx' = [tx EXCEPT ![w] = [@ EXCEPT !.n = tx[w].n - k,
                                       !.step = IF tx[w].n > k THEN "addPick"
                                                               ELSE "addCommit"]]

AddToPile(w) ==
  /\ Runs(w, "addPut")
  /\ tx[w].guid # NoGuid
  /\ Put(w, tx[w].guid, Smaller(tx[w].n, PileMax(tx[w].seed) - tx[w].current))
  /\ UNCHANGED <<count, money, made, tasks, forged>>

AddNewRow(w) ==
  /\ Runs(w, "addPut")
  /\ tx[w].guid = NoGuid
  /\ \E g \in RowsOf(tx[w].account, tx[w].seed) :
       /\ g.num = made[g.account][g.seed] + 1
       /\ made' = [made EXCEPT ![g.account][g.seed] = @ + 1]
       /\ Put(w, g, Smaller(tx[w].n, PileMax(tx[w].seed)))
  /\ UNCHANGED <<count, money, tasks, forged>>

AddCommit(w) == /\ Runs(w, "addCommit")
                /\ CommitRows(w)
                /\ Release(w)
                /\ UNCHANGED money

-----------------------------------------------------------------------------
(* BreakInventoryItem *)

\* A client knows the Guids of rows that were committed, some deleted since.
Known(g) == /\ g.num <= made[g.account][g.seed]
            /\ \A v \in Workers : g \in locked[v] => count[g] > 0

TakeBreak(w, a, g, n) ==
  /\ tx[w] = Idle
  /\ Known(g)
  /\ \/ n >= 0 /\ UNCHANGED <<tasks, forged>>
     \/ /\ n < 0 /\ tasks < MaxTasks
        /\ tasks' = tasks + 1
        /\ forged' = forged \cup {a}
  /\ tx' = [tx EXCEPT ![w] = [step |-> "breakFind", account |-> a, guid |-> g,
                              current |-> 0, n |-> n, purse |-> 0]]
  /\ UNCHANGED <<count, money, made, delta, locked>>

\* No such row, too few items, or a row of somebody else.
BreakRefused(w) ==
  /\ Runs(w, "breakFind")
  /\ \/ count[tx[w].guid] = 0
     \/ count[tx[w].guid] < tx[w].n
     \/ tx[w].guid.account # tx[w].account
  /\ Release(w)
  /\ UNCHANGED <<count, money>>

\* A slip of BreakFound: the row is read without UPDLOCK.
BreakFoundUnlocked(w) ==
  /\ Runs(w, "breakFind")
  /\ count[tx[w].guid] > 0 /\ count[tx[w].guid] >= tx[w].n
  /\ tx[w].guid.account = tx[w].account
  /\ tx' = [tx EXCEPT ![w] = [@ EXCEPT !.step = "breakRemove",
                                       !.current = count[tx[w].guid]]]
  /\ UNCHANGED <<count, money, made, delta, locked, tasks, forged>>

BreakFound(w) ==
  /\ Runs(w, "breakFind")
  /\ count[tx[w].guid] > 0 /\ count[tx[w].guid] >= tx[w].n
  /\ tx[w].guid.account = tx[w].account
  /\ tx' = [tx EXCEPT ![w] = [@ EXCEPT !.step = "breakRemove",
                                       !.current = count[tx[w].guid]]]
  /\ Lock(w, tx[w].guid)
  /\ UNCHANGED <<count, money, made, delta, tasks, forged>>

\* DELETE when the last items go, UPDATE otherwise; a negative count adds items.
BreakRemove(w) ==
  /\ Runs(w, "breakRemove")
  /\ delta' = [delta EXCEPT ![w][tx[w].guid] =
                 IF tx[w].current = tx[w].n THEN -count[tx[w].guid] ELSE -tx[w].n]
  /\ tx' = [tx EXCEPT ![w].step = "payRead"]
  /\ UNCHANGED <<count, money, made, locked, tasks, forged>>

\* A slip of PayRead: the money is read without UPDLOCK.
PayReadUnlocked(w) ==
  /\ Runs(w, "payRead")
  /\ tx' = [tx EXCEPT ![w] = [@ EXCEPT !.step = "payWrite", !.purse = money[tx[w].account]]]
  /\ UNCHANGED <<count, money, made, delta, locked, tasks, forged>>

\* UpdateUserMoney, inside the transaction of BreakInventoryItem.
PayRead(w) ==
  /\ Runs(w, "payRead")
  /\ tx' = [tx EXCEPT ![w] = [@ EXCEPT !.step = "payWrite", !.purse = money[tx[w].account]]]
  /\ Lock(w, tx[w].account)
  /\ UNCHANGED <<count, money, made, delta, tasks, forged>>

\* The COMMIT of UpdateUserMoney is nested: nothing is committed yet.
PayWrite(w) ==
  /\ Runs(w, "payWrite")
  /\ tx' = [tx EXCEPT ![w] =
              [@ EXCEPT !.step = "breakCommit",
                        !.purse = tx[w].purse + tx[w].n * BreakMoneyAmount[tx[w].guid.seed]]]
  /\ Lock(w, tx[w].account)
  /\ UNCHANGED <<count, money, made, delta, tasks, forged>>

BreakCommit(w) == /\ Runs(w, "breakCommit")
                  /\ CommitRows(w)
                  /\ money' = [money EXCEPT ![tx[w].account] = tx[w].purse]
                  /\ Release(w)

-----------------------------------------------------------------------------
AddInventoryItem(w) == \/ \E a \in Accounts, s \in Seeds, n \in 1 .. MaxAdd : TakeAdd(w, a, s, n)
                       \/ AddSum(w)
                       \/ AddPick(w)
                       \/ AddToPile(w)
                       \/ AddNewRow(w)
                       \/ AddCommit(w)

BreakInventoryItem(w) ==
  \/ \E a \in Accounts, g \in Guids, n \in RemoveCounts : TakeBreak(w, a, g, n)
  \/ BreakRefused(w)
  \/ BreakFound(w)
  \/ BreakRemove(w)
  \/ PayRead(w)
  \/ PayWrite(w)
  \/ BreakCommit(w)

Next == \E w \in Workers : AddInventoryItem(w) \/ BreakInventoryItem(w) \/ Fail(w)

Spec == Init /\ [][Next]_vars

-----------------------------------------------------------------------------
(* Properties *)

\* Each call takes effect as a whole and once, whatever interleaves with it and
\* wherever it fails: items are given, or broken and paid for (the transactions
\* of AddInventoryItem, and of BreakInventoryItem with UpdateUserMoney in it).
Items == [a \in Accounts |-> [s \in Seeds |-> Held(a, s)]]
Goods == INSTANCE Stock WITH items <- Items, purse <- money
StockRefinement == Goods!StockSpec

\* The sum is read without a lock that lasts, so two lobbies may exceed the
\* capacity, but by no more than one call of each other worker (AddInventoryItem).
\* Only a request to break a negative count, which the procedure carries out
\* without looking at the capacity, takes an account further.
CapacityOvershoot ==
  \A a \in Accounts \ forged :
    Total(a) <= Capacity + (Cardinality(Workers) - 1) * MaxAdd

\* The stale @SlotGuid of AddInventoryItem fills a pile past its maximum, by less
\* than one call adds: UPDLOCK keeps a second call off the pile.  Rows of items
\* that do not pile up hold one.  Again a negative count alone gets past that.
PileOvershoot ==
  \A g \in Guids :
    g.account \notin forged =>
      count[g] <= IF g.seed \in Piles THEN PileMax(g.seed) + MaxAdd - 1 ELSE 1
=============================================================================
