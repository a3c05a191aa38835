--------------------------- MODULE InventoryProofs ---------------------------
(***************************************************************************)
(* The transactions of any number of game database workers, on any number  *)
(* of accounts, items and rows.                                            *)
(*                                                                         *)
(* Fits says of one transaction what its local variables and what it has   *)
(* written have to do with the committed rows it has locked.  No other     *)
(* transaction changes those, since a row or an account is locked by one   *)
(* worker only (Exclusive): so Fits survives the steps of the others       *)
(* (FitsFrame).                                                            *)
(***************************************************************************)
EXTENDS Inventory, Sums

-----------------------------------------------------------------------------
(* The sum over the rows of an account and an item *)

\* F gives the sums over the first rows.
IsRowSums(F, e, a, s) ==
  /\ F[0] = 0
  /\ \A k \in 1 .. MaxRows : F[k] = F[k - 1] + e[Row(a, s, k)]

\* h satisfies the recursion of RowSum up to row n.
RowSumsUpTo(h, e, a, s, n) ==
  h = [k \in 0 .. n |-> IF k = 0 THEN 0 ELSE h[k - 1] + e[Row(a, s, k)]]

\* RowSum is the last of these sums.
LEMMA RowSumsOf ==
  ASSUME NEW e, NEW a, NEW s
  PROVE  \E F : IsRowSums(F, e, a, s) /\ F[MaxRows] = RowSum(e, a, s)
  <1> MaxRows \in Nat
    BY InventoryAssumption
  <1> DEFINE Good == {n \in 0 .. MaxRows : \E h : RowSumsUpTo(h, e, a, s, n)}
  <1>1. 0 \in Good
    <2>1. RowSumsUpTo([k \in 0 .. 0 |-> 0], e, a, s, 0)
      BY DEF RowSumsUpTo
    <2> QED BY <2>1
  <1>2. ASSUME NEW n \in 1 .. MaxRows, n - 1 \in Good
        PROVE  n \in Good
    <2>1. PICK h : RowSumsUpTo(h, e, a, s, n - 1)
      BY <1>2
    <2> DEFINE i == [k \in 0 .. n |-> IF k = 0 THEN 0 ELSE h[k - 1] + e[Row(a, s, k)]]
    <2>2. \A k \in 0 .. n - 1 : i[k] = h[k]
      BY <2>1 DEF RowSumsUpTo
    <2>3. i = [k \in 0 .. n |-> IF k = 0 THEN 0 ELSE i[k - 1] + e[Row(a, s, k)]]
      <3>1. \A k \in 0 .. n : k # 0 => i[k - 1] = h[k - 1]
        <4>1. \A k \in 0 .. n : k # 0 => k - 1 \in 0 .. n - 1
          OBVIOUS
        <4> HIDE DEF i
        <4> QED BY <2>2, <4>1
      <3>2. \A k \in 0 .. n : (IF k = 0 THEN 0 ELSE h[k - 1] + e[Row(a, s, k)])
                              = IF k = 0 THEN 0 ELSE i[k - 1] + e[Row(a, s, k)]
        <4> HIDE DEF i
        <4> QED BY <3>1
      <3> QED BY <3>2
    <2>4. RowSumsUpTo(i, e, a, s, n)
      BY <2>3 DEF RowSumsUpTo
    <2> QED BY <2>4
  <1>3. MaxRows \in Good
    <2> HIDE DEF Good
    <2> QED BY <1>1, <1>2, NumberInduction
  <1>4. PICK h : RowSumsUpTo(h, e, a, s, MaxRows)
    BY <1>3
  <1> DEFINE F == CHOOSE upTo : upTo = [k \in 0 .. MaxRows |->
                    IF k = 0 THEN 0 ELSE upTo[k - 1] + e[Row(a, s, k)]]
  <1>5. F = [k \in 0 .. MaxRows |-> IF k = 0 THEN 0 ELSE F[k - 1] + e[Row(a, s, k)]]
    BY <1>4 DEF RowSumsUpTo
  <1>6. F[MaxRows] = RowSum(e, a, s)
    BY DEF RowSum
  <1> HIDE DEF F
  <1>7. IsRowSums(F, e, a, s)
    BY <1>5 DEF IsRowSums
  <1> QED
    BY <1>6, <1>7

\* The sum of sums, and the type of a sum of integers.
LEMMA RowSumPlus ==
  ASSUME NEW a \in Accounts, NEW s \in Seeds, NEW f \in [Guids -> Int],
         NEW e \in [Guids -> Int]
  PROVE  /\ RowSum(f, a, s) \in Int /\ RowSum(e, a, s) \in Int
         /\ RowSum([g \in Guids |-> f[g] + e[g]], a, s) = RowSum(f, a, s) + RowSum(e, a, s)
  <1> MaxRows \in Nat
    BY InventoryAssumption
  <1>0. \A k \in 1 .. MaxRows : Row(a, s, k) \in Guids
    BY DEF Row, Guids
  <1> DEFINE h == [g \in Guids |-> f[g] + e[g]]
  <1>1. PICK F : IsRowSums(F, f, a, s) /\ F[MaxRows] = RowSum(f, a, s)
    BY RowSumsOf
  <1>2. PICK E : IsRowSums(E, e, a, s) /\ E[MaxRows] = RowSum(e, a, s)
    BY RowSumsOf
  <1>3. PICK H : IsRowSums(H, h, a, s) /\ H[MaxRows] = RowSum(h, a, s)
    <2> HIDE DEF h
    <2> QED BY RowSumsOf
  <1>h. \A k \in 1 .. MaxRows : h[Row(a, s, k)] = f[Row(a, s, k)] + e[Row(a, s, k)]
    BY <1>0
  <1> HIDE DEF h
  <1> DEFINE Good == {k \in 0 .. MaxRows : F[k] \in Int /\ E[k] \in Int /\ H[k] = F[k] + E[k]}
  <1>4. 0 \in Good
    BY <1>1, <1>2, <1>3 DEF IsRowSums
  <1>5. ASSUME NEW k \in 1 .. MaxRows, k - 1 \in Good
        PROVE  k \in Good
    <2> DEFINE r == Row(a, s, k)
    <2>1. F[k] = F[k - 1] + f[r] /\ E[k] = E[k - 1] + e[r] /\ H[k] = H[k - 1] + h[r]
      BY <1>1, <1>2, <1>3 DEF IsRowSums
    <2>2. f[r] \in Int /\ e[r] \in Int /\ h[r] = f[r] + e[r]
      BY <1>0, <1>h
    <2>3. F[k - 1] \in Int /\ E[k - 1] \in Int /\ H[k - 1] = F[k - 1] + E[k - 1]
      BY <1>5
    <2> HIDE DEF r
    <2>4. F[k] \in Int /\ E[k] \in Int /\ H[k] = F[k] + E[k]
      BY <2>1, <2>2, <2>3
    <2> QED BY <2>4
  <1>6. MaxRows \in Good
    <2> HIDE DEF Good
    <2> QED BY <1>4, <1>5, NumberInduction
  <1> QED
    BY <1>1, <1>2, <1>3, <1>6 DEF h

\* A function that is 0 at every row but one.
LEMMA RowSumSingle ==
  ASSUME NEW a \in Accounts, NEW s \in Seeds, NEW e, NEW g \in Guids, NEW n \in Int,
         \A r \in Guids : e[r] = IF r = g THEN n ELSE 0
  PROVE  RowSum(e, a, s) = IF g.account = a /\ g.seed = s THEN n ELSE 0
  <1> MaxRows \in Nat
    BY InventoryAssumption
  <1> DEFINE mine == g.account = a /\ g.seed = s
  <1>0. g.num \in 1 .. MaxRows
        /\ \A k \in 1 .. MaxRows : Row(a, s, k) \in Guids /\ (Row(a, s, k) = g <=> mine /\ k = g.num)
    BY DEF Row, Guids
  <1>1. PICK F : IsRowSums(F, e, a, s) /\ F[MaxRows] = RowSum(e, a, s)
    BY RowSumsOf
  <1> DEFINE Good == {k \in 0 .. MaxRows : F[k] = IF mine /\ g.num <= k THEN n ELSE 0}
  <1>2. 0 \in Good
    BY <1>0, <1>1 DEF IsRowSums
  <1>3. ASSUME NEW k \in 1 .. MaxRows, k - 1 \in Good
        PROVE  k \in Good
    <2>1. F[k] = F[k - 1] + e[Row(a, s, k)]
      BY <1>1 DEF IsRowSums
    <2>2. e[Row(a, s, k)] = IF mine /\ k = g.num THEN n ELSE 0
      BY <1>0
    <2>3. F[k - 1] = IF mine /\ g.num <= k - 1 THEN n ELSE 0
      BY <1>3
    <2> HIDE DEF mine
    <2>4. F[k] = IF mine /\ g.num <= k THEN n ELSE 0
      BY <1>0, <2>1, <2>2, <2>3
    <2> QED BY <2>4
  <1>4. MaxRows \in Good
    <2> HIDE DEF Good
    <2> QED BY <1>2, <1>3, NumberInduction
  <1> QED
    BY <1>0, <1>1, <1>4

\* A sum of natural numbers is one, and no row exceeds it.
LEMMA RowSumNat ==
  ASSUME NEW a \in Accounts, NEW s \in Seeds, NEW e, \A g \in Guids : e[g] \in Nat
  PROVE  /\ RowSum(e, a, s) \in Nat
         /\ \A g \in RowsOf(a, s) : e[g] <= RowSum(e, a, s)
  <1> MaxRows \in Nat
    BY InventoryAssumption
  <1>0. \A k \in 1 .. MaxRows : e[Row(a, s, k)] \in Nat
    BY DEF Row, Guids
  <1>1. PICK F : IsRowSums(F, e, a, s) /\ F[MaxRows] = RowSum(e, a, s)
    BY RowSumsOf
  <1> DEFINE Good == {k \in 0 .. MaxRows : /\ F[k] \in Nat
                                           /\ \A j \in 1 .. k : e[Row(a, s, j)] <= F[k]}
  <1>2. 0 \in Good
    BY <1>1 DEF IsRowSums
  <1>3. ASSUME NEW k \in 1 .. MaxRows, k - 1 \in Good
        PROVE  k \in Good
    <2>1. F[k] = F[k - 1] + e[Row(a, s, k)]
      BY <1>1 DEF IsRowSums
    <2>2. F[k] \in Nat /\ F[k - 1] \in Nat /\ F[k - 1] <= F[k] /\ e[Row(a, s, k)] <= F[k]
      BY <1>0, <1>3, <2>1
    <2>3. ASSUME NEW j \in 1 .. k
          PROVE  e[Row(a, s, j)] <= F[k]
      <3>1. CASE j = k
        BY <2>2, <3>1
      <3>2. CASE j # k
        <4>1. j \in 1 .. k - 1 /\ j \in 1 .. MaxRows
          BY <3>2
        <4>2. e[Row(a, s, j)] <= F[k - 1] /\ e[Row(a, s, j)] \in Nat
          BY <1>0, <1>3, <4>1
        <4> QED BY <2>2, <4>2
      <3> QED BY <3>1, <3>2
    <2> QED BY <2>2, <2>3
  <1>4. MaxRows \in Good
    <2> HIDE DEF Good
    <2> QED BY <1>2, <1>3, NumberInduction
  <1>5. ASSUME NEW g \in RowsOf(a, s)
        PROVE  g = Row(a, s, g.num) /\ g.num \in 1 .. MaxRows
    BY DEF RowsOf, Row
  <1> QED
    BY <1>1, <1>4, <1>5

-----------------------------------------------------------------------------
(* The inductive invariant *)

Adding == {"addPick", "addPut", "addCommit"}
Paying == {"payRead", "payWrite", "breakCommit"}

\* What a transaction with the local variables t, that has added d and locked L,
\* knows of the committed rows c and the committed money m.
Fits(t, d, L, c, m) ==
  /\ t.step \in {"idle", "addSum", "breakFind"} => L = {}
  /\ t.step \in {"idle", "addSum", "breakFind", "breakRemove"} => d = NoChange
  /\ t.step = "addSum" => t.guid = NoGuid /\ t.n \in 1 .. MaxAdd
  /\ t.step \in Adding =>
       /\ L \subseteq RowsOf(t.account, t.seed)
       /\ \A g \in Guids : /\ d[g] >= 0
                           /\ d[g] # 0 => /\ g \in L /\ c[g] < PileMax(g.seed)
                                          /\ g.seed \in Singles => c[g] + d[g] <= 1
       /\ t.n >= 0
       /\ RowSum(d, t.account, t.seed) + t.n \in 1 .. MaxAdd
  /\ t.step \in {"addPick", "addPut"} =>
       /\ t.n > 0
       /\ t.guid # NoGuid => /\ t.guid \in L /\ t.seed \in Piles
                             /\ c[t.guid] < PileMax(t.seed)
                             /\ t.current < PileMax(t.seed)
       /\ t.guid = NoGuid /\ t.seed \in Piles => L = {}
  /\ t.step = "addCommit" => t.n = 0 \/ d = NoChange
  /\ t.step \in Paying \cup {"breakRemove"} =>
       /\ c[t.guid] > 0 /\ c[t.guid] >= t.n /\ t.guid.account = t.account
       /\ L = {t.guid} \cup (IF t.step \in {"payWrite", "breakCommit"} THEN {t.account} ELSE {})
  /\ t.step = "breakRemove" => t.current = c[t.guid]
  /\ t.step \in Paying => d = [NoChange EXCEPT ![t.guid] = -t.n]
  /\ t.step = "payWrite" => t.purse = m[t.account]
  /\ t.step = "breakCommit" => t.purse = m[t.account] + t.n * BreakMoneyAmount[t.guid.seed]

AllFit == \A w \in Workers : Fits(tx[w], delta[w], locked[w], count, money)

\* A row, or an account, is locked by one worker only.
Exclusive == \A v, w \in Workers : v # w => locked[v] \cap locked[w] = {}

\* No row is ahead of NEWID().
Made(g) == g.num <= made[g.account][g.seed]
MadeRows == \A g \in Guids : /\ count[g] > 0 => Made(g)
                             /\ \A w \in Workers : g \in locked[w] => Made(g)

\* Of two workers that add to the same piles only one has picked a pile.
Picked(t) == t.step \in {"addPick", "addPut"} /\ t.guid # NoGuid
SamePiles(t, u) == t.account = u.account /\ t.seed = u.seed
PickAlone ==
  \A v, w \in Workers : v # w /\ SamePiles(tx[v], tx[w]) => ~ Picked(tx[v]) \/ ~ Picked(tx[w])

\* The additions to account a that were found to fit and are not committed yet,
\* and how many items one of them brings.
Accepted(w, a) == /\ tx[w].step \in Adding /\ tx[w].account = a
                  /\ tx[w].step = "addCommit" => tx[w].n = 0
Coming(a) == {w \in Workers : Accepted(w, a)}
Brings(w) == RowSum(delta[w], tx[w].account, tx[w].seed) + tx[w].n

Limit == Capacity + (Cardinality(Workers) - 1) * MaxAdd

\* Who breaks a negative count is known.
ForgedKnown ==
  \A w \in Workers : tx[w].step \in BreakSteps /\ tx[w].n < 0 => tx[w].account \in forged

\* What is there and what is still coming stays within the limit, however late
\* the others commit: the last one that was found to fit counted all of it that
\* was committed then.
FitsLimit(a) ==
  \/ Total(a) + Cardinality(Coming(a)) * MaxAdd <= Limit
  \/ \E w \in Coming(a) : Total(a) + Brings(w) + (Cardinality(Coming(a)) - 1) * MaxAdd <= Limit

IInv ==
  /\ TypeOK
  /\ AllFit
  /\ Exclusive
  /\ MadeRows
  /\ PickAlone
  /\ PileOvershoot
  /\ ForgedKnown
  /\ \A a \in Accounts \ forged : FitsLimit(a)

-----------------------------------------------------------------------------
(* Types *)

\* The step says which call a worker is in.
LEMMA InCall ==
  ASSUME TypeOK, NEW w \in Workers
  PROVE  /\ tx[w].step \in AddSteps <=> tx[w] \in Adds
         /\ tx[w].step \in BreakSteps <=> tx[w] \in Breaks
         /\ tx[w].step = "idle" <=> tx[w] = Idle
         /\ tx[w].step \in AddSteps \cup BreakSteps \cup {"idle"}
  <1>1. tx[w] \in {Idle} \cup Adds \cup Breaks
    BY DEF TypeOK
  <1>2. CASE tx[w] = Idle
    <2>1. tx[w].step = "idle" /\ "idle" \notin AddSteps \cup BreakSteps
      BY <1>2 DEF Idle, AddSteps, BreakSteps
    <2> QED BY <2>1, <1>2 DEF Adds, Breaks
  <1>3. CASE tx[w] \in Adds
    BY <1>3 DEF Adds, Breaks, Idle, AddSteps, BreakSteps
  <1>4. CASE tx[w] \in Breaks
    BY <1>4 DEF Adds, Breaks, Idle, AddSteps, BreakSteps
  <1> QED
    BY <1>1, <1>2, <1>3, <1>4

\* The fields of the local variables.
LEMMA AddFields ==
  ASSUME TypeOK, NEW w \in Workers, tx[w].step \in AddSteps
  PROVE  /\ tx[w] \in Adds /\ tx[w].account \in Accounts /\ tx[w].seed \in Seeds
         /\ tx[w].guid \in Guids \cup {NoGuid} /\ tx[w].current \in Nat /\ tx[w].n \in Nat
         /\ PileMax(tx[w].seed) \in Nat \ {0}
  <1>1. tx[w] \in Adds
    BY InCall
  <1> QED
    BY <1>1, InventoryAssumption DEF Adds, PileMax

LEMMA BreakFields ==
  ASSUME TypeOK, NEW w \in Workers, tx[w].step \in BreakSteps
  PROVE  /\ tx[w] \in Breaks /\ tx[w].account \in Accounts /\ tx[w].guid \in Guids
         /\ tx[w].current \in Nat /\ tx[w].n \in RemoveCounts /\ tx[w].n \in Int
         /\ tx[w].purse \in Int
         /\ tx[w].guid.account \in Accounts /\ tx[w].guid.seed \in Seeds
         /\ BreakMoneyAmount[tx[w].guid.seed] \in Nat
  <1>1. tx[w] \in Breaks
    BY InCall
  <1> QED
    BY <1>1, InventoryAssumption DEF Breaks, Guids, RemoveCounts

\* The fields of a row.
LEMMA GuidFields ==
  ASSUME NEW g \in Guids
  PROVE  /\ g.account \in Accounts /\ g.seed \in Seeds /\ g.num \in 1 .. MaxRows
         /\ g \in RowsOf(g.account, g.seed)
         /\ PileMax(g.seed) \in Nat \ {0}
         /\ g \notin Accounts /\ g # NoGuid
  BY InventoryAssumption, NoGuidAssumption DEF Guids, RowsOf, PileMax

LEMMA RowsFields ==
  ASSUME NEW a \in Accounts, NEW s \in Seeds, NEW g \in RowsOf(a, s)
  PROVE  g \in Guids /\ g.account = a /\ g.seed = s
  BY DEF Guids, RowsOf

-----------------------------------------------------------------------------
(* What the steps of others leave as it is *)

\* Fits looks at the locked rows and accounts only.
LEMMA FitsFrame ==
  ASSUME NEW t, NEW d, NEW L, NEW c, NEW m, NEW c2, NEW m2,
         Fits(t, d, L, c, m),
         t.step \in AddSteps => t.seed \in Seeds /\ t.account \in Accounts,
         t.step \in BreakSteps => t.guid \in Guids /\ t.account \in Accounts,
         \A g \in Guids : g \in L => c2[g] = c[g],
         \A a \in Accounts : a \in L => m2[a] = m[a]
  PROVE  Fits(t, d, L, c2, m2)
  <1> USE DEF AddSteps, BreakSteps, Adding, Paying
  <1>1. t.step \in Adding =>
          \A g \in Guids : /\ d[g] >= 0
                           /\ d[g] # 0 => /\ g \in L /\ c2[g] < PileMax(g.seed)
                                          /\ g.seed \in Singles => c2[g] + d[g] <= 1
    BY DEF Fits
  <1>2. t.step \in {"addPick", "addPut"} /\ t.guid # NoGuid =>
          /\ t.guid \in L /\ t.seed \in Piles
          /\ c2[t.guid] < PileMax(t.seed)
          /\ t.current < PileMax(t.seed)
    <2> SUFFICES ASSUME t.step \in {"addPick", "addPut"}, t.guid # NoGuid
                 PROVE  /\ t.guid \in L /\ t.seed \in Piles
                        /\ c2[t.guid] < PileMax(t.seed)
                        /\ t.current < PileMax(t.seed)
      OBVIOUS
    <2>1. t.guid \in L /\ t.seed \in Piles /\ c[t.guid] < PileMax(t.seed)
          /\ t.current < PileMax(t.seed) /\ L \subseteq RowsOf(t.account, t.seed)
      BY DEF Fits
    <2>2. t.guid \in Guids
      BY <2>1, RowsFields
    <2> QED BY <2>1, <2>2
  <1>3. t.step \in Paying \cup {"breakRemove"} => t.guid \in L /\ c2[t.guid] = c[t.guid]
    BY DEF Fits
  <1>4. t.step \in {"payWrite", "breakCommit"} => m2[t.account] = m[t.account]
    BY DEF Fits
  <1> QED
    BY <1>1, <1>2, <1>3, <1>4 DEF Fits

\* A transaction that is not there fits.
LEMMA FitsIdle ==
  ASSUME NEW c, NEW m
  PROVE  Fits(Idle, NoChange, {}, c, m)
  BY DEF Fits, Idle, Adding, Paying

\* What a transaction has written it has locked.
LEMMA WrittenLocked ==
  ASSUME TypeOK, AllFit, NEW w \in Workers, NEW g \in Guids, delta[w][g] # 0
  PROVE  g \in locked[w]
  <1>1. tx[w].step \in AddSteps \cup BreakSteps \cup {"idle"}
    BY InCall
  <1>2. Fits(tx[w], delta[w], locked[w], count, money)
    BY DEF AllFit
  <1>3. CASE tx[w].step \in {"idle", "addSum", "breakFind", "breakRemove"}
    BY <1>2, <1>3 DEF Fits, NoChange
  <1>4. CASE tx[w].step \in Adding
    BY <1>2, <1>4 DEF Fits
  <1>5. CASE tx[w].step \in Paying
    BY <1>2, <1>5 DEF Fits, NoChange
  <1> QED
    BY <1>1, <1>3, <1>4, <1>5 DEF AddSteps, BreakSteps, Adding, Paying

\* A step of w leaves the transactions of the others alone.
OthersKeep(w) ==
  \A v \in Workers \ {w} : tx'[v] = tx[v] /\ delta'[v] = delta[v] /\ locked'[v] = locked[v]

LEMMA OthersFit ==
  ASSUME TypeOK, AllFit, Exclusive, NEW w \in Workers, OthersKeep(w),
         \A g \in Guids : g \notin locked[w] => count'[g] = count[g],
         \A a \in Accounts : a \notin locked[w] => money'[a] = money[a],
         Fits(tx'[w], delta'[w], locked'[w], count', money')
  PROVE  AllFit'
  <1>1. ASSUME NEW v \in Workers, v # w
        PROVE  Fits(tx'[v], delta'[v], locked'[v], count', money')
    <2>1. tx'[v] = tx[v] /\ delta'[v] = delta[v] /\ locked'[v] = locked[v]
      BY <1>1 DEF OthersKeep
    <2>2. Fits(tx[v], delta[v], locked[v], count, money)
      BY DEF AllFit
    <2>3. /\ tx[v].step \in AddSteps => tx[v].seed \in Seeds /\ tx[v].account \in Accounts
          /\ tx[v].step \in BreakSteps => tx[v].guid \in Guids /\ tx[v].account \in Accounts
      BY AddFields, BreakFields
    <2>4. locked[v] \cap locked[w] = {}
      BY <1>1 DEF Exclusive
    <2>5. /\ \A g \in Guids : g \in locked[v] => count'[g] = count[g]
          /\ \A a \in Accounts : a \in locked[v] => money'[a] = money[a]
      BY <2>4
    <2>6. Fits(tx[v], delta[v], locked[v], count', money')
      BY <2>2, <2>3, <2>5, FitsFrame
    <2> QED BY <2>1, <2>6
  <1> QED
    BY <1>1 DEF AllFit

\* A step of w keeps track of negative counts.
ForgedKept(w) ==
  /\ forged \subseteq forged'
  /\ tx'[w].step \in BreakSteps /\ tx'[w].n < 0 => tx'[w].account \in forged'

LEMMA ForgedStep ==
  ASSUME IInv, NEW w \in Workers, OthersKeep(w), ForgedKept(w)
  PROVE  ForgedKnown'
  BY DEF IInv, OthersKeep, ForgedKept, ForgedKnown

\* Steps that do not commit: the limit.  Whoever is accepted afterwards was
\* accepted before, and brings as much.
LEMMA LimitKept ==
  ASSUME TypeOK, NEW a \in Accounts, FitsLimit(a), NEW w \in Workers, OthersKeep(w),
         Total(a)' = Total(a),
         Accepted(w, a)' <=> Accepted(w, a),
         Accepted(w, a) => Brings(w)' = Brings(w)
  PROVE  FitsLimit(a)'
  <1>2. \A v \in Workers : Accepted(v, a)' <=> Accepted(v, a)
    BY DEF OthersKeep, Accepted
  <1>3. Coming(a)' = Coming(a)
    BY <1>2 DEF Coming
  <1>4. \A v \in Coming(a) : Brings(v)' = Brings(v)
    <2>1. \A v \in Workers \ {w} : Brings(v)' = Brings(v)
      BY DEF OthersKeep, Brings
    <2> QED BY <2>1 DEF Coming
  <1>6. Limit' = Limit
    BY DEF Limit
  <1> QED
    BY <1>3, <1>4, <1>6 DEF FitsLimit

\* What an accepted addition brings, and the numbers of FitsLimit.
LEMMA BringsType ==
  ASSUME TypeOK, AllFit, NEW w \in Workers, tx[w].step \in Adding
  PROVE  Brings(w) \in 1 .. MaxAdd /\ Brings(w) \in Nat
  <1>1. Fits(tx[w], delta[w], locked[w], count, money)
    BY DEF AllFit
  <1>2. Brings(w) \in 1 .. MaxAdd
    BY <1>1 DEF Fits, Brings
  <1> QED
    BY <1>2

LEMMA HeldNat ==
  ASSUME TypeOK, NEW a \in Accounts
  PROVE  /\ \A s \in Seeds : Held(a, s) \in Nat
         /\ Total(a) \in Nat
  <1>1. \A g \in Guids : count[g] \in Nat
    BY DEF TypeOK
  <1>2. \A s \in Seeds : Held(a, s) \in Nat
    BY <1>1, RowSumNat DEF Held
  <1> DEFINE f == [s \in Seeds |-> Held(a, s)]
  <1>3. \A s \in Seeds : f[s] \in Nat
    BY <1>2
  <1> HIDE DEF f
  <1>4. SumFunctionOnSet(f, Seeds) \in Nat
    BY <1>3, SumNat, InventoryAssumption
  <1> QED
    BY <1>2, <1>4 DEF f, Total

LEMMA ComingFinite ==
  ASSUME NEW a \in Accounts
  PROVE  /\ IsFiniteSet(Coming(a)) /\ Cardinality(Coming(a)) \in Nat
         /\ Cardinality(Coming(a)) <= Cardinality(Workers)
         /\ Cardinality(Workers) \in Nat \ {0}
         /\ Limit \in Int /\ MaxAdd \in Nat \ {0} /\ Capacity \in Nat
  <1>1. IsFiniteSet(Coming(a)) /\ Cardinality(Coming(a)) <= Cardinality(Workers)
    BY InventoryAssumption, FS_Subset DEF Coming
  <1>2. Cardinality(Coming(a)) \in Nat /\ Cardinality(Workers) \in Nat /\ Cardinality(Workers) # 0
    BY <1>1, InventoryAssumption, FS_CardinalityType, FS_EmptySet
  <1>3. MaxAdd \in Nat \ {0} /\ Capacity \in Nat
    BY InventoryAssumption
  <1>4. (Cardinality(Workers) - 1) * MaxAdd \in Int
    BY <1>2, <1>3
  <1> QED
    BY <1>1, <1>2, <1>3, <1>4 DEF Limit

\* w is not accepted any more, and nothing more was committed than it brought.
LEMMA LimitLeft ==
  ASSUME TypeOK, AllFit, NEW w \in Workers, NEW a \in Accounts, OthersKeep(w),
         FitsLimit(a), Accepted(w, a), ~ Accepted(w, a)',
         Total(a)' \in Nat, Total(a)' <= Total(a) + Brings(w)
  PROVE  FitsLimit(a)'
  <1> DEFINE n == Cardinality(Coming(a))
  <1>1. \A v \in Workers \ {w} : (Accepted(v, a)' <=> Accepted(v, a)) /\ Brings(v)' = Brings(v)
    BY DEF OthersKeep, Accepted, Brings
  <1>2. Coming(a)' = Coming(a) \ {w} /\ w \in Coming(a)
    BY <1>1 DEF Coming
  <1>3. IsFiniteSet(Coming(a)) /\ n \in Nat /\ Limit \in Int /\ MaxAdd \in Nat
    BY ComingFinite
  <1>4. Cardinality(Coming(a)') = n - 1 /\ n # 0
    BY <1>2, <1>3, FS_RemoveElement, FS_EmptySet
  <1>5. Total(a) \in Nat /\ Brings(w) \in 1 .. MaxAdd
    BY HeldNat, BringsType DEF Accepted
  <1>6. Limit' = Limit
    BY DEF Limit
  <1>7. n * MaxAdd = (n - 1) * MaxAdd + MaxAdd /\ (n - 1) * MaxAdd = (n - 2) * MaxAdd + MaxAdd
        /\ n * MaxAdd \in Int /\ (n - 1) * MaxAdd \in Int /\ (n - 2) * MaxAdd \in Int
    BY <1>3
  <1>8. CASE Total(a) + n * MaxAdd <= Limit
    <2>1. Total(a)' + (n - 1) * MaxAdd <= Limit
      <3> DEFINE x == n * MaxAdd
                 y == (n - 1) * MaxAdd
      <3>1. x = y + MaxAdd /\ x \in Int /\ y \in Int /\ Total(a) + x <= Limit
        BY <1>7, <1>8
      <3> HIDE DEF x, y
      <3>2. Total(a)' + y <= Limit
        BY <3>1, <1>3, <1>5
      <3> QED BY <3>2 DEF y
    <2> QED BY <2>1, <1>4, <1>6 DEF FitsLimit
  <1>9. CASE \E v \in Coming(a) : Total(a) + Brings(v) + (n - 1) * MaxAdd <= Limit
    <2>1. PICK v \in Coming(a) : Total(a) + Brings(v) + (n - 1) * MaxAdd <= Limit
      BY <1>9
    <2>2. CASE v = w
      <3>1. Total(a)' + (n - 1) * MaxAdd <= Limit
        BY <1>3, <1>5, <1>7, <2>1, <2>2
      <3> QED BY <3>1, <1>4, <1>6 DEF FitsLimit
    <2>3. CASE v # w
      <3>1. v \in Coming(a)' /\ Brings(v)' = Brings(v)
        BY <1>1, <1>2, <2>1, <2>3 DEF Coming
      <3>2. Brings(v) \in Nat
        BY <2>1, BringsType DEF Coming, Accepted
      <3>3. Total(a)' + Brings(v) + (n - 2) * MaxAdd <= Limit
        <4> DEFINE y == (n - 1) * MaxAdd
                   z == (n - 2) * MaxAdd
        <4>1. y = z + MaxAdd /\ y \in Int /\ z \in Int /\ Total(a) + Brings(v) + y <= Limit
          BY <1>7, <2>1
        <4> HIDE DEF y, z
        <4>2. Total(a)' + Brings(v) + z <= Limit
          BY <4>1, <1>3, <1>5, <3>2
        <4> QED BY <4>2 DEF z
      <3>4. Cardinality(Coming(a)') - 1 = n - 2
        BY <1>3, <1>4
      <3> QED BY <3>1, <3>3, <3>4, <1>6 DEF FitsLimit
    <2> QED BY <2>2, <2>3
  <1> QED
    BY <1>8, <1>9 DEF FitsLimit

\* w was found to fit.
LEMMA LimitJoined ==
  ASSUME TypeOK, AllFit, NEW w \in Workers, NEW a \in Accounts, OthersKeep(w), count' = count,
         ~ Accepted(w, a), Accepted(w, a)',
         Brings(w)' \in Nat, Total(a) + Brings(w)' <= Capacity
  PROVE  FitsLimit(a)'
  <1> DEFINE n == Cardinality(Coming(a))
  <1>1. \A v \in Workers \ {w} : Accepted(v, a)' <=> Accepted(v, a)
    BY DEF OthersKeep, Accepted
  <1>2. Coming(a)' = Coming(a) \cup {w} /\ w \notin Coming(a)
    BY <1>1 DEF Coming
  <1>3. /\ IsFiniteSet(Coming(a)) /\ n \in Nat /\ Limit \in Int /\ MaxAdd \in Nat
        /\ Capacity \in Nat /\ Cardinality(Workers) \in Nat
    BY ComingFinite
  <1>4. Cardinality(Coming(a)') = n + 1
    BY <1>2, <1>3, FS_AddElement
  <1>5. n + 1 <= Cardinality(Workers)
    <2>1. Coming(a)' \in SUBSET Workers
      BY DEF Coming
    <2> QED BY <2>1, <1>4, InventoryAssumption, FS_Subset
  <1>6. n * MaxAdd <= (Cardinality(Workers) - 1) * MaxAdd
    <2>1. PICK k \in Nat : Cardinality(Workers) - 1 = n + k
      <3> Cardinality(Workers) - 1 - n \in Nat
        BY <1>3, <1>5
      <3> QED BY <1>3
    <2>2. (n + k) * MaxAdd = n * MaxAdd + k * MaxAdd /\ k * MaxAdd \in Nat /\ n * MaxAdd \in Nat
      BY <1>3, <2>1
    <2> QED BY <2>1, <2>2
  <1>7. Total(a)' = Total(a) /\ Total(a) \in Nat /\ Limit' = Limit
    BY HeldNat DEF Total, Held, RowSum, Limit
  <1>8. Total(a)' + Brings(w)' + n * MaxAdd <= Limit
    <2> DEFINE x == n * MaxAdd
               y == (Cardinality(Workers) - 1) * MaxAdd
    <2>1. x \in Int /\ y \in Int /\ x <= y /\ Limit = Capacity + y
      BY <1>3, <1>6 DEF Limit
    <2> HIDE DEF x, y
    <2>2. Total(a)' + Brings(w)' + x <= Limit
      BY <2>1, <1>3, <1>7
    <2> QED BY <2>2 DEF x
  <1>9. w \in Coming(a)' /\ Cardinality(Coming(a)') - 1 = n
    BY <1>2, <1>3, <1>4
  <1> QED
    BY <1>7, <1>8, <1>9 DEF FitsLimit

LEMMA TotalKept ==
  ASSUME NEW a \in Accounts, count' = count
  PROVE  Total(a)' = Total(a)
  BY DEF Total, Held, RowSum

LEMMA RowSumZero ==
  ASSUME NEW a \in Accounts, NEW s \in Seeds
  PROVE  RowSum(NoChange, a, s) = 0
  <1> MaxRows \in Nat
    BY InventoryAssumption
  <1>1. CASE MaxRows = 0
    <2>1. PICK F : IsRowSums(F, NoChange, a, s) /\ F[MaxRows] = RowSum(NoChange, a, s)
      BY RowSumsOf
    <2> QED BY <1>1, <2>1 DEF IsRowSums
  <1>2. CASE MaxRows # 0
    <2>1. Row(a, s, 1) \in Guids
      BY <1>2 DEF Row, Guids
    <2>2. \A r \in Guids : NoChange[r] = IF r = Row(a, s, 1) THEN 0 ELSE 0
      BY DEF NoChange
    <2>3. 0 \in Int
      OBVIOUS
    <2>4. RowSum(NoChange, a, s)
            = IF Row(a, s, 1).account = a /\ Row(a, s, 1).seed = s THEN 0 ELSE 0
      BY <2>1, <2>2, <2>3, RowSumSingle
    <2> QED BY <2>4
  <1> QED
    BY <1>1, <1>2

LEMMA RowSumChange ==
  ASSUME NEW a \in Accounts, NEW s \in Seeds, NEW f \in [Guids -> Int], NEW g \in Guids,
         NEW n \in Int
  PROVE  RowSum([f EXCEPT ![g] = @ + n], a, s)
           = RowSum(f, a, s) + IF g.account = a /\ g.seed = s THEN n ELSE 0
  <1> DEFINE e == [r \in Guids |-> IF r = g THEN n ELSE 0]
  <1>1. RowSum(e, a, s) = IF g.account = a /\ g.seed = s THEN n ELSE 0
    BY RowSumSingle
  <1>2. e \in [Guids -> Int]
    OBVIOUS
  <1>3. [f EXCEPT ![g] = @ + n] = [r \in Guids |-> f[r] + e[r]]
    <2>1. \A r \in Guids : f[r] \in Int /\ e[r] = IF r = g THEN n ELSE 0
      OBVIOUS
    <2> HIDE DEF e
    <2>2. \A r \in Guids : f[r] + e[r] = IF r = g THEN f[g] + n ELSE f[r]
      BY <2>1
    <2>3. [f EXCEPT ![g] = @ + n] = [r \in Guids |-> IF r = g THEN f[g] + n ELSE f[r]]
      OBVIOUS
    <2> QED BY <2>2, <2>3
  <1> HIDE DEF e
  <1>4. RowSum([r \in Guids |-> f[r] + e[r]], a, s) = RowSum(f, a, s) + RowSum(e, a, s)
    BY <1>2, RowSumPlus
  <1> QED
    BY <1>1, <1>3, <1>4

\* A step of w that commits nothing.
LEMMA StepInv ==
  ASSUME IInv, NEW w \in Workers, OthersKeep(w), ForgedKept(w), TypeOK', count' = count, money' = money,
         Fits(tx'[w], delta'[w], locked'[w], count, money),
         \A x \in locked'[w] : x \in locked[w] \/ \A v \in Workers \ {w} : x \notin locked[v],
         \A a \in Accounts, s \in Seeds : made[a][s] <= made'[a][s],
         \A g \in Guids : g \in locked'[w] => Made(g)',
         Picked(tx'[w]) =>
           \/ Picked(tx[w]) /\ SamePiles(tx'[w], tx[w])
           \/ \A v \in Workers \ {w} : RowsOf(tx'[w].account, tx'[w].seed) \cap locked[v] = {},
         \A a \in Accounts \ forged' : FitsLimit(a)'
  PROVE  IInv'
  <1> USE DEF IInv
  <1>1. AllFit'
    BY OthersFit
  <1>2. Exclusive'
    <2> SUFFICES ASSUME NEW v \in Workers, NEW u \in Workers, v # u
                 PROVE  locked'[v] \cap locked'[u] = {}
      BY DEF Exclusive
    <2>1. \A x \in Workers \ {w} : locked'[x] = locked[x] /\ locked[x] \cap locked'[w] = {}
      BY DEF OthersKeep, Exclusive
    <2>2. locked[v] \cap locked[u] = {}
      BY DEF Exclusive
    <2> QED BY <2>1, <2>2
  <1>3. MadeRows'
    <2> SUFFICES ASSUME NEW g \in Guids
                 PROVE  /\ count'[g] > 0 => Made(g)'
                        /\ \A v \in Workers : g \in locked'[v] => Made(g)'
      BY DEF MadeRows
    <2>1. Made(g) => Made(g)'
      <3>1. g.account \in Accounts /\ g.seed \in Seeds /\ g.num \in Nat
        BY GuidFields
      <3>2. made[g.account][g.seed] \in Nat /\ made'[g.account][g.seed] \in Nat
        BY <3>1, InventoryAssumption DEF TypeOK
      <3>3. made[g.account][g.seed] <= made'[g.account][g.seed]
        BY <3>1
      <3> QED BY <3>1, <3>2, <3>3 DEF Made
    <2>2. ASSUME NEW v \in Workers, v # w, g \in locked'[v]
          PROVE  Made(g)'
      BY <2>1, <2>2 DEF MadeRows, OthersKeep
    <2> QED BY <2>1, <2>2 DEF MadeRows
  <1>4. PickAlone'
    <2>1. ASSUME NEW v \in Workers \ {w}, SamePiles(tx[v], tx'[w]), Picked(tx[v]), Picked(tx'[w])
          PROVE  FALSE
      <3>1. CASE Picked(tx[w]) /\ SamePiles(tx'[w], tx[w])
        BY <2>1, <3>1 DEF PickAlone, SamePiles
      <3>2. CASE RowsOf(tx'[w].account, tx'[w].seed) \cap locked[v] = {}
        <4>1. Fits(tx[v], delta[v], locked[v], count, money)
          BY DEF AllFit
        <4>2. tx[v].guid \in locked[v] /\ locked[v] \subseteq RowsOf(tx[v].account, tx[v].seed)
          BY <2>1, <4>1 DEF Fits, Picked, Adding
        <4> QED BY <2>1, <3>2, <4>2 DEF SamePiles
      <3> QED BY <2>1, <3>1, <3>2
    <2>2. \A v \in Workers \ {w} : tx'[v] = tx[v]
      BY DEF OthersKeep
    <2> QED BY <2>1, <2>2 DEF PickAlone, SamePiles
  <1>5. PileOvershoot'
    BY DEF PileOvershoot, PileMax, ForgedKept
  <1>6. ForgedKnown'
    BY ForgedStep
  <1> QED
    BY <1>1, <1>2, <1>3, <1>4, <1>5, <1>6

\* A step of w that makes no row either, and locks rows that are there.
LEMMA QuietStepInv ==
  ASSUME IInv, NEW w \in Workers, OthersKeep(w), ForgedKept(w), TypeOK',
         UNCHANGED <<count, money, made>>,
         Fits(tx'[w], delta'[w], locked'[w], count, money),
         \A x \in locked'[w] : \/ x \in locked[w]
                               \/ /\ \A v \in Workers \ {w} : x \notin locked[v]
                                  /\ x \in Guids => count[x] > 0,
         Picked(tx'[w]) =>
           \/ Picked(tx[w]) /\ SamePiles(tx'[w], tx[w])
           \/ \A v \in Workers \ {w} : RowsOf(tx'[w].account, tx'[w].seed) \cap locked[v] = {},
         \A a \in Accounts \ forged' : FitsLimit(a)'
  PROVE  IInv'
  <1>1. \A a \in Accounts, s \in Seeds : made[a][s] <= made'[a][s]
    <2>1. \A a \in Accounts, s \in Seeds : made[a][s] \in Nat
      BY InventoryAssumption DEF IInv, TypeOK
    <2> QED BY <2>1
  <1>2. \A g \in Guids : g \in locked'[w] => Made(g)'
    BY DEF IInv, MadeRows, Made
  <1>3. count' = count /\ money' = money
    OBVIOUS
  <1> QED
    BY <1>1, <1>2, <1>3, StepInv

-----------------------------------------------------------------------------
(* AddInventoryItem *)

\* What IInv and the fields say of a worker in AddInventoryItem.
LEMMA AddFacts ==
  ASSUME IInv, NEW w \in Workers, tx[w].step \in AddSteps
  PROVE  /\ tx[w] \in Adds /\ tx[w].account \in Accounts /\ tx[w].seed \in Seeds
         /\ tx[w].guid \in Guids \cup {NoGuid} /\ tx[w].current \in Nat /\ tx[w].n \in Nat
         /\ PileMax(tx[w].seed) \in Nat \ {0}
         /\ Fits(tx[w], delta[w], locked[w], count, money)
         /\ delta[w] \in [Guids -> Int] /\ locked[w] \in SUBSET (Guids \cup Accounts)
         /\ count \in [Guids -> Nat]
  BY AddFields DEF IInv, AllFit, TypeOK

LEMMA TakeAddInv ==
  ASSUME IInv, NEW w \in Workers, NEW a \in Accounts, NEW s \in Seeds, NEW n \in 1 .. MaxAdd,
         TakeAdd(w, a, s, n)
  PROVE  IInv'
  <1> DEFINE t == [step |-> "addSum", account |-> a, seed |-> s,
                   guid |-> NoGuid, current |-> 0, n |-> n]
  <1> MaxAdd \in Nat /\ TypeOK
    BY InventoryAssumption DEF IInv
  <1>1. t \in Adds
    BY DEF Adds, AddSteps
  <1>2. tx' = [tx EXCEPT ![w] = t] /\ UNCHANGED <<count, money, made, delta, locked, forged>>
        /\ tx[w] = Idle /\ tasks' \in 0 .. MaxTasks
    BY InventoryAssumption DEF TakeAdd, TypeOK
  <1>3. TypeOK'
    BY <1>1, <1>2 DEF TypeOK
  <1>4. tx'[w] = t /\ OthersKeep(w)
    BY <1>2 DEF OthersKeep, TypeOK
  <1>5. Fits(tx[w], delta[w], locked[w], count, money) /\ tx[w].step = "idle"
    BY <1>2 DEF IInv, AllFit, Idle
  <1>6. Fits(tx'[w], delta'[w], locked'[w], count, money)
    BY <1>2, <1>4, <1>5 DEF Fits, Adding, Paying
  <1>7. ~ Picked(tx'[w])
    BY <1>4 DEF Picked
  <1>8. \A b \in Accounts \ forged' : FitsLimit(b)'
    <2>1. \A b \in Accounts : ~ Accepted(w, b) /\ ~ Accepted(w, b)'
      BY <1>4, <1>5 DEF Accepted, Adding
    <2> QED BY <1>2, <1>4, <2>1, TotalKept, LimitKept DEF IInv
  <1>9. ForgedKept(w)
    BY <1>2, <1>4 DEF ForgedKept, BreakSteps
  <1> QED
    BY <1>2, <1>3, <1>4, <1>6, <1>7, <1>8, <1>9, QuietStepInv

LEMMA AddSumInv ==
  ASSUME IInv, NEW w \in Workers, AddSum(w)
  PROVE  IInv'
  <1> DEFINE a == tx[w].account
  <1> TypeOK
    BY DEF IInv
  <1>1. tx[w].step = "addSum" /\ tx[w].step \in AddSteps
    BY DEF AddSum, Runs, At, AddSteps
  <1>2. tx[w] \in Adds /\ tx[w].account \in Accounts /\ tx[w].seed \in Seeds
        /\ Fits(tx[w], delta[w], locked[w], count, money)
    BY <1>1, AddFacts
  <1>3. PICK step \in {"addPick", "addCommit"} :
          /\ tx' = [tx EXCEPT ![w] = [tx[w] EXCEPT !.step = step]]
          /\ step = "addPick" => ~ Total(a) + tx[w].n > Capacity
    BY DEF AddSum
  <1>4. UNCHANGED <<count, money, made, delta, locked, tasks, forged>>
    BY DEF AddSum
  <1>5. [tx[w] EXCEPT !.step = step] \in Adds
    BY <1>2 DEF Adds, AddSteps
  <1>6. TypeOK'
    BY <1>3, <1>4, <1>5 DEF TypeOK
  <1>7. tx'[w] = [tx[w] EXCEPT !.step = step] /\ OthersKeep(w)
    BY <1>3, <1>4 DEF OthersKeep, TypeOK
  <1>8. /\ tx'[w].step = step /\ tx'[w].account = a /\ tx'[w].seed = tx[w].seed
        /\ tx'[w].guid = tx[w].guid /\ tx'[w].n = tx[w].n
    BY <1>2, <1>7 DEF Adds
  <1>9. /\ tx[w].guid = NoGuid /\ tx[w].n \in 1 .. MaxAdd
        /\ locked[w] = {} /\ delta[w] = NoChange
    BY <1>1, <1>2 DEF Fits
  <1>10. RowSum(delta[w], tx[w].account, tx[w].seed) = 0
    BY <1>2, <1>9, RowSumZero
  <1>11. Fits(tx'[w], delta'[w], locked'[w], count, money)
    <2>1. \A g \in Guids : delta[w][g] = 0
      BY <1>9 DEF NoChange
    <2>2. MaxAdd \in Nat
      BY InventoryAssumption
    <2>3. RowSum(delta[w], tx'[w].account, tx'[w].seed) + tx'[w].n \in 1 .. MaxAdd
          /\ tx'[w].n > 0 /\ tx'[w].n >= 0
      BY <1>8, <1>9, <1>10, <2>2
    <2> QED BY <1>4, <1>8, <1>9, <2>1, <2>3 DEF Fits, Adding, Paying
  <1>12. \A b \in Accounts \ forged' : FitsLimit(b)'
    <2> SUFFICES ASSUME NEW b \in Accounts \ forged' PROVE FitsLimit(b)'
      OBVIOUS
    <2>1. ~ Accepted(w, b)
      BY <1>1 DEF Accepted, Adding
    <2>2. CASE Accepted(w, b)'
      <3>1. step = "addPick" /\ b = a
        BY <1>8, <1>9, <2>2 DEF Accepted
      <3>2. Brings(w)' = tx[w].n
        BY <1>4, <1>8, <1>9, <1>10 DEF Brings
      <3>3. Total(b) + Brings(w)' <= Capacity /\ Brings(w)' \in Nat
        BY <1>3, <1>9, <3>1, <3>2, HeldNat, InventoryAssumption
      <3> QED BY <1>4, <1>7, <2>1, <2>2, <3>3, LimitJoined DEF IInv
    <2>3. CASE ~ Accepted(w, b)'
      BY <1>4, <1>7, <2>1, <2>3, TotalKept, LimitKept DEF IInv
    <2> QED BY <2>2, <2>3
  <1>13. ~ Picked(tx'[w])
    BY <1>8, <1>9 DEF Picked
  <1>14. ForgedKept(w)
    BY <1>4, <1>8 DEF ForgedKept, BreakSteps
  <1> QED
    BY <1>4, <1>6, <1>7, <1>11, <1>12, <1>13, <1>14, QuietStepInv

\* Which steps wait for nobody else's rows.
LEMMA PickAlonePile ==
  ASSUME NEW w \in Workers, Runs(w, "addPick"), tx[w].seed \in Piles
  PROVE  \A v \in Workers \ {w} : RowsOf(tx[w].account, tx[w].seed) \cap locked[v] = {}
  BY DEF Runs, Waits, PickWaitsFor, At

LEMMA AddPickInv ==
  ASSUME IInv, NEW w \in Workers, AddPick(w)
  PROVE  IInv'
  <1> TypeOK
    BY DEF IInv
  <1>1. tx[w].step = "addPick" /\ tx[w].step \in AddSteps /\ tx[w].step \in Adding
    BY DEF AddPick, Runs, At, AddSteps, Adding
  <1>2. /\ tx[w] \in Adds /\ tx[w].account \in Accounts /\ tx[w].seed \in Seeds
        /\ tx[w].guid \in Guids \cup {NoGuid} /\ tx[w].current \in Nat /\ tx[w].n \in Nat
        /\ PileMax(tx[w].seed) \in Nat \ {0}
        /\ Fits(tx[w], delta[w], locked[w], count, money)
        /\ delta[w] \in [Guids -> Int] /\ count \in [Guids -> Nat]
    BY <1>1, AddFacts
  <1>3. UNCHANGED <<count, money, made, delta, tasks, forged>>
    BY DEF AddPick
  <1>4. PICK guid \in Guids \cup {NoGuid}, current \in Nat :
          /\ tx' = [tx EXCEPT ![w] = [tx[w] EXCEPT !.step = "addPut", !.guid = guid,
                                                   !.current = current]]
          /\ \/ /\ tx[w].seed \in Piles /\ guid \in Room(w) /\ current = Seen(w, guid)
                /\ locked' = [locked EXCEPT ![w] = @ \cup {guid}]
             \/ /\ guid = tx[w].guid /\ current = tx[w].current /\ locked' = locked
             \/ /\ tx[w].seed \in Singles /\ guid = NoGuid /\ locked' = locked
    <2>1. CASE \E g \in Smallest(w) :
                 /\ tx[w].seed \in Piles
                 /\ tx' = [tx EXCEPT ![w] = [@ EXCEPT !.step = "addPut", !.guid = g,
                                                      !.current = Seen(w, g)]]
                 /\ Lock(w, g)
      <3>1. PICK g \in Smallest(w) :
                 /\ tx[w].seed \in Piles
                 /\ tx' = [tx EXCEPT ![w] = [@ EXCEPT !.step = "addPut", !.guid = g,
                                                      !.current = Seen(w, g)]]
                 /\ Lock(w, g)
        BY <2>1
      <3>2. g \in Room(w) /\ g \in Guids
        BY <1>2, RowsFields DEF Smallest, Room
      <3>3. Seen(w, g) \in Nat
        BY <1>2, <3>2 DEF Room, Seen
      <3> QED BY <1>2, <3>1, <3>2, <3>3 DEF Lock, TypeOK
    <2>2. CASE /\ tx[w].seed \in Piles /\ Room(w) = {}
               /\ tx' = [tx EXCEPT ![w].step = "addPut"]
               /\ UNCHANGED locked
      <3>1. [tx[w] EXCEPT !.step = "addPut"]
              = [tx[w] EXCEPT !.step = "addPut", !.guid = tx[w].guid, !.current = tx[w].current]
        BY <1>2 DEF Adds
      <3>2. tx' = [tx EXCEPT ![w] = [tx[w] EXCEPT !.step = "addPut"]]
        BY <2>2
      <3> QED BY <1>2, <2>2, <3>1, <3>2
    <2>3. CASE /\ tx[w].seed \in Singles
               /\ tx' = [tx EXCEPT ![w] = [@ EXCEPT !.step = "addPut", !.guid = NoGuid]]
               /\ UNCHANGED locked
      <3>1. [tx[w] EXCEPT !.step = "addPut", !.guid = NoGuid]
              = [tx[w] EXCEPT !.step = "addPut", !.guid = NoGuid, !.current = tx[w].current]
        BY <1>2 DEF Adds
      <3>2. tx' = [tx EXCEPT ![w] = [tx[w] EXCEPT !.step = "addPut", !.guid = NoGuid]]
        BY <2>3
      <3> QED BY <1>2, <2>3, <3>1, <3>2
    <2> QED BY <2>1, <2>2, <2>3 DEF AddPick
  <1> DEFINE t == [tx[w] EXCEPT !.step = "addPut", !.guid = guid, !.current = current]
  <1>5. /\ t \in Adds /\ t.step = "addPut" /\ t.account = tx[w].account /\ t.seed = tx[w].seed
        /\ t.guid = guid /\ t.current = current /\ t.n = tx[w].n
    BY <1>2 DEF Adds, AddSteps
  <1>6. tx' = [tx EXCEPT ![w] = t]
    BY <1>4
  <1> HIDE DEF t
  <1>7. /\ tx'[w] = t /\ locked[w] \subseteq locked'[w]
        /\ locked' \in [Workers -> SUBSET (Guids \cup Accounts)] /\ OthersKeep(w)
    <2>1. guid \in Room(w) => guid \in Guids
      BY <1>2, RowsFields DEF Room
    <2> QED BY <1>3, <1>4, <1>6, <2>1 DEF OthersKeep, TypeOK
  <1>8. TypeOK'
    BY <1>3, <1>5, <1>6, <1>7 DEF TypeOK
  <1>9. Fits(tx'[w], delta'[w], locked'[w], count, money)
    <2>1. /\ locked'[w] \subseteq RowsOf(t.account, t.seed)
          /\ t.guid # NoGuid => /\ t.guid \in locked'[w] /\ t.seed \in Piles
                                /\ count[t.guid] < PileMax(t.seed)
                                /\ t.current < PileMax(t.seed)
          /\ t.guid = NoGuid /\ t.seed \in Piles => locked'[w] = {}
      <3>1. CASE /\ tx[w].seed \in Piles /\ guid \in Room(w) /\ current = Seen(w, guid)
                 /\ locked' = [locked EXCEPT ![w] = @ \cup {guid}]
        <4>1. guid \in RowsOf(tx[w].account, tx[w].seed) /\ guid \in Guids
              /\ Seen(w, guid) < PileMax(tx[w].seed)
          BY <1>2, <3>1, RowsFields DEF Room
        <4>2. delta[w][guid] >= 0 /\ locked[w] \subseteq RowsOf(tx[w].account, tx[w].seed)
          BY <1>1, <1>2, <4>1 DEF Fits
        <4>3. count[guid] < PileMax(tx[w].seed)
          BY <1>2, <4>1, <4>2 DEF Seen
        <4>4. locked'[w] = locked[w] \cup {guid} /\ guid # NoGuid
          BY <3>1, <4>1, NoGuidAssumption DEF TypeOK
        <4> QED BY <1>5, <3>1, <4>1, <4>2, <4>3, <4>4
      <3>2. CASE guid = tx[w].guid /\ current = tx[w].current /\ locked' = locked
        BY <1>1, <1>2, <1>5, <3>2 DEF Fits
      <3>3. CASE tx[w].seed \in Singles /\ guid = NoGuid /\ locked' = locked
        BY <1>1, <1>2, <1>5, <3>3, InventoryAssumption DEF Fits
      <3> QED BY <1>4, <3>1, <3>2, <3>3
    <2>2. \A g \in Guids : /\ delta[w][g] >= 0
                           /\ delta[w][g] # 0 =>
                                /\ g \in locked'[w] /\ count[g] < PileMax(g.seed)
                                /\ g.seed \in Singles => count[g] + delta[w][g] <= 1
      BY <1>1, <1>2, <1>7 DEF Fits
    <2>3. t.n > 0 /\ t.n >= 0 /\ RowSum(delta[w], t.account, t.seed) + t.n \in 1 .. MaxAdd
      BY <1>1, <1>2, <1>5 DEF Fits
    <2> QED BY <1>3, <1>5, <1>7, <2>1, <2>2, <2>3 DEF Fits, Adding, Paying
  <1>10. \A x \in locked'[w] : \/ x \in locked[w]
                               \/ /\ \A v \in Workers \ {w} : x \notin locked[v]
                                  /\ x \in Guids => count[x] > 0
    <2> SUFFICES ASSUME NEW x \in locked'[w], x \notin locked[w]
                 PROVE  (\A v \in Workers \ {w} : x \notin locked[v]) /\ count[x] > 0
      OBVIOUS
    <2>1. x = guid /\ guid \in Room(w) /\ tx[w].seed \in Piles
      BY <1>4 DEF TypeOK
    <2>2. x \in Guids /\ 0 < Seen(w, x) /\ x \in RowsOf(tx[w].account, tx[w].seed)
      BY <1>2, <2>1, RowsFields DEF Room
    <2>3. delta[w][x] = 0
      BY <2>2, WrittenLocked DEF IInv
    <2>4. count[x] > 0
      BY <1>2, <2>2, <2>3 DEF Seen
    <2> QED BY <2>1, <2>2, <2>4, PickAlonePile DEF AddPick
  <1>11. Picked(tx'[w]) =>
           \/ Picked(tx[w]) /\ SamePiles(tx'[w], tx[w])
           \/ \A v \in Workers \ {w} : RowsOf(tx'[w].account, tx'[w].seed) \cap locked[v] = {}
    <2>1. CASE tx[w].seed \in Piles
      BY <1>5, <1>7, <2>1, PickAlonePile DEF AddPick
    <2>2. CASE tx[w].seed \notin Piles
      <3>1. guid = NoGuid \/ guid = tx[w].guid
        BY <1>4, <2>2
      <3> QED BY <1>1, <1>5, <1>7, <3>1 DEF Picked, SamePiles
    <2> QED BY <2>1, <2>2
  <1>12. \A b \in Accounts \ forged' : FitsLimit(b)'
    <2> SUFFICES ASSUME NEW b \in Accounts \ forged' PROVE FitsLimit(b)'
      OBVIOUS
    <2>1. Accepted(w, b)' <=> Accepted(w, b)
      BY <1>1, <1>5, <1>7 DEF Accepted, Adding
    <2>2. Brings(w)' = Brings(w)
      BY <1>3, <1>5, <1>7 DEF Brings
    <2> QED BY <1>3, <1>7, <2>1, <2>2, TotalKept, LimitKept DEF IInv
  <1>13. ForgedKept(w)
    BY <1>3, <1>5, <1>7 DEF ForgedKept, BreakSteps
  <1> QED
    BY <1>3, <1>7, <1>8, <1>9, <1>10, <1>11, <1>12, <1>13, QuietStepInv

\* Made rows stay made.
LEMMA MadeKept ==
  ASSUME TypeOK, TypeOK', \A a \in Accounts, s \in Seeds : made[a][s] <= made'[a][s],
         NEW g \in Guids, Made(g)
  PROVE  Made(g)'
  <1>1. g.account \in Accounts /\ g.seed \in Seeds /\ g.num \in Nat
    BY GuidFields
  <1>2. made[g.account][g.seed] \in Nat /\ made'[g.account][g.seed] \in Nat
    BY <1>1, InventoryAssumption DEF TypeOK
  <1>3. made[g.account][g.seed] <= made'[g.account][g.seed]
    BY <1>1
  <1> QED BY <1>1, <1>2, <1>3 DEF Made

\* k items go into a row that has room, or is new.
LEMMA PutInv ==
  ASSUME IInv, NEW w \in Workers, tx[w].step = "addPut",
         NEW k \in Nat \ {0}, k <= tx[w].n,
         NEW g \in RowsOf(tx[w].account, tx[w].seed), Put(w, g, k),
         UNCHANGED <<count, money, tasks, forged>>,
         made' \in [Accounts -> [Seeds -> 0 .. MaxRows]],
         \A a \in Accounts, s \in Seeds : made[a][s] <= made'[a][s],
         Made(g)', g \in locked[w] \/ \A v \in Workers \ {w} : g \notin locked[v],
         count[g] < PileMax(tx[w].seed),
         tx[w].seed \in Singles => count[g] + delta[w][g] + k <= 1,
         tx[w].seed \in Piles => tx[w].guid # NoGuid \/ k = tx[w].n
  PROVE  IInv'
  <1> TypeOK
    BY DEF IInv
  <1>1. tx[w].step \in AddSteps /\ tx[w].step \in Adding
    BY DEF AddSteps, Adding
  <1>2. /\ tx[w] \in Adds /\ tx[w].account \in Accounts /\ tx[w].seed \in Seeds
        /\ tx[w].guid \in Guids \cup {NoGuid} /\ tx[w].current \in Nat /\ tx[w].n \in Nat
        /\ PileMax(tx[w].seed) \in Nat \ {0}
        /\ Fits(tx[w], delta[w], locked[w], count, money)
        /\ delta[w] \in [Guids -> Int] /\ count \in [Guids -> Nat]
    BY <1>1, AddFacts
  <1>3. g \in Guids /\ g.account = tx[w].account /\ g.seed = tx[w].seed
    BY <1>2, RowsFields
  <1> DEFINE step == IF tx[w].n > k THEN "addPick" ELSE "addCommit"
             t == [tx[w] EXCEPT !.n = tx[w].n - k, !.step = step]
             d == [delta[w] EXCEPT ![g] = @ + k]
  <1>s. step \in {"addPick", "addCommit"} /\ (step = "addPick" => tx[w].n > k)
        /\ (step = "addCommit" => tx[w].n = k)
    <2>1. CASE tx[w].n > k
      BY <2>1
    <2>2. CASE ~ (tx[w].n > k)
      <3>1. \A i, j \in Nat : i <= j /\ ~ (j > i) => j = i
        OBVIOUS
      <3>2. k \in Nat /\ tx[w].n \in Nat /\ k <= tx[w].n
        BY <1>2
      <3>3. tx[w].n = k
        BY <2>2, <3>1, <3>2
      <3> QED BY <2>2, <3>3
    <2> QED BY <2>1, <2>2
  <1>4. tx' = [tx EXCEPT ![w] = t] /\ delta' = [delta EXCEPT ![w] = d]
        /\ locked' = [locked EXCEPT ![w] = @ \cup {g}]
    BY DEF Put, Lock
  <1> HIDE DEF step
  <1>5. /\ t \in Adds /\ t.step = step /\ t.account = tx[w].account /\ t.seed = tx[w].seed
        /\ t.guid = tx[w].guid /\ t.current = tx[w].current /\ t.n = tx[w].n - k
    <2>1. step \in AddSteps
      BY <1>s DEF AddSteps
    <2>2. tx[w].n - k \in Nat
      <3>1. \A i, j \in Nat : i <= j => j - i \in Nat
        OBVIOUS
      <3>2. k \in Nat /\ tx[w].n \in Nat /\ k <= tx[w].n
        BY <1>2
      <3> QED BY <3>1, <3>2
    <2> QED BY <1>2, <2>1, <2>2 DEF Adds
  <1>6. d \in [Guids -> Int] /\ \A r \in Guids : d[r] = IF r = g THEN delta[w][g] + k ELSE delta[w][r]
    BY <1>2, <1>3
  <1>7. RowSum(d, tx[w].account, tx[w].seed) = RowSum(delta[w], tx[w].account, tx[w].seed) + k
    BY <1>2, <1>3, RowSumChange
  <1>8. RowSum(delta[w], tx[w].account, tx[w].seed) \in Int
    BY <1>2, RowSumPlus
  <1> HIDE DEF t, d
  <1>9. /\ tx'[w] = t /\ delta'[w] = d /\ locked'[w] = locked[w] \cup {g}
        /\ OthersKeep(w)
    BY <1>4 DEF OthersKeep, TypeOK
  <1>10. TypeOK'
    BY <1>3, <1>4, <1>5, <1>6 DEF TypeOK
  <1>11. Fits(tx'[w], delta'[w], locked'[w], count, money)
    <2>1. ASSUME NEW r \in Guids
          PROVE  /\ d[r] >= 0
                 /\ d[r] # 0 => /\ r \in locked'[w] /\ count[r] < PileMax(r.seed)
                                /\ r.seed \in Singles => count[r] + d[r] <= 1
      <3>1. /\ delta[w][r] \in Int /\ delta[w][r] >= 0
            /\ delta[w][r] # 0 => /\ r \in locked[w] /\ count[r] < PileMax(r.seed)
                                  /\ r.seed \in Singles => count[r] + delta[w][r] <= 1
        BY <1>1, <1>2 DEF Fits
      <3>2. CASE r = g
        BY <1>2, <1>3, <1>6, <1>9, <3>1, <3>2
      <3>3. CASE r # g
        BY <1>6, <1>9, <3>1, <3>3
      <3> QED BY <3>2, <3>3
    <2>2. locked'[w] \subseteq RowsOf(t.account, t.seed)
      BY <1>1, <1>2, <1>5, <1>9 DEF Fits
    <2>3. t.n >= 0 /\ RowSum(d, t.account, t.seed) + t.n \in 1 .. MaxAdd
      <3>1. RowSum(delta[w], tx[w].account, tx[w].seed) + tx[w].n \in 1 .. MaxAdd
        BY <1>1, <1>2 DEF Fits
      <3> QED BY <1>2, <1>5, <1>7, <1>8, <3>1
    <2>4. step = "addPick" => /\ t.n > 0
                              /\ t.guid # NoGuid => /\ t.guid \in locked'[w] /\ t.seed \in Piles
                                                    /\ count[t.guid] < PileMax(t.seed)
                                                    /\ t.current < PileMax(t.seed)
                              /\ t.guid = NoGuid /\ t.seed \in Piles => locked'[w] = {}
      BY <1>1, <1>2, <1>5, <1>s, <1>9 DEF Fits
    <2>5. step = "addCommit" => t.n = 0
      BY <1>2, <1>5, <1>s
    <2> QED BY <1>5, <1>9, <1>s, <2>1, <2>2, <2>3, <2>4, <2>5 DEF Fits, Adding, Paying
  <1>12. \A x \in locked'[w] : x \in locked[w] \/ \A v \in Workers \ {w} : x \notin locked[v]
    BY <1>9
  <1>13. \A r \in Guids : r \in locked'[w] => Made(r)'
    BY <1>9, <1>10, MadeKept DEF IInv, MadeRows
  <1>14. Picked(tx'[w]) => Picked(tx[w]) /\ SamePiles(tx'[w], tx[w])
    BY <1>5, <1>9 DEF Picked, SamePiles
  <1>15. \A b \in Accounts \ forged' : FitsLimit(b)'
    <2> SUFFICES ASSUME NEW b \in Accounts \ forged' PROVE FitsLimit(b)'
      OBVIOUS
    <2>1. Accepted(w, b)' <=> Accepted(w, b)
      <3>1. step = "addCommit" => t.n = 0
        BY <1>2, <1>5, <1>s
      <3> QED BY <1>1, <1>5, <1>s, <1>9, <3>1 DEF Accepted, Adding
    <2>2. Brings(w)' = Brings(w)
      BY <1>2, <1>5, <1>7, <1>8, <1>9 DEF Brings
    <2> QED BY <1>9, <2>1, <2>2, TotalKept, LimitKept DEF IInv
  <1>16. ForgedKept(w)
    BY <1>5, <1>s, <1>9 DEF ForgedKept, BreakSteps
  <1> QED
    BY <1>9, <1>10, <1>11, <1>12, <1>13, <1>14, <1>15, <1>16, StepInv

LEMMA AddToPileInv ==
  ASSUME IInv, NEW w \in Workers, AddToPile(w)
  PROVE  IInv'
  <1> DEFINE room == PileMax(tx[w].seed) - tx[w].current
             k == Smaller(tx[w].n, room)
  <1> TypeOK
    BY DEF IInv
  <1>1. tx[w].step = "addPut" /\ tx[w].step \in AddSteps
    BY DEF AddToPile, Runs, At, AddSteps
  <1>2. /\ tx[w].account \in Accounts /\ tx[w].seed \in Seeds
        /\ tx[w].guid \in Guids \cup {NoGuid} /\ tx[w].current \in Nat /\ tx[w].n \in Nat
        /\ PileMax(tx[w].seed) \in Nat \ {0}
        /\ Fits(tx[w], delta[w], locked[w], count, money)
    BY <1>1, AddFacts
  <1>3. tx[w].guid \in Guids /\ tx[w].guid \in locked[w] /\ tx[w].seed \in Piles
        /\ count[tx[w].guid] < PileMax(tx[w].seed) /\ tx[w].current < PileMax(tx[w].seed)
        /\ tx[w].n > 0 /\ tx[w].guid \in RowsOf(tx[w].account, tx[w].seed)
    BY <1>1, <1>2 DEF Fits, Adding, AddToPile
  <1>g. PICK g \in Guids : g = tx[w].guid
    BY <1>3
  <1>4. k \in Nat \ {0} /\ k <= tx[w].n
    BY <1>2, <1>3 DEF Smaller
  <1>5. Put(w, g, k) /\ UNCHANGED <<count, money, made, tasks, forged>>
    BY <1>g DEF AddToPile
  <1>6. Made(g)'
    BY <1>3, <1>g, <1>5 DEF IInv, MadeRows, Made
  <1>7. /\ made' \in [Accounts -> [Seeds -> 0 .. MaxRows]]
        /\ \A a \in Accounts, s \in Seeds : made[a][s] <= made'[a][s]
    <2>1. \A a \in Accounts, s \in Seeds : made[a][s] \in Nat
      BY InventoryAssumption DEF TypeOK
    <2> QED BY <1>5, <2>1 DEF TypeOK
  <1>8. tx[w].seed \notin Singles /\ tx[w].guid # NoGuid
    BY <1>3, InventoryAssumption, NoGuidAssumption
  <1> HIDE DEF k
  <1> QED
    BY <1>1, <1>3, <1>g, <1>4, <1>5, <1>6, <1>7, <1>8, PutInv

LEMMA AddNewRowInv ==
  ASSUME IInv, NEW w \in Workers, AddNewRow(w)
  PROVE  IInv'
  <1> TypeOK
    BY DEF IInv
  <1>1. tx[w].step = "addPut" /\ tx[w].step \in AddSteps /\ tx[w].guid = NoGuid
    BY DEF AddNewRow, Runs, At, AddSteps
  <1>2. /\ tx[w].account \in Accounts /\ tx[w].seed \in Seeds /\ tx[w].n \in Nat
        /\ PileMax(tx[w].seed) \in Nat \ {0}
        /\ Fits(tx[w], delta[w], locked[w], count, money)
        /\ delta[w] \in [Guids -> Int] /\ count \in [Guids -> Nat]
    BY <1>1, AddFacts
  <1> DEFINE k == Smaller(tx[w].n, PileMax(tx[w].seed))
  <1>3. PICK g \in RowsOf(tx[w].account, tx[w].seed) :
          /\ g.num = made[g.account][g.seed] + 1
          /\ made' = [made EXCEPT ![g.account][g.seed] = @ + 1]
          /\ Put(w, g, k)
    BY DEF AddNewRow
  <1>4. UNCHANGED <<count, money, tasks, forged>>
    BY DEF AddNewRow
  <1>5. g \in Guids /\ g.account = tx[w].account /\ g.seed = tx[w].seed
    BY <1>2, RowsFields
  <1>6. g.account \in Accounts /\ g.seed \in Seeds /\ g.num \in 1 .. MaxRows /\ MaxRows \in Nat
    BY <1>5, GuidFields, InventoryAssumption
  <1>7. tx[w].n > 0 /\ tx[w].n <= MaxAdd /\ MaxAdd \in Nat
    <2>1. RowSum(delta[w], tx[w].account, tx[w].seed) \in Nat
      <3>1. \A r \in Guids : delta[w][r] \in Nat
        BY <1>1, <1>2 DEF Fits, Adding
      <3> QED BY <1>2, <3>1, RowSumNat
    <2>2. RowSum(delta[w], tx[w].account, tx[w].seed) + tx[w].n \in 1 .. MaxAdd /\ tx[w].n > 0
      BY <1>1, <1>2 DEF Fits, Adding
    <2> QED BY <1>2, <2>1, <2>2, InventoryAssumption
  <1>8. k \in Nat \ {0} /\ k <= tx[w].n /\ (tx[w].seed \in Piles => k = tx[w].n)
        /\ (tx[w].seed \in Singles => k = 1)
    <2>1. tx[w].seed \in Piles => PileMax(tx[w].seed) >= MaxAdd
      BY InventoryAssumption DEF PileMax
    <2>2. tx[w].seed \in Singles => PileMax(tx[w].seed) = 1
      BY InventoryAssumption DEF PileMax
    <2> QED BY <1>2, <1>7, <2>1, <2>2 DEF Smaller
  <1>9. ~ Made(g)
    <2>1. made[g.account][g.seed] \in Nat
      BY <1>6 DEF TypeOK
    <2> QED BY <1>3, <2>1 DEF Made
  <1>10. count[g] = 0 /\ \A v \in Workers : g \notin locked[v]
    BY <1>2, <1>5, <1>9 DEF IInv, MadeRows
  <1>11. delta[w][g] = 0
    BY <1>5, <1>10, WrittenLocked DEF IInv
  <1>12. /\ made' \in [Accounts -> [Seeds -> 0 .. MaxRows]]
         /\ \A a \in Accounts, s \in Seeds :
              made'[a][s] = IF a = g.account /\ s = g.seed THEN made[a][s] + 1 ELSE made[a][s]
    <2>1. made[g.account][g.seed] + 1 \in 0 .. MaxRows
      BY <1>3, <1>6
    <2>2. made[g.account] \in [Seeds -> 0 .. MaxRows]
      BY <1>6 DEF TypeOK
    <2> DEFINE row == [made[g.account] EXCEPT ![g.seed] = @ + 1]
    <2>3. row \in [Seeds -> 0 .. MaxRows]
      BY <1>6, <2>1, <2>2
    <2>4. \A s \in Seeds : row[s] = IF s = g.seed THEN made[g.account][s] + 1 ELSE made[g.account][s]
      BY <2>2
    <2>5. made' = [made EXCEPT ![g.account] = row]
      BY <1>3
    <2> HIDE DEF row
    <2> QED BY <1>6, <2>3, <2>4, <2>5 DEF TypeOK
  <1>13. \A a \in Accounts, s \in Seeds : made[a][s] <= made'[a][s]
    <2>1. \A a \in Accounts, s \in Seeds : made[a][s] \in Int
      BY <1>6 DEF TypeOK
    <2> QED BY <1>12, <2>1
  <1>14. Made(g)'
    <2>1. made'[g.account][g.seed] = g.num
      BY <1>3, <1>6, <1>12
    <2> QED BY <1>6, <2>1 DEF Made
  <1>15. count[g] < PileMax(tx[w].seed)
         /\ (tx[w].seed \in Singles => count[g] + delta[w][g] + k <= 1)
    BY <1>2, <1>8, <1>10, <1>11
  <1> HIDE DEF k
  <1> QED
    BY <1>1, <1>3, <1>4, <1>8, <1>10, <1>12, <1>13, <1>14, <1>15, PutInv

\* The end of a transaction that commits nothing.
LEMMA ReleaseInv ==
  ASSUME IInv, NEW w \in Workers, tx[w] # Idle, Release(w), UNCHANGED <<count, money>>
  PROVE  IInv'
  <1> TypeOK
    BY DEF IInv
  <1>1. /\ tx'[w] = Idle /\ delta'[w] = NoChange /\ locked'[w] = {} /\ OthersKeep(w)
        /\ UNCHANGED <<count, money, made, tasks, forged>>
    BY DEF Release, OthersKeep, TypeOK
  <1>2. TypeOK'
    <2>1. NoChange \in [Guids -> Int]
      BY DEF NoChange
    <2> QED BY <1>1, <2>1 DEF Release, TypeOK
  <1>3. Fits(tx'[w], delta'[w], locked'[w], count, money)
    BY <1>1, FitsIdle
  <1>4. ~ Picked(tx'[w]) /\ \A b \in Accounts : ~ Accepted(w, b)'
    BY <1>1 DEF Picked, Idle, Accepted, Adding
  <1>5. ASSUME NEW b \in Accounts \ forged'
        PROVE  FitsLimit(b)'
    <2>1. Total(b)' = Total(b) /\ Total(b) \in Nat
      BY <1>1, TotalKept, HeldNat
    <2>2. CASE Accepted(w, b)
      <3>1. Brings(w) \in Nat
        BY <2>2, BringsType DEF Accepted, IInv
      <3>2. Total(b)' <= Total(b) + Brings(w)
        BY <2>1, <3>1
      <3> QED BY <1>1, <1>4, <2>1, <2>2, <3>2, LimitLeft DEF IInv
    <2>3. CASE ~ Accepted(w, b)
      BY <1>1, <1>4, <2>1, <2>3, LimitKept DEF IInv
    <2> QED BY <2>2, <2>3
  <1>6. ForgedKept(w)
    BY <1>1 DEF ForgedKept, BreakSteps, Idle
  <1> QED
    BY <1>1, <1>2, <1>3, <1>4, <1>5, <1>6, QuietStepInv

-----------------------------------------------------------------------------
(* BreakInventoryItem *)

\* Its steps have nothing to do with the limit and pick no pile.
LEMMA BreakStepInv ==
  ASSUME IInv, NEW w \in Workers, OthersKeep(w), ForgedKept(w), TypeOK',
         UNCHANGED <<count, money, made>>,
         tx[w].step \in BreakSteps \cup {"idle"}, tx'[w].step \in BreakSteps,
         Fits(tx'[w], delta'[w], locked'[w], count, money),
         \A x \in locked'[w] : \/ x \in locked[w]
                               \/ /\ \A v \in Workers \ {w} : x \notin locked[v]
                                  /\ x \in Guids => count[x] > 0
  PROVE  IInv'
  <1>1. ~ Picked(tx'[w])
    BY DEF Picked, BreakSteps
  <1>2. \A b \in Accounts : ~ Accepted(w, b) /\ ~ Accepted(w, b)'
    BY DEF Accepted, Adding, BreakSteps
  <1>3. \A b \in Accounts \ forged' : FitsLimit(b)'
    BY <1>2, TotalKept, LimitKept DEF IInv, ForgedKept
  <1> QED
    BY <1>1, <1>3, QuietStepInv

\* What IInv and the fields say of a worker in BreakInventoryItem.
LEMMA BreakFacts ==
  ASSUME IInv, NEW w \in Workers, tx[w].step \in BreakSteps
  PROVE  /\ tx[w] \in Breaks /\ tx[w].account \in Accounts /\ tx[w].guid \in Guids
         /\ tx[w].current \in Nat /\ tx[w].n \in RemoveCounts /\ tx[w].n \in Int
         /\ tx[w].purse \in Int /\ BreakMoneyAmount[tx[w].guid.seed] \in Nat
         /\ Fits(tx[w], delta[w], locked[w], count, money)
         /\ delta[w] \in [Guids -> Int] /\ locked[w] \in SUBSET (Guids \cup Accounts)
         /\ count \in [Guids -> Nat] /\ money \in [Accounts -> Int]
         /\ tx[w].account \notin Guids
         /\ tx[w].n < 0 => tx[w].account \in forged
  BY BreakFields, NoGuidAssumption DEF IInv, AllFit, TypeOK, ForgedKnown

LEMMA TakeBreakInv ==
  ASSUME IInv, NEW w \in Workers, NEW a \in Accounts, NEW g \in Guids, NEW n \in RemoveCounts,
         TakeBreak(w, a, g, n)
  PROVE  IInv'
  <1> DEFINE t == [step |-> "breakFind", account |-> a, guid |-> g,
                   current |-> 0, n |-> n, purse |-> 0]
  <1> TypeOK
    BY DEF IInv
  <1>1. t \in Breaks
    BY DEF Breaks, BreakSteps
  <1>2. tx' = [tx EXCEPT ![w] = t] /\ UNCHANGED <<count, money, made, delta, locked>>
        /\ tx[w] = Idle /\ tasks' \in 0 .. MaxTasks
        /\ forged \subseteq forged' /\ forged' \subseteq Accounts
        /\ (n >= 0 \/ a \in forged')
    BY InventoryAssumption DEF TakeBreak, TypeOK
  <1>3. TypeOK'
    BY <1>1, <1>2 DEF TypeOK
  <1>4. tx'[w] = t /\ OthersKeep(w)
    BY <1>2 DEF OthersKeep, TypeOK
  <1>5. Fits(tx[w], delta[w], locked[w], count, money) /\ tx[w].step = "idle"
    BY <1>2 DEF IInv, AllFit, Idle
  <1>6. Fits(tx'[w], delta'[w], locked'[w], count, money)
    BY <1>2, <1>4, <1>5 DEF Fits, Adding, Paying
  <1>7. tx'[w].step \in BreakSteps
    BY <1>4 DEF BreakSteps
  <1>8. ForgedKept(w)
    <2>1. tx'[w].n = n /\ tx'[w].account = a /\ n \in Int
      BY <1>4, InventoryAssumption DEF RemoveCounts
    <2> QED BY <1>2, <2>1 DEF ForgedKept
  <1> QED
    BY <1>2, <1>3, <1>4, <1>5, <1>6, <1>7, <1>8, BreakStepInv

LEMMA BreakFoundInv ==
  ASSUME IInv, NEW w \in Workers, BreakFound(w)
  PROVE  IInv'
  <1> TypeOK
    BY DEF IInv
  <1>1. tx[w].step = "breakFind" /\ tx[w].step \in BreakSteps
    BY DEF BreakFound, Runs, At, BreakSteps
  <1>2. /\ tx[w] \in Breaks /\ tx[w].account \in Accounts /\ tx[w].guid \in Guids
        /\ tx[w].n \in Int /\ count \in [Guids -> Nat]
        /\ Fits(tx[w], delta[w], locked[w], count, money)
    BY <1>1, BreakFacts
  <1> DEFINE t == [tx[w] EXCEPT !.step = "breakRemove", !.current = count[tx[w].guid]]
  <1>3. tx' = [tx EXCEPT ![w] = t] /\ locked' = [locked EXCEPT ![w] = @ \cup {tx[w].guid}]
        /\ UNCHANGED <<count, money, made, delta, tasks, forged>>
        /\ count[tx[w].guid] > 0 /\ count[tx[w].guid] >= tx[w].n
        /\ tx[w].guid.account = tx[w].account
    BY DEF BreakFound, Lock
  <1>4. /\ t \in Breaks /\ t.step = "breakRemove" /\ t.account = tx[w].account
        /\ t.guid = tx[w].guid /\ t.n = tx[w].n /\ t.current = count[tx[w].guid]
    BY <1>2 DEF Breaks, BreakSteps
  <1> HIDE DEF t
  <1>5. tx'[w] = t /\ locked'[w] = locked[w] \cup {tx[w].guid} /\ OthersKeep(w)
    BY <1>3 DEF OthersKeep, TypeOK
  <1>6. TypeOK'
    BY <1>2, <1>3, <1>4, <1>5 DEF TypeOK
  <1>7. locked[w] = {} /\ delta[w] = NoChange
    BY <1>1, <1>2 DEF Fits
  <1>8. Fits(tx'[w], delta'[w], locked'[w], count, money)
    BY <1>3, <1>4, <1>5, <1>7 DEF Fits, Adding, Paying
  <1>9. \A v \in Workers \ {w} : tx[w].guid \notin locked[v]
    BY <1>1 DEF BreakFound, Runs, Waits, RowWaitsFor, At
  <1>10. ForgedKept(w)
    BY <1>1, <1>2, <1>3, <1>4, <1>5, BreakFacts DEF ForgedKept
  <1>11. tx'[w].step \in BreakSteps
    BY <1>4, <1>5 DEF BreakSteps
  <1> QED
    BY <1>1, <1>3, <1>5, <1>6, <1>7, <1>8, <1>9, <1>10, <1>11, BreakStepInv

LEMMA BreakRemoveInv ==
  ASSUME IInv, NEW w \in Workers, BreakRemove(w)
  PROVE  IInv'
  <1> TypeOK
    BY DEF IInv
  <1>1. tx[w].step = "breakRemove" /\ tx[w].step \in BreakSteps
    BY DEF BreakRemove, Runs, At, BreakSteps
  <1>2. /\ tx[w] \in Breaks /\ tx[w].account \in Accounts /\ tx[w].guid \in Guids
        /\ tx[w].n \in Int /\ count \in [Guids -> Nat]
        /\ Fits(tx[w], delta[w], locked[w], count, money)
    BY <1>1, BreakFacts
  <1>3. /\ tx[w].current = count[tx[w].guid]
        /\ count[tx[w].guid] > 0 /\ count[tx[w].guid] >= tx[w].n
        /\ tx[w].guid.account = tx[w].account /\ locked[w] = {tx[w].guid}
        /\ delta[w] = NoChange
    BY <1>1, <1>2 DEF Fits
  <1> DEFINE t == [tx[w] EXCEPT !.step = "payRead"]
             d == [NoChange EXCEPT ![tx[w].guid] = -tx[w].n]
  <1>4. delta' = [delta EXCEPT ![w] = d]
    <2>1. (IF tx[w].current = tx[w].n THEN -count[tx[w].guid] ELSE -tx[w].n) = -tx[w].n
      BY <1>3
    <2>2. delta' = [delta EXCEPT ![w] = [delta[w] EXCEPT ![tx[w].guid] =
                      IF tx[w].current = tx[w].n THEN -count[tx[w].guid] ELSE -tx[w].n]]
      BY DEF BreakRemove
    <2> QED BY <1>3, <2>1, <2>2
  <1>5. tx' = [tx EXCEPT ![w] = t] /\ UNCHANGED <<count, money, made, locked, tasks, forged>>
    BY DEF BreakRemove
  <1>6. /\ t \in Breaks /\ t.step = "payRead" /\ t.account = tx[w].account
        /\ t.guid = tx[w].guid /\ t.n = tx[w].n
    BY <1>2 DEF Breaks, BreakSteps
  <1>7. d \in [Guids -> Int] /\ d = [NoChange EXCEPT ![t.guid] = -t.n]
    BY <1>2, <1>6 DEF NoChange
  <1> HIDE DEF t, d
  <1>8. tx'[w] = t /\ delta'[w] = d /\ OthersKeep(w)
    BY <1>4, <1>5 DEF OthersKeep, TypeOK
  <1>9. TypeOK'
    BY <1>4, <1>5, <1>6, <1>7 DEF TypeOK
  <1>10. Fits(tx'[w], delta'[w], locked'[w], count, money)
    BY <1>3, <1>5, <1>6, <1>7, <1>8 DEF Fits, Adding, Paying
  <1>11. tx'[w].step \in BreakSteps
    BY <1>6, <1>8 DEF BreakSteps
  <1>12. ForgedKept(w)
    BY <1>1, <1>5, <1>6, <1>8, BreakFacts DEF ForgedKept
  <1> QED
    BY <1>1, <1>5, <1>8, <1>9, <1>10, <1>11, <1>12, BreakStepInv

LEMMA PayReadInv ==
  ASSUME IInv, NEW w \in Workers, PayRead(w)
  PROVE  IInv'
  <1> TypeOK
    BY DEF IInv
  <1>1. tx[w].step = "payRead" /\ tx[w].step \in BreakSteps
    BY DEF PayRead, Runs, At, BreakSteps
  <1>2. /\ tx[w] \in Breaks /\ tx[w].account \in Accounts /\ tx[w].guid \in Guids
        /\ tx[w].account \notin Guids /\ money \in [Accounts -> Int]
        /\ Fits(tx[w], delta[w], locked[w], count, money)
    BY <1>1, BreakFacts
  <1>3. /\ count[tx[w].guid] > 0 /\ count[tx[w].guid] >= tx[w].n
        /\ tx[w].guid.account = tx[w].account
        /\ locked[w] = {tx[w].guid} /\ delta[w] = [NoChange EXCEPT ![tx[w].guid] = -tx[w].n]
    BY <1>1, <1>2 DEF Fits, Paying
  <1> DEFINE t == [tx[w] EXCEPT !.step = "payWrite", !.purse = money[tx[w].account]]
  <1>4. tx' = [tx EXCEPT ![w] = t] /\ locked' = [locked EXCEPT ![w] = @ \cup {tx[w].account}]
        /\ UNCHANGED <<count, money, made, delta, tasks, forged>>
    BY DEF PayRead, Lock
  <1>5. /\ t \in Breaks /\ t.step = "payWrite" /\ t.account = tx[w].account
        /\ t.guid = tx[w].guid /\ t.n = tx[w].n /\ t.purse = money[tx[w].account]
    BY <1>2 DEF Breaks, BreakSteps
  <1> HIDE DEF t
  <1>6. tx'[w] = t /\ locked'[w] = locked[w] \cup {tx[w].account} /\ OthersKeep(w)
    BY <1>4 DEF OthersKeep, TypeOK
  <1>7. TypeOK'
    BY <1>2, <1>4, <1>5 DEF TypeOK
  <1>8. Fits(tx'[w], delta'[w], locked'[w], count, money)
    <2>1. t.step \in Paying /\ t.step \notin {"idle", "addSum", "breakFind", "breakRemove"}
          /\ t.step \notin Adding
      BY <1>5 DEF Adding, Paying
    <2> QED BY <1>3, <1>4, <1>5, <1>6, <2>1 DEF Fits
  <1>9. \A v \in Workers \ {w} : tx[w].account \notin locked[v]
    BY <1>1 DEF PayRead, Runs, Waits, PurseWaitsFor, At
  <1>10. tx'[w].step \in BreakSteps
    BY <1>5, <1>6 DEF BreakSteps
  <1>11. ForgedKept(w)
    BY <1>1, <1>4, <1>5, <1>6, BreakFacts DEF ForgedKept
  <1> QED
    BY <1>1, <1>2, <1>4, <1>6, <1>7, <1>8, <1>9, <1>10, <1>11, BreakStepInv

LEMMA PayWriteInv ==
  ASSUME IInv, NEW w \in Workers, PayWrite(w)
  PROVE  IInv'
  <1> DEFINE pay == tx[w].n * BreakMoneyAmount[tx[w].guid.seed]
  <1> TypeOK
    BY DEF IInv
  <1>1. tx[w].step = "payWrite" /\ tx[w].step \in BreakSteps
    BY DEF PayWrite, Runs, At, BreakSteps
  <1>2. /\ tx[w] \in Breaks /\ tx[w].account \in Accounts /\ tx[w].guid \in Guids
        /\ tx[w].n \in Int /\ tx[w].purse \in Int /\ money \in [Accounts -> Int]
        /\ BreakMoneyAmount[tx[w].guid.seed] \in Nat
        /\ Fits(tx[w], delta[w], locked[w], count, money)
    BY <1>1, BreakFacts
  <1>3. /\ count[tx[w].guid] > 0 /\ count[tx[w].guid] >= tx[w].n
        /\ tx[w].guid.account = tx[w].account
        /\ locked[w] = {tx[w].guid} \cup {tx[w].account}
        /\ delta[w] = [NoChange EXCEPT ![tx[w].guid] = -tx[w].n]
        /\ tx[w].purse = money[tx[w].account]
    BY <1>1, <1>2 DEF Fits, Paying
  <1>p. pay \in Int
    BY <1>2
  <1> DEFINE t == [tx[w] EXCEPT !.step = "breakCommit", !.purse = tx[w].purse + pay]
  <1>4. tx' = [tx EXCEPT ![w] = t] /\ locked' = [locked EXCEPT ![w] = @ \cup {tx[w].account}]
        /\ UNCHANGED <<count, money, made, delta, tasks, forged>>
    BY DEF PayWrite, Lock
  <1> HIDE DEF pay
  <1>5. /\ t \in Breaks /\ t.step = "breakCommit" /\ t.account = tx[w].account
        /\ t.guid = tx[w].guid /\ t.n = tx[w].n /\ t.purse = money[tx[w].account] + pay
    <2>1. tx[w].purse + pay \in Int
      BY <1>2, <1>p
    <2> QED BY <1>2, <1>3, <2>1 DEF Breaks, BreakSteps
  <1> HIDE DEF t
  <1>6. tx'[w] = t /\ locked'[w] = locked[w] /\ OthersKeep(w)
    BY <1>3, <1>4 DEF OthersKeep, TypeOK
  <1>7. TypeOK'
    BY <1>2, <1>4, <1>5 DEF TypeOK
  <1>8. Fits(tx'[w], delta'[w], locked'[w], count, money)
    <2>1. t.step \in Paying /\ t.step \notin {"idle", "addSum", "breakFind", "breakRemove"}
          /\ t.step \notin Adding
      BY <1>5 DEF Adding, Paying
    <2>2. t.purse = money[t.account] + t.n * BreakMoneyAmount[t.guid.seed]
      BY <1>5 DEF pay
    <2> QED BY <1>3, <1>4, <1>5, <1>6, <2>1, <2>2 DEF Fits
  <1>9. tx'[w].step \in BreakSteps
    BY <1>5, <1>6 DEF BreakSteps
  <1>10. ForgedKept(w)
    BY <1>1, <1>4, <1>5, <1>6, BreakFacts DEF ForgedKept
  <1> QED
    BY <1>1, <1>4, <1>6, <1>7, <1>8, <1>9, <1>10, BreakStepInv

-----------------------------------------------------------------------------
(* Commits *)

\* No row of the account and the item is counted.
LEMMA RowSumNone ==
  ASSUME NEW a \in Accounts, NEW s \in Seeds, NEW e, \A g \in RowsOf(a, s) : e[g] = 0
  PROVE  RowSum(e, a, s) = 0
  <1> MaxRows \in Nat
    BY InventoryAssumption
  <1>0. \A k \in 1 .. MaxRows : e[Row(a, s, k)] = 0
    BY DEF Row, RowsOf
  <1>1. PICK F : IsRowSums(F, e, a, s) /\ F[MaxRows] = RowSum(e, a, s)
    BY RowSumsOf
  <1> DEFINE Good == {k \in 0 .. MaxRows : F[k] = 0}
  <1>2. 0 \in Good
    BY <1>1 DEF IsRowSums
  <1>3. ASSUME NEW k \in 1 .. MaxRows, k - 1 \in Good
        PROVE  k \in Good
    <2>1. F[k] = F[k - 1] + e[Row(a, s, k)] /\ e[Row(a, s, k)] = 0 /\ F[k - 1] = 0
      BY <1>0, <1>1, <1>3 DEF IsRowSums
    <2> QED BY <2>1
  <1>4. MaxRows \in Good
    <2> HIDE DEF Good
    <2> QED BY <1>2, <1>3, NumberInduction
  <1> QED
    BY <1>1, <1>4

\* What a commit of w does to what is held.
LEMMA CommitHeld ==
  ASSUME TypeOK, NEW w \in Workers, CommitRows(w), NEW a \in Accounts, NEW s \in Seeds
  PROVE  Held(a, s)' = Held(a, s) + RowSum(delta[w], a, s)
  <1>1. count' = [g \in Guids |-> count[g] + delta[w][g]]
    BY DEF CommitRows, Seen
  <1>2. count \in [Guids -> Int] /\ delta[w] \in [Guids -> Int]
    BY DEF TypeOK
  <1>3. RowSum([g \in Guids |-> count[g] + delta[w][g]], a, s)
          = RowSum(count, a, s) + RowSum(delta[w], a, s)
    BY <1>2, RowSumPlus
  <1>4. Held(a, s)' = RowSum(count', a, s)
    BY DEF Held, RowSum
  <1> QED
    BY <1>1, <1>3, <1>4 DEF Held

\* A transaction writes rows of one item only.
LEMMA CommitTotal ==
  ASSUME TypeOK, NEW w \in Workers, CommitRows(w), NEW a \in Accounts, NEW s \in Seeds,
         \A r \in Seeds : r # s => RowSum(delta[w], a, r) = 0
  PROVE  Total(a)' = Total(a) + RowSum(delta[w], a, s)
  <1> DEFINE f == [r \in Seeds |-> Held(a, r)]
             h == [r \in Seeds |-> Held(a, r)']
             k == RowSum(delta[w], a, s)
  <1>1. \A r \in Seeds : Held(a, r) \in Int
    BY HeldNat
  <1>2. k \in Int
    <2>1. delta[w] \in [Guids -> Int]
      BY DEF TypeOK
    <2> QED BY <2>1, RowSumPlus
  <1>3. \A r \in Seeds : f[r] \in Int /\ h[r] = IF r = s THEN f[r] + k ELSE f[r]
    <2> SUFFICES ASSUME NEW r \in Seeds
                 PROVE  Held(a, r)' = IF r = s THEN Held(a, r) + k ELSE Held(a, r)
      BY <1>1
    <2>1. Held(a, r)' = Held(a, r) + RowSum(delta[w], a, r)
      BY CommitHeld
    <2> QED BY <1>1, <2>1
  <1> HIDE DEF k
  <1>4. Total(a) = SumFunctionOnSet(f, Seeds) /\ Total(a)' = SumFunctionOnSet(h, Seeds)
    BY DEF Total
  <1> HIDE DEF f, h
  <1>5. SumFunctionOnSet(h, Seeds) = SumFunctionOnSet(f, Seeds) + k
    BY <1>2, <1>3, SumChange, InventoryAssumption
  <1> QED
    BY <1>4, <1>5 DEF k

\* Items that go leave more room.
LEMMA LimitLower ==
  ASSUME TypeOK, AllFit, NEW a \in Accounts, FitsLimit(a), NEW w \in Workers, OthersKeep(w),
         Total(a)' \in Nat, Total(a)' <= Total(a),
         ~ Accepted(w, a), ~ Accepted(w, a)'
  PROVE  FitsLimit(a)'
  <1>1. \A v \in Workers : Accepted(v, a)' <=> Accepted(v, a)
    BY DEF OthersKeep, Accepted
  <1>2. Coming(a)' = Coming(a)
    BY <1>1 DEF Coming
  <1>3. \A v \in Coming(a) : Brings(v)' = Brings(v) /\ Brings(v) \in Nat
    <2>1. \A v \in Workers \ {w} : Brings(v)' = Brings(v)
      BY DEF OthersKeep, Brings
    <2> QED BY <2>1, BringsType DEF Coming, Accepted
  <1>4. Limit' = Limit /\ Limit \in Int /\ Cardinality(Coming(a)) \in Nat /\ MaxAdd \in Nat
        /\ Total(a) \in Nat
    BY ComingFinite, HeldNat DEF Limit
  <1> DEFINE x == Cardinality(Coming(a)) * MaxAdd
             y == (Cardinality(Coming(a)) - 1) * MaxAdd
  <1>5. x \in Int /\ y \in Int
    BY <1>4
  <1>6. FitsLimit(a) <=> \/ Total(a) + x <= Limit
                         \/ \E v \in Coming(a) : Total(a) + Brings(v) + y <= Limit
    BY DEF FitsLimit
  <1>7. FitsLimit(a)' <=> \/ Total(a)' + x <= Limit
                          \/ \E v \in Coming(a) : Total(a)' + Brings(v) + y <= Limit
    BY <1>2, <1>3, <1>4 DEF FitsLimit
  <1> HIDE DEF x, y
  <1> QED
    BY <1>3, <1>4, <1>5, <1>6, <1>7

\* A commit leaves counts that are natural numbers, and those of the rows alone
\* that w has not locked.
LEMMA CommitCounts ==
  ASSUME IInv, NEW w \in Workers, CommitRows(w), tx[w].step \in {"addCommit", "breakCommit"}
  PROVE  /\ count' \in [Guids -> Nat]
         /\ \A g \in Guids : count'[g] = count[g] + delta[w][g]
         /\ \A g \in Guids : g \notin locked[w] => count'[g] = count[g]
         /\ \A g \in Guids : count'[g] > 0 => Made(g)
         /\ \A g \in Guids : tx[w].step = "breakCommit" /\ g.account \notin forged
                              => count'[g] <= count[g]
  <1> TypeOK
    BY DEF IInv
  <1>1. count' = [g \in Guids |-> count[g] + delta[w][g]]
    BY DEF CommitRows, Seen
  <1>2. count \in [Guids -> Nat] /\ delta[w] \in [Guids -> Int]
    BY DEF TypeOK
  <1>3. Fits(tx[w], delta[w], locked[w], count, money)
    BY DEF IInv, AllFit
  <1>4. ASSUME NEW g \in Guids
        PROVE  /\ count[g] + delta[w][g] \in Nat
               /\ tx[w].step = "breakCommit" /\ g.account \notin forged
                    => count[g] + delta[w][g] <= count[g]
    <2>1. CASE tx[w].step = "addCommit"
      <3>1. delta[w][g] >= 0
        BY <1>3, <2>1 DEF Fits, Adding
      <3> QED BY <1>2, <2>1, <3>1
    <2>2. CASE tx[w].step = "breakCommit"
      <3>1. tx[w].guid \in Guids /\ tx[w].n \in Int
            /\ (tx[w].n < 0 => tx[w].account \in forged)
        BY <2>2, BreakFacts DEF BreakSteps
      <3>2. /\ count[tx[w].guid] >= tx[w].n /\ tx[w].guid.account = tx[w].account
            /\ delta[w] = [NoChange EXCEPT ![tx[w].guid] = -tx[w].n]
        BY <1>3, <2>2 DEF Fits, Paying
      <3>3. delta[w][g] = IF g = tx[w].guid THEN -tx[w].n ELSE 0
        BY <3>1, <3>2 DEF NoChange
      <3> QED BY <1>2, <2>2, <3>1, <3>2, <3>3
    <2> QED BY <2>1, <2>2
  <1>5. \A g \in Guids : g \notin locked[w] => count[g] + delta[w][g] = count[g]
    <2>1. \A g \in Guids : g \notin locked[w] => delta[w][g] = 0
      BY WrittenLocked DEF IInv
    <2> QED BY <1>2, <2>1
  <1>6. \A g \in Guids : count'[g] = count[g] + delta[w][g]
    BY <1>1
  <1>7. ASSUME NEW g \in Guids, count'[g] > 0
        PROVE  Made(g)
    <2>1. CASE g \in locked[w]
      BY <2>1 DEF IInv, MadeRows
    <2>2. CASE g \notin locked[w]
      BY <1>5, <1>6, <1>7, <2>2 DEF IInv, MadeRows
    <2> QED BY <2>1, <2>2
  <1> QED
    BY <1>1, <1>4, <1>5, <1>6, <1>7

\* The rows of an item that has been added to by one call.
LEMMA CommitPile ==
  ASSUME IInv, NEW w \in Workers, CommitRows(w), forged' = forged,
         tx[w].step \in {"addCommit", "breakCommit"}
  PROVE  PileOvershoot'
  <1> TypeOK
    BY DEF IInv
  <1>1. count \in [Guids -> Nat] /\ delta[w] \in [Guids -> Int] /\ count' \in [Guids -> Nat]
        /\ \A g \in Guids : count'[g] = count[g] + delta[w][g]
    BY CommitCounts DEF TypeOK
  <1>2. Fits(tx[w], delta[w], locked[w], count, money)
    BY DEF IInv, AllFit
  <1>3. ASSUME NEW g \in Guids, g.account \notin forged
        PROVE  count'[g] <= IF g.seed \in Piles THEN PileMax(g.seed) + MaxAdd - 1 ELSE 1
    <2>1. count[g] <= IF g.seed \in Piles THEN PileMax(g.seed) + MaxAdd - 1 ELSE 1
      BY <1>3 DEF IInv, PileOvershoot
    <2>2. PileMax(g.seed) \in Nat \ {0} /\ MaxAdd \in Nat \ {0} /\ g.seed \in Seeds
      BY GuidFields, InventoryAssumption
    <2>3. CASE count'[g] <= count[g]
      <3>1. count[g] \in Nat /\ count'[g] \in Nat
        BY <1>1
      <3>2. CASE g.seed \in Piles
        BY <2>1, <2>2, <2>3, <3>1, <3>2
      <3>3. CASE g.seed \notin Piles
        BY <2>1, <2>3, <3>1, <3>3
      <3> QED BY <3>2, <3>3
    <2>4. CASE tx[w].step = "addCommit" /\ delta[w][g] # 0
      <3>1. /\ locked[w] \subseteq RowsOf(tx[w].account, tx[w].seed)
            /\ \A r \in Guids : delta[w][r] >= 0
            /\ g \in locked[w] /\ count[g] < PileMax(g.seed)
            /\ g.seed \in Singles => count[g] + delta[w][g] <= 1
            /\ tx[w].n >= 0
            /\ RowSum(delta[w], tx[w].account, tx[w].seed) + tx[w].n \in 1 .. MaxAdd
        BY <1>2, <2>4 DEF Fits, Adding
      <3>2. tx[w].account \in Accounts /\ tx[w].seed \in Seeds /\ tx[w].n \in Nat
        BY <2>4, AddFields DEF AddSteps
      <3>3. \A r \in Guids : delta[w][r] \in Nat
        BY <1>1, <3>1
      <3>4. /\ RowSum(delta[w], tx[w].account, tx[w].seed) \in Nat
            /\ delta[w][g] <= RowSum(delta[w], tx[w].account, tx[w].seed)
        BY <3>1, <3>2, <3>3, RowSumNat
      <3>5. delta[w][g] <= MaxAdd /\ delta[w][g] \in Nat
        BY <2>2, <3>1, <3>2, <3>3, <3>4
      <3>6. CASE g.seed \in Piles
        <4>1. count[g] + delta[w][g] <= PileMax(g.seed) + MaxAdd - 1
          BY <1>1, <2>2, <3>1, <3>5
        <4> QED BY <1>1, <3>6, <4>1
      <3>7. CASE g.seed \notin Piles
        BY <1>1, <2>2, <3>1, <3>7 DEF Seeds
      <3> QED BY <3>6, <3>7
    <2>5. tx[w].step = "breakCommit" => count'[g] <= count[g]
      BY <1>3, CommitCounts
    <2>6. delta[w][g] = 0 => count'[g] <= count[g]
      BY <1>1
    <2> QED BY <2>3, <2>4, <2>5, <2>6
  <1> QED
    BY <1>3 DEF PileOvershoot, PileMax

\* The rows of other accounts and items, and what an addition brings in its own.
LEMMA AddedRows ==
  ASSUME IInv, NEW w \in Workers, tx[w].step = "addCommit"
  PROVE  /\ tx[w].account \in Accounts /\ tx[w].seed \in Seeds /\ tx[w].n \in Nat
         /\ RowSum(delta[w], tx[w].account, tx[w].seed) \in Nat
         /\ RowSum(delta[w], tx[w].account, tx[w].seed) + tx[w].n \in 1 .. MaxAdd
         /\ \A a \in Accounts, s \in Seeds :
              a # tx[w].account \/ s # tx[w].seed => RowSum(delta[w], a, s) = 0
  <1> TypeOK
    BY DEF IInv
  <1>1. tx[w].account \in Accounts /\ tx[w].seed \in Seeds /\ tx[w].n \in Nat
    BY AddFields DEF AddSteps
  <1>2. Fits(tx[w], delta[w], locked[w], count, money) /\ delta[w] \in [Guids -> Int]
    BY DEF IInv, AllFit, TypeOK
  <1>3. /\ locked[w] \subseteq RowsOf(tx[w].account, tx[w].seed)
        /\ \A r \in Guids : delta[w][r] >= 0 /\ (delta[w][r] # 0 => r \in locked[w])
        /\ RowSum(delta[w], tx[w].account, tx[w].seed) + tx[w].n \in 1 .. MaxAdd
    BY <1>2 DEF Fits, Adding
  <1>4. RowSum(delta[w], tx[w].account, tx[w].seed) \in Nat
    <2>1. \A r \in Guids : delta[w][r] \in Nat
      BY <1>2, <1>3
    <2> QED BY <1>1, <2>1, RowSumNat
  <1>5. ASSUME NEW a \in Accounts, NEW s \in Seeds, a # tx[w].account \/ s # tx[w].seed
        PROVE  RowSum(delta[w], a, s) = 0
    <2>1. ASSUME NEW r \in RowsOf(a, s)
          PROVE  delta[w][r] = 0
      <3>1. r \in Guids /\ r.account = a /\ r.seed = s
        BY RowsFields
      <3>2. r \notin RowsOf(tx[w].account, tx[w].seed)
        BY <1>1, <1>5, <3>1, RowsFields
      <3> QED BY <1>3, <3>1, <3>2
    <2> QED BY <2>1, RowSumNone
  <1> QED
    BY <1>1, <1>3, <1>4, <1>5

\* What a break takes.
LEMMA BrokenRows ==
  ASSUME IInv, NEW w \in Workers, tx[w].step = "breakCommit"
  PROVE  /\ tx[w].account \in Accounts /\ tx[w].guid \in Guids /\ tx[w].guid.seed \in Seeds
         /\ tx[w].n \in RemoveCounts /\ tx[w].n \in Int
         /\ tx[w].guid.account = tx[w].account
         /\ count[tx[w].guid] > 0 /\ count[tx[w].guid] >= tx[w].n
         /\ tx[w].n < 0 => tx[w].account \in forged
         /\ tx[w].purse = money[tx[w].account] + tx[w].n * BreakMoneyAmount[tx[w].guid.seed]
         /\ locked[w] = {tx[w].guid, tx[w].account}
         /\ \A a \in Accounts, s \in Seeds :
              RowSum(delta[w], a, s)
                = IF a = tx[w].account /\ s = tx[w].guid.seed THEN -tx[w].n ELSE 0
  <1> TypeOK
    BY DEF IInv
  <1>1. tx[w].account \in Accounts /\ tx[w].guid \in Guids /\ tx[w].guid.seed \in Seeds
        /\ tx[w].n \in RemoveCounts /\ tx[w].n \in Int
    BY BreakFields DEF BreakSteps
  <1>2. Fits(tx[w], delta[w], locked[w], count, money)
    BY DEF IInv, AllFit
  <1>3. /\ count[tx[w].guid] > 0 /\ count[tx[w].guid] >= tx[w].n
        /\ tx[w].guid.account = tx[w].account
        /\ locked[w] = {tx[w].guid} \cup {tx[w].account}
        /\ delta[w] = [NoChange EXCEPT ![tx[w].guid] = -tx[w].n]
        /\ tx[w].purse = money[tx[w].account] + tx[w].n * BreakMoneyAmount[tx[w].guid.seed]
    BY <1>2 DEF Fits, Paying
  <1>4. ASSUME NEW a \in Accounts, NEW s \in Seeds
        PROVE  RowSum(delta[w], a, s)
                 = IF a = tx[w].account /\ s = tx[w].guid.seed THEN -tx[w].n ELSE 0
    <2>1. \A r \in Guids : delta[w][r] = IF r = tx[w].guid THEN -tx[w].n ELSE 0
      BY <1>1, <1>3 DEF NoChange
    <2>2. -tx[w].n \in Int
      BY <1>1
    <2>3. RowSum(delta[w], a, s)
            = IF tx[w].guid.account = a /\ tx[w].guid.seed = s THEN -tx[w].n ELSE 0
      <3> DEFINE n == -tx[w].n
                 e == delta[w]
                 g == tx[w].guid
      <3>1. g \in Guids /\ n \in Int /\ \A r \in Guids : e[r] = IF r = g THEN n ELSE 0
        BY <1>1, <2>1, <2>2
      <3> HIDE DEF n, e, g
      <3>2. RowSum(e, a, s) = IF g.account = a /\ g.seed = s THEN n ELSE 0
        BY <3>1, RowSumSingle
      <3> QED BY <3>2 DEF n, e, g
    <2> QED BY <1>3, <2>3
  <1>5. tx[w].n < 0 => tx[w].account \in forged
    BY BreakFacts DEF BreakSteps
  <1> QED
    BY <1>1, <1>3, <1>4, <1>5

\* The total of an account after a commit.
LEMMA CommitLimit ==
  ASSUME IInv, NEW w \in Workers, CommitRows(w), OthersKeep(w), tx'[w] = Idle,
         count' \in [Guids -> Nat],
         tx[w].step \in {"addCommit", "breakCommit"}, NEW b \in Accounts \ forged
  PROVE  FitsLimit(b)'
  <1> TypeOK
    BY DEF IInv
  <1>1. ~ Accepted(w, b)'
    BY DEF Accepted, Adding, Idle
  <1>2. Total(b) \in Nat
    BY HeldNat
  <1>3. Total(b)' \in Nat
    <2>1. \A g \in Guids : count'[g] \in Nat
      OBVIOUS
    <2> DEFINE f == [s \in Seeds |-> RowSum(count', b, s)]
    <2>2. \A s \in Seeds : f[s] \in Nat
      BY <2>1, RowSumNat
    <2>3. \A s \in Seeds : Held(b, s)' = RowSum(count', b, s)
      BY DEF Held, RowSum
    <2>4. Total(b)' = SumFunctionOnSet(f, Seeds)
      <3>1. [s \in Seeds |-> Held(b, s)'] = f
        BY <2>3
      <3> HIDE DEF f
      <3> QED BY <3>1 DEF Total
    <2> HIDE DEF f
    <2> QED BY <2>2, <2>4, SumNat, InventoryAssumption
  <1>4. CASE tx[w].step = "addCommit"
    <2>1. /\ tx[w].account \in Accounts /\ tx[w].seed \in Seeds /\ tx[w].n \in Nat
          /\ RowSum(delta[w], tx[w].account, tx[w].seed) \in Nat
          /\ \A a \in Accounts, s \in Seeds :
               a # tx[w].account \/ s # tx[w].seed => RowSum(delta[w], a, s) = 0
      BY <1>4, AddedRows
    <2>2. Total(b)' = Total(b) + RowSum(delta[w], b, tx[w].seed)
      BY <2>1, CommitTotal
    <2>3. CASE Accepted(w, b)
      <3>1. tx[w].account = b /\ Brings(w) = RowSum(delta[w], b, tx[w].seed) + tx[w].n
        BY <2>3 DEF Accepted, Brings
      <3>2. Total(b)' <= Total(b) + Brings(w)
        BY <1>2, <2>1, <2>2, <3>1
      <3> QED BY <1>1, <1>3, <2>3, <3>2, LimitLeft DEF IInv
    <2>4. CASE ~ Accepted(w, b)
      <3>1. RowSum(delta[w], b, tx[w].seed) = 0
        <4>1. CASE b # tx[w].account
          BY <2>1, <4>1
        <4>2. CASE b = tx[w].account
          <5>1. tx[w].n # 0
            BY <1>4, <2>4, <4>2 DEF Accepted, Adding
          <5>2. delta[w] = NoChange
            BY <1>4, <5>1 DEF IInv, AllFit, Fits
          <5> QED BY <2>1, <5>2, RowSumZero
        <4> QED BY <4>1, <4>2
      <3>2. Total(b)' <= Total(b)
        BY <1>2, <2>2, <3>1
      <3> QED BY <1>1, <1>3, <2>4, <3>2, LimitLower DEF IInv
    <2> QED BY <2>3, <2>4
  <1>5. CASE tx[w].step = "breakCommit"
    <2>1. /\ tx[w].guid.seed \in Seeds /\ tx[w].n \in Int
          /\ tx[w].n < 0 => tx[w].account \in forged
          /\ \A s \in Seeds : RowSum(delta[w], b, s)
                = IF b = tx[w].account /\ s = tx[w].guid.seed THEN -tx[w].n ELSE 0
      BY <1>5, BrokenRows
    <2>2. Total(b)' = Total(b) + RowSum(delta[w], b, tx[w].guid.seed)
      BY <2>1, CommitTotal
    <2>3. Total(b)' <= Total(b)
      BY <1>2, <2>1, <2>2
    <2>4. ~ Accepted(w, b)
      BY <1>5 DEF Accepted, Adding
    <2> QED BY <1>1, <1>3, <2>3, <2>4, LimitLower DEF IInv
  <1> QED
    BY <1>4, <1>5

LEMMA CommitInv ==
  ASSUME IInv, NEW w \in Workers, CommitRows(w), Release(w),
         tx[w].step \in {"addCommit", "breakCommit"},
         money' \in [Accounts -> Int],
         \A a \in Accounts : a \notin locked[w] => money'[a] = money[a]
  PROVE  IInv'
  <1> TypeOK
    BY DEF IInv
  <1>1. /\ tx'[w] = Idle /\ delta'[w] = NoChange /\ locked'[w] = {} /\ OthersKeep(w)
        /\ UNCHANGED <<made, tasks, forged>>
    BY DEF Release, OthersKeep, TypeOK
  <1>2. /\ count' \in [Guids -> Nat]
        /\ \A g \in Guids : g \notin locked[w] => count'[g] = count[g]
        /\ \A g \in Guids : count'[g] > 0 => Made(g)
    BY CommitCounts
  <1>3. TypeOK'
    <2>1. NoChange \in [Guids -> Int]
      BY DEF NoChange
    <2> QED BY <1>1, <1>2, <2>1 DEF Release, TypeOK
  <1>4. Fits(tx'[w], delta'[w], locked'[w], count', money')
    BY <1>1, FitsIdle
  <1>5. AllFit'
    BY <1>1, <1>2, <1>4, OthersFit DEF IInv
  <1>6. Exclusive'
    BY <1>1 DEF IInv, Exclusive, OthersKeep
  <1>7. MadeRows'
    <2>1. \A g \in Guids : Made(g) => Made(g)'
      BY <1>1 DEF Made
    <2>2. ASSUME NEW g \in Guids, count'[g] > 0
          PROVE  Made(g)
      BY <1>2, <2>2
    <2>3. ASSUME NEW g \in Guids, NEW v \in Workers, g \in locked'[v]
          PROVE  Made(g)
      BY <1>1, <2>3 DEF IInv, MadeRows, OthersKeep
    <2> QED BY <2>1, <2>2, <2>3 DEF MadeRows
  <1>8. PickAlone'
    <2>1. ~ Picked(tx'[w])
      BY <1>1 DEF Picked, Idle
    <2> QED BY <1>1, <2>1 DEF IInv, PickAlone, OthersKeep
  <1>9. PileOvershoot'
    BY <1>1, CommitPile
  <1>10. \A b \in Accounts \ forged' : FitsLimit(b)'
    BY <1>1, <1>2, CommitLimit
  <1>11. ForgedKnown'
    <2>1. ForgedKept(w)
      BY <1>1 DEF ForgedKept, BreakSteps, Idle
    <2> QED BY <1>1, <2>1, ForgedStep
  <1> QED
    BY <1>3, <1>5, <1>6, <1>7, <1>8, <1>9, <1>10, <1>11 DEF IInv

LEMMA AddCommitInv ==
  ASSUME IInv, NEW w \in Workers, AddCommit(w)
  PROVE  IInv'
  <1>1. tx[w].step = "addCommit" /\ CommitRows(w) /\ Release(w) /\ money' = money
    BY DEF AddCommit, Runs, At
  <1> QED
    BY <1>1, CommitInv DEF IInv, TypeOK

LEMMA BreakCommitInv ==
  ASSUME IInv, NEW w \in Workers, BreakCommit(w)
  PROVE  IInv'
  <1>1. /\ tx[w].step = "breakCommit" /\ CommitRows(w) /\ Release(w)
        /\ money' = [money EXCEPT ![tx[w].account] = tx[w].purse]
    BY DEF BreakCommit, Runs, At
  <1>2. tx[w].account \in Accounts /\ locked[w] = {tx[w].guid, tx[w].account}
    BY <1>1, BrokenRows
  <1>3. tx[w].purse \in Int /\ money \in [Accounts -> Int]
    BY <1>1, BreakFacts DEF BreakSteps
  <1>4. money' \in [Accounts -> Int] /\ \A a \in Accounts : a \notin locked[w] => money'[a] = money[a]
    BY <1>1, <1>2, <1>3
  <1> QED
    BY <1>1, <1>4, CommitInv

-----------------------------------------------------------------------------
(* The specification *)

LEMMA InitInv == Init => IInv
  <1> SUFFICES ASSUME Init PROVE IInv
    OBVIOUS
  <1> USE DEF Init
  <1>1. TypeOK
    <2>1. NoChange \in [Guids -> Nat] /\ NoChange \in [Guids -> Int]
      BY DEF NoChange
    <2>2. 0 \in 0 .. MaxRows /\ 0 \in 0 .. MaxTasks
      BY InventoryAssumption
    <2> QED BY <2>1, <2>2 DEF TypeOK
  <1>2. AllFit
    BY FitsIdle DEF AllFit
  <1>3. Exclusive
    BY DEF Exclusive
  <1>4. MadeRows
    BY DEF MadeRows, NoChange
  <1>5. PickAlone
    BY DEF PickAlone, Picked, Idle
  <1>6. PileOvershoot
    <2>1. ASSUME NEW g \in Guids
          PROVE  count[g] <= IF g.seed \in Piles THEN PileMax(g.seed) + MaxAdd - 1 ELSE 1
      <3>1. count[g] = 0 /\ PileMax(g.seed) \in Nat \ {0} /\ MaxAdd \in Nat \ {0}
        BY GuidFields, InventoryAssumption DEF NoChange
      <3> QED BY <3>1
    <2> QED BY <2>1 DEF PileOvershoot
  <1>7. ASSUME NEW a \in Accounts
        PROVE  FitsLimit(a)
    <2>1. Coming(a) = {}
      BY DEF Coming, Accepted, Idle, Adding
    <2>2. Cardinality(Coming(a)) = 0
      BY <2>1, FS_EmptySet
    <2>3. Total(a) = 0
      <3> DEFINE f == [s \in Seeds |-> Held(a, s)]
      <3>1. \A s \in Seeds : Held(a, s) = 0
        BY RowSumZero DEF Held
      <3>2. 0 \in Int /\ \A s \in Seeds : f[s] = IF s = NoGuid THEN 0 ELSE 0
        BY <3>1
      <3> HIDE DEF f
      <3>3. SumFunctionOnSet(f, Seeds) = IF NoGuid \in Seeds THEN 0 ELSE 0
        BY <3>2, SumSingle, InventoryAssumption
      <3> QED BY <3>3 DEF Total, f
    <2>4. MaxAdd \in Nat /\ Capacity \in Nat /\ Cardinality(Workers) \in Nat \ {0}
      BY ComingFinite
    <2>5. (Cardinality(Workers) - 1) * MaxAdd \in Nat
      BY <2>4
    <2> QED BY <2>2, <2>3, <2>4, <2>5 DEF FitsLimit, Limit
  <1>8. ForgedKnown
    BY DEF ForgedKnown, Idle, BreakSteps
  <1> QED
    BY <1>1, <1>2, <1>3, <1>4, <1>5, <1>6, <1>7, <1>8 DEF IInv

\* Nothing in IInv looks at more than the state.
LEMMA StutterInv == IInv /\ UNCHANGED vars => IInv'
  <1> SUFFICES ASSUME IInv, UNCHANGED vars PROVE IInv'
    OBVIOUS
  <1>1. UNCHANGED <<count, money, made, tx, delta, locked, tasks, forged>>
    BY DEF vars
  <1>2. TypeOK'
    BY <1>1 DEF IInv, TypeOK
  <1>3. AllFit'
    BY <1>1 DEF IInv, AllFit
  <1>4. Exclusive' /\ MadeRows' /\ PickAlone' /\ PileOvershoot' /\ ForgedKnown'
    BY <1>1 DEF IInv, Exclusive, MadeRows, Made, PickAlone, PileOvershoot, PileMax,
               ForgedKnown
  <1>5. ASSUME NEW a \in Accounts \ forged'
        PROVE  FitsLimit(a)'
    <2>1. \E w : w \in Workers
      BY InventoryAssumption
    <2>2. PICK w \in Workers : TRUE
      BY <2>1
    <2>3. OthersKeep(w) /\ (Accepted(w, a)' <=> Accepted(w, a)) /\ Brings(w)' = Brings(w)
      BY <1>1 DEF OthersKeep, Accepted, Brings
    <2> QED BY <1>1, <2>3, TotalKept, LimitKept DEF IInv
  <1> QED
    BY <1>2, <1>3, <1>4, <1>5 DEF IInv

LEMMA NextInv == IInv /\ [Next]_vars => IInv'
  <1> SUFFICES ASSUME IInv, [Next]_vars PROVE IInv'
    OBVIOUS
  <1>1. ASSUME NEW w \in Workers, AddInventoryItem(w)
        PROVE  IInv'
    <2>1. ASSUME NEW a \in Accounts, NEW s \in Seeds, NEW n \in 1 .. MaxAdd, TakeAdd(w, a, s, n)
          PROVE  IInv'
      BY <2>1, TakeAddInv
    <2> QED
      BY <1>1, <2>1, AddSumInv, AddPickInv, AddToPileInv, AddNewRowInv, AddCommitInv
      DEF AddInventoryItem
  <1>2. ASSUME NEW w \in Workers, BreakInventoryItem(w)
        PROVE  IInv'
    <2>1. ASSUME NEW a \in Accounts, NEW g \in Guids, NEW n \in RemoveCounts,
                 TakeBreak(w, a, g, n)
          PROVE  IInv'
      BY <2>1, TakeBreakInv
    <2>2. CASE BreakRefused(w)
      <3>1. tx[w] # Idle /\ Release(w) /\ UNCHANGED <<count, money>>
        BY <2>2 DEF BreakRefused, Runs, At, Idle
      <3> QED BY <3>1, ReleaseInv
    <2> QED
      BY <1>2, <2>1, <2>2, BreakFoundInv, BreakRemoveInv, PayReadInv, PayWriteInv, BreakCommitInv
      DEF BreakInventoryItem
  <1>3. ASSUME NEW w \in Workers, Fail(w)
        PROVE  IInv'
    BY <1>3, ReleaseInv DEF Fail
  <1>4. CASE UNCHANGED vars
    BY <1>4, StutterInv
  <1> QED
    BY <1>1, <1>2, <1>3, <1>4 DEF Next

\* IInv is inductive.
THEOREM Invariance == Spec => []IInv
  BY InitInv, NextInv, PTL DEF Spec

\* The variables keep their types, whatever the number of workers and rows: no
\* count becomes negative, though breaking a negative count makes a purse negative.
THEOREM TypeCorrect == Spec => []TypeOK
  <1>1. IInv => TypeOK
    BY DEF IInv
  <1> QED
    BY <1>1, Invariance, PTL

\* The stale @SlotGuid fills a pile past its maximum by less than one call adds,
\* however many lobbies add to it: two calls of AddInventoryItem are never both
\* about to fill piles of an item they have picked.
THEOREM PileOvershootCorrect == Spec => []PileOvershoot
  <1>1. IInv => PileOvershoot
    BY DEF IInv
  <1> QED
    BY <1>1, Invariance, PTL

\* Lobbies that count the inventory at the same time exceed its capacity by at
\* most one call of each but the last that was accepted.
THEOREM CapacityOvershootCorrect == Spec => []CapacityOvershoot
  <1>1. IInv => CapacityOvershoot
    <2> SUFFICES ASSUME IInv, NEW a \in Accounts \ forged
                 PROVE  Total(a) <= Limit
      BY DEF CapacityOvershoot, Limit
    <2> DEFINE n == Cardinality(Coming(a))
    <2>1. Total(a) \in Nat /\ n \in Nat /\ Limit \in Int /\ MaxAdd \in Nat
      BY HeldNat, ComingFinite DEF IInv
    <2>2. CASE Total(a) + n * MaxAdd <= Limit
      <3>1. n * MaxAdd \in Nat
        BY <2>1
      <3> HIDE DEF n
      <3> QED BY <2>1, <2>2, <3>1
    <2>3. CASE \E w \in Coming(a) : Total(a) + Brings(w) + (n - 1) * MaxAdd <= Limit
      <3>1. PICK w \in Coming(a) : Total(a) + Brings(w) + (n - 1) * MaxAdd <= Limit
        BY <2>3
      <3>2. Brings(w) \in Nat
        BY BringsType DEF Coming, Accepted, IInv
      <3>3. n # 0
        BY ComingFinite, FS_EmptySet
      <3>4. (n - 1) * MaxAdd \in Nat
        BY <2>1, <3>3
      <3> HIDE DEF n
      <3> QED BY <2>1, <3>1, <3>2, <3>4
    <2> QED BY <2>2, <2>3 DEF IInv, FitsLimit
  <1> QED
    BY <1>1, Invariance, PTL

-----------------------------------------------------------------------------
(* What the two procedures promise *)

\* A commit that changes the rows of one item by k in all.
LEMMA ItemsChange ==
  ASSUME TypeOK, NEW w \in Workers, CommitRows(w), NEW a \in Accounts, NEW s \in Seeds,
         NEW k \in Int,
         \A b \in Accounts, r \in Seeds :
           RowSum(delta[w], b, r) = IF b = a /\ r = s THEN k ELSE 0
  PROVE  Items' = [Items EXCEPT ![a][s] = @ + k]
  <1>1. \A b \in Accounts, r \in Seeds : Held(b, r) \in Int
    BY HeldNat
  <1>2. \A b \in Accounts, r \in Seeds :
          Held(b, r)' = IF b = a /\ r = s THEN Held(b, r) + k ELSE Held(b, r)
    <2> SUFFICES ASSUME NEW b \in Accounts, NEW r \in Seeds
                 PROVE  Held(b, r)' = IF b = a /\ r = s THEN Held(b, r) + k ELSE Held(b, r)
      OBVIOUS
    <2>1. Held(b, r)' = Held(b, r) + RowSum(delta[w], b, r)
      BY CommitHeld
    <2> QED BY <1>1, <2>1
  <1>3. Items' = [b \in Accounts |-> [r \in Seeds |-> Held(b, r)']]
    BY DEF Items
  <1>4. Items' = [b \in Accounts |-> [r \in Seeds |->
                    IF b = a /\ r = s THEN Held(b, r) + k ELSE Held(b, r)]]
    BY <1>2, <1>3
  <1>5. [Items EXCEPT ![a][s] = @ + k]
          = [b \in Accounts |-> [r \in Seeds |->
               IF b = a /\ r = s THEN Held(b, r) + k ELSE Held(b, r)]]
    BY DEF Items
  <1> QED
    BY <1>4, <1>5

LEMMA SameItems ==
  ASSUME UNCHANGED <<count, money>>
  PROVE  UNCHANGED Goods!svars
  BY DEF Goods!svars, Items, Held, RowSum

\* AddInventoryItem gives what it was called with, or nothing.
LEMMA AddImplements ==
  ASSUME IInv, NEW w \in Workers, AddCommit(w)
  PROVE  [Goods!StockNext]_(Goods!svars)
  <1> DEFINE n == RowSum(delta[w], tx[w].account, tx[w].seed)
  <1> TypeOK
    BY DEF IInv
  <1>1. tx[w].step = "addCommit" /\ CommitRows(w) /\ money' = money
    BY DEF AddCommit, Runs, At
  <1>2. /\ tx[w].account \in Accounts /\ tx[w].seed \in Seeds /\ tx[w].n \in Nat
        /\ n \in Nat /\ n + tx[w].n \in 1 .. MaxAdd
        /\ \A a \in Accounts, s \in Seeds :
             a # tx[w].account \/ s # tx[w].seed => RowSum(delta[w], a, s) = 0
    BY <1>1, AddedRows
  <1>3. CASE tx[w].n = 0
    <2>1. \A b \in Accounts, r \in Seeds :
            RowSum(delta[w], b, r) = IF b = tx[w].account /\ r = tx[w].seed THEN n ELSE 0
      BY <1>2
    <2>2. n \in 1 .. MaxAdd /\ n \in Int
      BY <1>2, <1>3
    <2> HIDE DEF n
    <2>3. Items' = [Items EXCEPT ![tx[w].account][tx[w].seed] = @ + n]
      <3> DEFINE a == tx[w].account
                 s == tx[w].seed
      <3>1. a \in Accounts /\ s \in Seeds
            /\ \A b \in Accounts, r \in Seeds :
                 RowSum(delta[w], b, r) = IF b = a /\ r = s THEN n ELSE 0
        BY <1>2, <2>1
      <3> HIDE DEF a, s
      <3>2. Items' = [Items EXCEPT ![a][s] = @ + n]
        BY <1>1, <2>2, <3>1, ItemsChange
      <3> QED BY <3>2 DEF a, s
    <2>4. Goods!Give(tx[w].account, tx[w].seed, n)
      BY <1>1, <2>3 DEF Goods!Give
    <2> QED BY <1>2, <2>2, <2>4 DEF Goods!StockNext
  <1>4. CASE tx[w].n # 0
    <2>1. delta[w] = NoChange /\ count \in [Guids -> Nat]
      BY <1>1, <1>4 DEF IInv, AllFit, Fits, TypeOK
    <2>2. count' = count
      <3>1. \A g \in Guids : Seen(w, g) = count[g]
        BY <2>1 DEF Seen, NoChange
      <3> QED BY <1>1, <2>1, <3>1 DEF CommitRows
    <2> QED BY <1>1, <2>2, SameItems
  <1> QED
    BY <1>3, <1>4

\* BreakInventoryItem takes the items and pays for them, together.
LEMMA BreakImplements ==
  ASSUME IInv, NEW w \in Workers, BreakCommit(w)
  PROVE  Goods!StockNext
  <1> DEFINE a == tx[w].account
             s == tx[w].guid.seed
             n == tx[w].n
  <1> TypeOK
    BY DEF IInv
  <1>1. /\ tx[w].step = "breakCommit" /\ CommitRows(w)
        /\ money' = [money EXCEPT ![a] = tx[w].purse]
    BY DEF BreakCommit, Runs, At
  <1>2. /\ a \in Accounts /\ s \in Seeds /\ tx[w].guid \in Guids
        /\ n \in (-MaxRemove) .. MaxRemove /\ n \in Int
        /\ tx[w].guid.account = a /\ count[tx[w].guid] > 0 /\ count[tx[w].guid] >= n
        /\ tx[w].purse = money[a] + n * BreakMoneyAmount[s]
        /\ \A b \in Accounts, r \in Seeds :
             RowSum(delta[w], b, r) = IF b = a /\ r = s THEN -n ELSE 0
    BY <1>1, BrokenRows DEF RemoveCounts
  <1>3. Held(a, s) > 0 /\ Held(a, s) >= n
    <2>1. \A g \in Guids : count[g] \in Nat
      BY DEF TypeOK
    <2>2. tx[w].guid \in RowsOf(a, s)
      BY <1>2, GuidFields
    <2>3. Held(a, s) \in Nat /\ count[tx[w].guid] <= Held(a, s)
      BY <1>2, <2>1, <2>2, RowSumNat DEF Held
    <2>4. count[tx[w].guid] \in Nat
      BY <1>2, <2>1
    <2> HIDE DEF n, a, s
    <2> QED BY <1>2, <2>3, <2>4
  <1> HIDE DEF a, s, n
  <1>4. Items[a][s] = Held(a, s) /\ Held(a, s) \in Int
    BY <1>2, HeldNat DEF Items
  <1>5. Items' = [Items EXCEPT ![a][s] = @ - n]
    <2> DEFINE k == -n
    <2>1. k \in Int /\ \A b \in Accounts, r \in Seeds :
                         RowSum(delta[w], b, r) = IF b = a /\ r = s THEN k ELSE 0
      BY <1>2
    <2>2. Items[a][s] + k = Items[a][s] - n
      BY <1>2, <1>4
    <2> HIDE DEF k
    <2>3. Items' = [Items EXCEPT ![a][s] = @ + k]
      <3>1. a \in Accounts /\ s \in Seeds /\ CommitRows(w)
        BY <1>1, <1>2
      <3> QED BY <2>1, <3>1, ItemsChange
    <2> DEFINE x == Items[a][s] + k
               y == Items[a][s] - n
    <2>4. [Items EXCEPT ![a][s] = @ + k] = [Items EXCEPT ![a][s] = x]
      OBVIOUS
    <2>5. [Items EXCEPT ![a][s] = @ - n] = [Items EXCEPT ![a][s] = y]
      OBVIOUS
    <2>6. x = y
      BY <2>2
    <2> HIDE DEF x, y
    <2> QED BY <2>3, <2>4, <2>5, <2>6
  <1>6. Goods!Break(a, s, n)
    BY <1>1, <1>2, <1>3, <1>4, <1>5 DEF Goods!Break
  <1> QED
    BY <1>2, <1>6 DEF Goods!StockNext

\* Each call takes effect as a whole and once, however many workers interleave
\* and wherever they fail: the transactions implement Stock.
THEOREM StockRefinementCorrect == Spec => StockRefinement
  <1>1. Init => Goods!StockInit
    <2> SUFFICES ASSUME Init PROVE Goods!StockInit
      OBVIOUS
    <2>1. \A a \in Accounts, s \in Seeds : Held(a, s) = 0
      BY RowSumZero DEF Init, Held
    <2>2. Items = [a \in Accounts |-> [s \in Seeds |-> 0]]
      BY <2>1 DEF Items
    <2> QED BY <2>2 DEF Init, Goods!StockInit
  <1>2. IInv /\ [Next]_vars => [Goods!StockNext]_(Goods!svars)
    <2> SUFFICES ASSUME IInv, [Next]_vars
                 PROVE  [Goods!StockNext]_(Goods!svars)
      OBVIOUS
    <2>1. CASE UNCHANGED vars
      BY <2>1, SameItems DEF vars
    <2>2. ASSUME NEW w \in Workers, AddInventoryItem(w)
          PROVE  [Goods!StockNext]_(Goods!svars)
      <3>1. AddCommit(w) \/ UNCHANGED <<count, money>>
        BY <2>2 DEF AddInventoryItem, TakeAdd, AddSum, AddPick, AddToPile, AddNewRow
      <3> QED BY <3>1, SameItems, AddImplements
    <2>3. ASSUME NEW w \in Workers, BreakInventoryItem(w)
          PROVE  [Goods!StockNext]_(Goods!svars)
      <3>1. BreakCommit(w) \/ UNCHANGED <<count, money>>
        BY <2>3 DEF BreakInventoryItem, TakeBreak, BreakRefused, BreakFound, BreakRemove,
                    PayRead, PayWrite
      <3> QED BY <3>1, SameItems, BreakImplements
    <2>4. ASSUME NEW w \in Workers, Fail(w)
          PROVE  [Goods!StockNext]_(Goods!svars)
      BY <2>4, SameItems DEF Fail
    <2> QED BY <2>1, <2>2, <2>3, <2>4 DEF Next
  <1> QED
    BY <1>1, <1>2, Invariance, PTL DEF Spec, Goods!StockSpec, StockRefinement
=============================================================================
