------------------------------- MODULE Stock -------------------------------
(***************************************************************************)
(* What the lobby promises about a user's goods: items are given, and      *)
(* broken for money, each time as a whole and exactly once.  Piles, rows   *)
(* and the transactions of the game database do not show.                  *)
(***************************************************************************)
EXTENDS Integers

CONSTANTS Accounts, Seeds,
          BreakMoneyAmount, \* BreakMoneyAmount[s]: what one item of kind s is worth
          MaxAdd,           \* items given at once
          MaxRemove         \* the count of a request to break, either way

VARIABLES items,   \* items[a][s]: how many items of kind s account a has
          purse    \* purse[a]: the money of account a

svars == <<items, purse>>

StockInit == /\ items = [a \in Accounts |-> [s \in Seeds |-> 0]]
             /\ purse = [a \in Accounts |-> 0]

Give(a, s, n) == /\ items' = [items EXCEPT ![a][s] = @ + n]
                 /\ UNCHANGED purse

\* The count is not checked: a negative one gives items and takes money.
Break(a, s, n) == /\ items[a][s] > 0 /\ items[a][s] >= n
                  /\ items' = [items EXCEPT ![a][s] = @ - n]
                  /\ purse' = [purse EXCEPT ![a] = @ + n * BreakMoneyAmount[s]]

StockNext == \E a \in Accounts, s \in Seeds : \/ \E n \in 1 .. MaxAdd : Give(a, s, n)
                                              \/ \E n \in (-MaxRemove) .. MaxRemove : Break(a, s, n)

StockSpec == StockInit /\ [][StockNext]_svars
=============================================================================
