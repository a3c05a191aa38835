---------------------------- MODULE MCInventory ----------------------------
(* Small instances of Inventory for TLC. *)
EXTENDS Inventory, TLC

CONSTANTS potion, sword   \* an item that piles up, and one that does not

PilesOfTwo == [s \in {potion} |-> 2]
Prices == (potion :> 1) @@ (sword :> 3)

InventorySymmetry == Permutations(Workers) \cup Permutations(Accounts)
=============================================================================
