------------------------------ MODULE MCEntry ------------------------------
(* Two lobbies: one with room for two users, and one with room for one. *)
EXTENDS Entry

CONSTANTS large, small

MCCapacity == [l \in Lobbies |-> IF l = large THEN 2 ELSE 1]
MCMaxSize  == [l \in Lobbies |-> IF l = large THEN 1 ELSE 2]
=============================================================================
