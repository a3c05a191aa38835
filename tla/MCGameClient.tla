--------------------------- MODULE MCGameClient ---------------------------
(* An instance of GameClient for TLC: one user, two threads for each        *)
(* server, connections that fail.                                           *)
EXTENDS GameClient
=============================================================================
