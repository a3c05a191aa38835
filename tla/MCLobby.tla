------------------------------ MODULE MCLobby ------------------------------
(* Small instances of Lobby for TLC. *)
EXTENDS Lobby, TLC

LobbySymmetry == Permutations(Sockets) \cup Permutations(Accounts)

AllProcedures == UserProcedures \cup GameProcedures
NoProcedures  == {}
=============================================================================
