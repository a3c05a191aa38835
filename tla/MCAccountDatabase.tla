------------------------- MODULE MCAccountDatabase -------------------------
(* Small instances of AccountDatabase for TLC. *)
EXTENDS AccountDatabase, TLC

AccountSymmetry == Permutations(AuthWorkers) \cup Permutations(Lobbies)
                     \cup Permutations(Uids)
=============================================================================
