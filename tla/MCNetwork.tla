----------------------------- MODULE MCNetwork -----------------------------
(* Instances of Network for TLC: few sockets, objects and threads.           *)
EXTENDS Network, TLC

\* Objects and the threads of one kind are interchangeable.
Symmetry == Permutations(Overlappeds) \cup Permutations(Sessions)
=============================================================================
