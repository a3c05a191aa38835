--------------------------- MODULE MCCircleQueue ---------------------------
(* Small instances of CircleQueue for TLC. *)
EXTENDS CircleQueue, TLC

\* Items are interchangeable.
ItemSymmetry == Permutations(Values)
=============================================================================
