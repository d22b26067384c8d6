------------------------------ MODULE MCQueue ------------------------------
(***************************************************************************)
(* Small instances of Queue for TLC.  Symmetry is used by the safety runs  *)
(* only.                                                                   *)
(***************************************************************************)
EXTENDS Queue, TLC

Symmetry == Permutations(Nodes) \cup Permutations(Putters \ Getters)
            \cup Permutations(Getters \ Putters)
            \cup Permutations(Getters \cap Putters)
============================================================================
