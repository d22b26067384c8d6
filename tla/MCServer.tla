------------------------------ MODULE MCServer ------------------------------
(***************************************************************************)
(* Instances of Server for TLC.  Sessions, buffers and the threads of one  *)
(* kind are interchangeable.                                               *)
(***************************************************************************)
EXTENDS Server, TLC

Symmetry == Permutations(Conns) \cup Permutations(Buffers) \cup Permutations(Clients)
            \cup Permutations(IOs) \cup Permutations(Acceptors)
=============================================================================
