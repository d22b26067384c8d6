------------------------------ MODULE MCClient ------------------------------
(***************************************************************************)
(* Instances of Client for TLC: the connections of the two workers t1, t2. *)
(***************************************************************************)
EXTENDS Client

CONSTANTS t1, t2, k1, k2

BothOnOne == [k \in {k1, k2} |-> t1]
OneEach   == [k \in {k1, k2} |-> IF k = k1 THEN t1 ELSE t2]
=============================================================================
