--------------------------- MODULE MCCircuitBreaker ---------------------------
(* Instances of CircuitBreaker for TLC.                                    *)
EXTENDS CircuitBreaker, TLC

CONSTANTS c1, c2, k1, k2, i1, i2

(* A torrent and a usenet download that have the same id, a file of each.  *)
TwoItems == (k1 :> i1) @@ (k2 :> i2)
SharedId == [i \in {i1, i2} |-> 1]

AnyCaller == Permutations(Callers)
===============================================================================
