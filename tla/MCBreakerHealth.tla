--------------------------- MODULE MCBreakerHealth ---------------------------
(* Instances of BreakerHealth for TLC.                                     *)
EXTENDS BreakerHealth

CONSTANTS c1, k1, i1

OneKey == [k \in {k1} |-> i1]
OneId == [i \in {i1} |-> 1]
===============================================================================
