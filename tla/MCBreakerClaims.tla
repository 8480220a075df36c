---------------------------- MODULE MCBreakerClaims ----------------------------
(***************************************************************************)
(* Two claims of comments about the breaker, with the histories that they  *)
(* are stated by: who runs as a probe, and whose failures a tracker has    *)
(* counted since it was made.                                              *)
(***************************************************************************)
EXTENDS MCCircuitBreaker

VARIABLES
  probing,   \* the callers that were let through as a probe
  counted    \* [Ids -> SUBSET Items]

claimVars == <<vars, probing, counted>>

Running == {"call", "backoff", "clear", "record", "trip", "remember"}
BecomesProbe(c) == pc[c] = "breaker" /\ staleFor[Id(c)] = 0
Records(c) == pc[c] = "trip" /\ pc'[c] = "remember"

ClaimInit == Init /\ probing = {} /\ counted = [i \in Ids |-> {}]

ClaimNext ==
  /\ Next
  /\ probing' = {c \in Callers : pc'[c] \in Running /\ (c \in probing \/ BecomesProbe(c))}
  /\ counted' = [i \in Ids |->
       IF i \in tracked'
       THEN counted[i] \cup {Item(c) : c \in {d \in Callers : Records(d) /\ Id(d) = i}}
       ELSE {}]

ClaimSpec == ClaimInit /\ [][ClaimNext]_claimVars

(* "A single half-open probe is allowed (concurrent callers are still      *)
(* skipped via a short probe lock)" (get.go:453-455): while one runs, no   *)
(* other caller is let through as a probe of the same id.                  *)
ProbeExclusive == \A c, d \in probing : Id(c) = Id(d) => c = d

(* "torrentFailureTracker counts failures for a single torrent"            *)
(* (server.go:55-57).                                                         *)
TrackerOfOne == \A i \in Ids : Cardinality(counted[i]) <= 1
================================================================================
