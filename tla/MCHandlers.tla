------------------------------ MODULE MCHandlers ------------------------------
(***************************************************************************)
(* The two ways in which a GET can wait, on small instances of their own   *)
(* that share no state and are checked side by side: for a CDN URL         *)
(* (CircuitBreaker), and for a connection slot or in the hang mode         *)
(* (CdnStream).  Fairness is that of the two modules.                      *)
(***************************************************************************)
EXTENDS CdnStream, Sequences

CONSTANTS
  h1, h2, f1, c1, c2, k1, i1,
  Callers, Keys, Items, Ids, ItemOf, IdOf, Moods, MaxRetries, NegativeTTL,
  NegativeMax, Threshold, FailWindow, StaleBase, StaleCap, ProbeLock, IntBits,
  BreakerMax

(* One file.                                                               *)
OneKey == [k \in {k1} |-> i1]
OneId == [i \in {i1} |-> 1]

VARIABLES
  part,   \* which of the two runs: "urls" or "streams"
  negativeFor, tracked, failures, staleFor, escalations, cpc, key, tries, kind,
  pruner, live, sinceProbe, earned

Urls == INSTANCE CircuitBreaker
  WITH negative <- negativeFor, pc <- cpc, attempt <- tries

urlVars == <<negativeFor, tracked, failures, staleFor, escalations, cpc, key, tries,
             kind, pruner, live, sinceProbe, earned>>
allVars == <<part, vars, urlVars>>

PInit == part \in {"urls", "streams"} /\ Init /\ Urls!Init

PNext ==
  \/ part = "urls" /\ Urls!Next /\ UNCHANGED <<part, vars>>
  \/ part = "streams" /\ Next /\ UNCHANGED <<part, urlVars>>

PSpec ==
  /\ PInit /\ [][PNext]_allVars
  /\ WF_urlVars(part = "urls" /\ Urls!Tick)
  /\ \A c \in Callers : WF_urlVars(part = "urls" /\ Urls!Fetch(c))
  /\ \A h \in Handlers :
       /\ WF_vars(part = "streams" /\ Handle(h))
       /\ SF_vars(part = "streams" /\ GetsSlot(h))

(* PollersRecover of CircuitBreaker, where it runs.                        *)
PollersRecover == part = "urls" => Urls!PollersRecover
===============================================================================
