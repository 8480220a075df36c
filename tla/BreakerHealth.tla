---------------------------- MODULE BreakerHealth ----------------------------
(***************************************************************************)
(* CircuitBreaker and ApiHealth together: the verdict that keeps an outage *)
(* of TorBox from being taken for broken items is drawn from the outcomes  *)
(* of the same calls, of the metadata sync's and of the CDN's.             *)
(*                                                                         *)
(* A requestdl attempt is counted twice, by Client.do when it is answered  *)
(* and by getCDNURLWithRetry when its result is received; the answer is    *)
(* the one TorBox gave when the first was counted.                         *)
(***************************************************************************)
EXTENDS CircuitBreaker, ApiHealth

CONSTANT Room   \* bound: outcomes in the window beyond which nothing new is asked

VARIABLES
  mood,     \* [Items -> Moods]: what requestdl answers for each
  counted,  \* [Callers -> outcomes recorded for the attempt under way]
  outage,   \* TorBox fails every call
  \* History
  spell     \* ticks for which outage has been as it is, up to HealthWindow

composedVars == <<vars, healthVars, mood, counted, outage, spell>>
quiet == <<healthVars, mood, counted, outage, spell>>

CInit ==
  /\ Init /\ HealthInit
  /\ mood = [i \in Items |-> "ok"]
  /\ counted = [c \in Callers |-> 0]
  /\ outage = FALSE
  /\ spell = HealthWindow

HasRoom == Samples < Room
Answer(c) == mood[Item(c)]

(* What Client.do reports of an answer: a decodable error in a 200 is a    *)
(* success to it, and a body that breaks off is nothing at all.            *)
Reports(m) ==
  CASE m = "ok" -> {"good"}
    [] m = "transient" -> {"good", "bad", "none"}
    [] OTHER -> {"bad"}

Report(r) ==
  /\ IF r = "none" THEN UNCHANGED outcomes ELSE RecordOutcome(r = "good")
  /\ Log(IF r = "good" THEN 1 ELSE 0, IF r = "bad" THEN 1 ELSE 0)

ClientCounts(c) ==
  /\ pc[c] = "call" /\ counted[c] = 0
  /\ \E r \in Reports(Answer(c)) : Report(r)
  /\ counted' = [counted EXCEPT ![c] = 1]
  /\ UNCHANGED <<vars, mood, outage, spell>>

ServerCounts(c) ==
  /\ pc[c] = "call" /\ counted[c] = 1
  /\ Report(IF Answer(c) = "ok" THEN "good" ELSE "bad")
  /\ counted' = [counted EXCEPT ![c] = 2]
  /\ UNCHANGED <<vars, mood, outage, spell>>

(* The attempt's result is acted upon.                                     *)
Answered(c) ==
  /\ counted[c] = 2
  /\ \/ Answer(c) = "ok" /\ CallSucceeds(c)
     \/ Answer(c) # "ok" /\ (Retry(c) \/ CallFails(c, Answer(c)))
  /\ counted' = [counted EXCEPT ![c] = 0]
  /\ UNCHANGED <<healthVars, mood, outage, spell>>

(* A page of a listing, the account's data, an attempt at the CDN.         *)
OtherCall ==
  /\ HasRoom
  /\ \E r \in {"good", "bad"} : (outage => r = "bad") /\ Report(r)
  /\ UNCHANGED <<vars, mood, counted, outage, spell>>

CTick ==
  /\ Tick /\ HealthTick
  /\ spell' = IF spell < HealthWindow THEN spell + 1 ELSE spell
  /\ UNCHANGED <<mood, counted, outage>>

(* TorBox: an item breaks or recovers, everything does.  An attempt that   *)
(* is being counted has its answer already.                                *)
Unanswered == \A c \in Callers : counted[c] = 0

ItemChanges(i) ==
  /\ ~outage /\ Unanswered
  /\ \E m \in Moods : mood' = [mood EXCEPT ![i] = m]
  /\ UNCHANGED <<vars, healthVars, counted, outage, spell>>

ChangeAll(failing, m) ==
  /\ Unanswered
  /\ outage' = failing /\ spell' = 0
  /\ mood' = [i \in Items |-> m]
  /\ UNCHANGED <<vars, healthVars, counted>>

Outage == ~outage /\ \E m \in Moods \ {"ok"} : ChangeAll(TRUE, m)
Recovery == outage /\ ChangeAll(FALSE, "ok")

(* Steps that no call is made in.                                          *)
Ahead(c) ==
  \/ HasRoom /\ Poll(c)
  \/ NegativeHit(c) \/ NegativeMiss(c) \/ Skip(c) \/ Admit(c) \/ WakeUp(c)
  \/ Downgrade(c, GlobalDegraded) \/ Record(c, GlobalDegraded)
  \/ Remember(c) \/ Clear(c)

Handle(c) ==
  \/ Ahead(c) /\ UNCHANGED quiet
  \/ ClientCounts(c) \/ ServerCounts(c) \/ Answered(c)

Come(c) == ((HasRoom /\ Request(c)) \/ Done(c) \/ CDNRefuses(c)) /\ UNCHANGED quiet

Sweep ==
  /\ SweepNegative \/ SweepBreaker \/ SyncDone \/ PruneTrackers \/ PruneNegative
  /\ UNCHANGED quiet

CNext ==
  \/ CTick \/ OtherCall \/ Outage \/ Recovery
  \/ \E i \in Items : ItemChanges(i)
  \/ \E c \in Callers : Come(c) \/ Handle(c)
  \/ Sweep

CSpec == CInit /\ [][CNext]_composedVars

-----------------------------------------------------------------------------
(* Properties                                                              *)

(* However lazily the slice is trimmed, the landing page and the breaker   *)
(* judge by exactly the outcomes of the last window (server.go:583-700).   *)
HealthExact == RequestdlHealth = TrueHealth

(* Once every call has failed for a whole window, and enough were made,    *)
(* no item is quarantined for longer than the base window, whichever       *)
(* caller records its failure, whenever TorBox answered it, and however    *)
(* the two readings fall (get.go:508,530, server.go:611).  (A "transient"  *)
(* outage may come as errors inside a 200, which Client.do counts as       *)
(* successes.)                                                             *)
AllFail == outage /\ \A i \in Items : mood[i] # "transient"
LongOutageNeverEscalates ==
  [][AllFail /\ spell = HealthWindow /\ Oks + Bads >= MinSamples =>
       \A i \in Ids : escalations'[i] <= escalations[i]]_composedVars

=============================================================================
