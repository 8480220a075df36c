---------------------------- MODULE CircuitBreaker ----------------------------
(***************************************************************************)
(* The two memories of failed requestdl calls in internal/server: the      *)
(* negative cache (one entry per file) and the circuit breaker (one        *)
(* tracker per item id), as the GET handlers' fetchCDNURL, the cleanup     *)
(* loop and the sync's OnSyncDone use them, each behind its own mutex.     *)
(*                                                                         *)
(* Every critical section is one step, but for recordTorrentFailure, which *)
(* reads globalDegraded twice while it holds the mutex.  Deadlines are     *)
(* kept as the ticks that are left until they pass, 0 when they have, so   *)
(* that time needs no bound, and a fetch may take any.  What TorBox        *)
(* answers and what globalDegraded finds at each reading is left to the    *)
(* environment here; BreakerHealth adds what decides them.                 *)
(***************************************************************************)
EXTENDS Integers, Sequences, FiniteSets

CONSTANTS
  Callers,       \* goroutines serving a GET
  Keys,          \* cdnCacheKey: source, item id and file id
  Items,         \* source and item id
  Ids,           \* item ids alone
  ItemOf,        \* [Keys -> Items]
  IdOf,          \* [Items -> Ids]: the two sources number their own items
  Moods,         \* what requestdl may answer
  MaxRetries,    \* CDNURLRetryCount
  NegativeTTL,   \* NegativeCacheTTLSeconds
  NegativeMax,   \* negativeCacheMaxEntries
  Threshold,     \* CircuitBreakerFailures
  FailWindow,    \* CircuitBreakerWindowSec
  StaleBase,     \* CircuitBreakerStaleMin
  StaleCap,      \* CircuitBreakerMaxStaleMin
  ProbeLock,     \* breakerProbeInterval
  IntBits,       \* width of the int64 that the escalation shifts
  BreakerMax     \* circuitBreakerMaxEntries

AllMoods == {"ok", "database_error", "transient", "auth"}
Positive == Nat \ {0}

ASSUME KeyAssumption ==
  Keys # {} /\ ItemOf \in [Keys -> Items] /\ IdOf \in [Items -> Ids]
ASSUME MoodAssumption  == Moods \subseteq AllMoods /\ "ok" \in Moods
ASSUME LimitAssumption == MaxRetries \in Nat /\ Threshold \in Positive
ASSUME EntryAssumption == NegativeMax \in Positive /\ BreakerMax \in Positive
ASSUME TicksAssumption ==
  /\ NegativeTTL \in Positive /\ FailWindow \in Positive
  /\ StaleBase \in Positive /\ StaleCap \in Positive /\ IntBits \in Positive
  /\ ProbeLock \in Positive

Absent == -1   \* no entry, or a time.Time that is zero

VARIABLES
  negative,    \* [Keys -> ticks left of expiresAt, or Absent]
  tracked,     \* the keys of torrentFailures
  failures,    \* [Ids -> Seq(ticks left in the sliding window)]
  staleFor,    \* [Ids -> ticks left of staleUntil, or Absent]
  escalations, \* [Ids -> Nat]
  pc, key, attempt, kind,  \* each caller's fetchCDNURL
  pruner,      \* where OnSyncDone stands
  live,        \* the items in the store
  \* History
  sinceProbe,  \* [Ids -> ticks since a probe was let through, up to Shortest]
  earned       \* [Ids -> Seq(ticks left)]: the id's failures since a success

breakerVars == <<tracked, failures, staleFor, escalations>>
callerVars  == <<pc, key, attempt, kind>>
historyVars == <<sinceProbe, earned>>
vars == <<negative, breakerVars, callerVars, pruner, live, historyVars>>

Labels == {"idle", "negative", "breaker", "call", "backoff", "clear", "record",
           "trip", "remember", "poll", "served"}

NoKey == CHOOSE k \in Keys : TRUE

(* The shortest and the longest window a tracker may be given.             *)
Windows == {StaleBase, StaleCap, ProbeLock}
Shortest == CHOOSE n \in Windows : \A m \in Windows : n <= m
Longest == CHOOSE n \in Windows : \A m \in Windows : m <= n

Init ==
  /\ negative = [k \in Keys |-> Absent]
  /\ tracked = {}
  /\ failures = [i \in Ids |-> <<>>]
  /\ staleFor = [i \in Ids |-> Absent]
  /\ escalations = [i \in Ids |-> 0]
  /\ pc = [c \in Callers |-> "idle"]
  /\ key = [c \in Callers |-> NoKey]
  /\ attempt = [c \in Callers |-> 0]
  /\ kind = [c \in Callers |-> "ok"]
  /\ pruner = "idle"
  /\ live = Items
  /\ sinceProbe = [i \in Ids |-> Shortest]
  /\ earned = [i \in Ids |-> <<>>]

Item(c) == ItemOf[key[c]]
Id(c) == IdOf[Item(c)]
Goto(c, label) == pc' = [pc EXCEPT ![c] = label]

(* torrentFailuresMu is free: nobody is between the two readings of        *)
(* globalDegraded in recordTorrentFailure.                                 *)
Unlocked == \A c \in Callers : pc[c] # "trip"

-----------------------------------------------------------------------------
(* The environment: time, TorBox and the rest of the API's traffic.        *)

Sooner(n) == IF n > 0 THEN n - 1 ELSE n

(* Failures are kept in their order, so those that leave the window are    *)
(* the first ones.                                                         *)
Expired(w) ==
  CHOOSE n \in 0..Len(w) :
    (\A i \in 1..n : w[i] <= 1) /\ (n < Len(w) => w[n + 1] > 1)

Age(w) == [i \in 1..Len(w) - Expired(w) |-> w[i + Expired(w)] - 1]

Tick ==
  /\ negative' = [k \in Keys |-> Sooner(negative[k])]
  /\ staleFor' = [i \in Ids |-> Sooner(staleFor[i])]
  /\ failures' = [i \in Ids |-> Age(failures[i])]
  /\ sinceProbe' = [i \in Ids |->
       IF sinceProbe[i] < Shortest THEN sinceProbe[i] + 1 ELSE Shortest]
  /\ earned' = [i \in Ids |-> Age(earned[i])]
  /\ UNCHANGED <<tracked, escalations, callerVars, pruner, live>>

-----------------------------------------------------------------------------
(* fetchCDNURL                                                             *)

(* A GET for a file of the store, or the hang loop's timer.                *)
Ask(c, k) ==
  /\ key' = [key EXCEPT ![c] = k]
  /\ Goto(c, "negative")
  /\ UNCHANGED <<negative, breakerVars, attempt, kind, pruner,
                 live, historyVars>>

Request(c) == pc[c] = "idle" /\ \E k \in Keys : ItemOf[k] \in live /\ Ask(c, k)
Poll(c) == pc[c] = "poll" /\ Ask(c, key[c])

(* The client goes away, or has its file.                                  *)
Done(c) ==
  /\ pc[c] \in {"poll", "served"}
  /\ Goto(c, "idle")
  /\ key' = [key EXCEPT ![c] = NoKey]
  /\ UNCHANGED <<negative, breakerVars, attempt, kind, pruner,
                 live, historyVars>>

NegativeHit(c) ==
  /\ pc[c] = "negative" /\ negative[key[c]] > 0
  /\ Goto(c, "poll")
  /\ UNCHANGED <<negative, breakerVars, key, attempt, kind, pruner,
                 live, historyVars>>

NegativeMiss(c) ==
  /\ pc[c] = "negative" /\ negative[key[c]] <= 0
  /\ negative' = [negative EXCEPT ![key[c]] = Absent]
  /\ Goto(c, "breaker")
  /\ UNCHANGED <<breakerVars, key, attempt, kind, pruner, live, historyVars>>

(* isTorrentStale returns true.  The mutant renews the probe's lock for    *)
(* every caller it turns away.                                             *)
SkipRenewing(c) ==
  /\ pc[c] = "breaker" /\ staleFor[Id(c)] > 0 /\ Unlocked
  /\ Goto(c, "poll")
  /\ staleFor' = [staleFor EXCEPT ![Id(c)] = IF @ < ProbeLock THEN ProbeLock ELSE @]
  /\ UNCHANGED <<negative, tracked, failures, escalations, key, attempt, kind,
                 pruner, live, historyVars>>

Skip(c) ==
  /\ pc[c] = "breaker" /\ staleFor[Id(c)] > 0 /\ Unlocked
  /\ Goto(c, "poll")
  /\ UNCHANGED <<negative, breakerVars, key, attempt, kind, pruner,
                 live, historyVars>>

(* isTorrentStale returns false: to a probe when a stale window has just   *)
(* expired, to anybody when the item is not tripped.  The mutant does not  *)
(* lock the others out.                                                    *)
LetThrough(c) ==
  /\ pc[c] = "breaker" /\ staleFor[Id(c)] <= 0 /\ Unlocked
  /\ Goto(c, "call")
  /\ IF staleFor[Id(c)] = 0
     THEN sinceProbe' = [sinceProbe EXCEPT ![Id(c)] = 0]
     ELSE UNCHANGED sinceProbe
  /\ UNCHANGED <<negative, tracked, failures, escalations, key, attempt, kind,
                 pruner, live, earned>>

AdmitAll(c) == LetThrough(c) /\ UNCHANGED staleFor

Admit(c) ==
  /\ LetThrough(c)
  /\ staleFor' = [staleFor EXCEPT ![Id(c)] = IF @ = 0 THEN ProbeLock ELSE @]

(* getCDNURLWithRetry: the request waits in the throttle queue and TorBox  *)
(* answers at any later time.  A 5xx is retried; a bad token and what is   *)
(* transient come with a status that may be retried or not.                *)
CallSucceeds(c) ==
  /\ pc[c] = "call"
  /\ Goto(c, "clear")
  /\ UNCHANGED <<negative, breakerVars, key, attempt, kind, pruner,
                 live, historyVars>>

Retry(c) ==
  /\ pc[c] = "call"
  /\ attempt[c] < MaxRetries
  /\ attempt' = [attempt EXCEPT ![c] = @ + 1]
  /\ Goto(c, "backoff")
  /\ UNCHANGED <<negative, breakerVars, key, kind, pruner, live, historyVars>>

CallFails(c, m) ==
  /\ pc[c] = "call" /\ m # "ok"
  /\ m = "database_error" => attempt[c] >= MaxRetries
  /\ kind' = [kind EXCEPT ![c] = m]
  /\ Goto(c, IF m = "auth" THEN "remember" ELSE "record")
  /\ UNCHANGED <<negative, breakerVars, key, attempt, pruner, live, historyVars>>

WakeUp(c) ==
  /\ pc[c] = "backoff"
  /\ Goto(c, "call")
  /\ UNCHANGED <<negative, breakerVars, key, attempt, kind, pruner,
                 live, historyVars>>

(* recordTorrentFailure takes the mutex, and what looks like the item's    *)
(* fault is blamed on the API instead if that is degraded.                 *)
Downgrade(c, degraded) ==
  /\ pc[c] = "record" /\ Unlocked
  /\ kind' = [kind EXCEPT ![c] =
       IF @ = "database_error" /\ degraded THEN "transient" ELSE @]
  /\ Goto(c, "trip")
  /\ UNCHANGED <<negative, breakerVars, key, attempt, pruner, live,
                 historyVars>>

(* Failures older than the newest Threshold ones decide nothing and are    *)
(* not kept.                                                               *)
Newest(w) == IF Len(w) > Threshold THEN Tail(w) ELSE w

(* base << escalations: once every bit has left the int64 it stays 0, and  *)
(* what is below the base is taken for an overflow and becomes the base.   *)
(* The mutant of the escalation forgets the cap.                           *)
Shifted(n) ==
  LET bits == (StaleBase * 2^n) % 2^IntBits IN
  IF bits < 2^(IntBits - 1) THEN bits ELSE bits - 2^IntBits

EscalatedUncapped(n) == StaleBase * 2^n
Escalated(n) ==
  IF Shifted(n) \in StaleBase..StaleCap THEN Shifted(n)
  ELSE IF Shifted(n) < StaleBase /\ StaleBase <= StaleCap THEN StaleBase
  ELSE StaleCap

Record(c, degraded) ==
  (* globalDegraded is read once more. *)
  LET i == Id(c)
      active == Newest(Append(failures[i], FailWindow))
      itemScoped == kind[c] = "database_error" /\ ~degraded
  IN
  /\ pc[c] = "trip"
  /\ tracked' = tracked \cup {i}
  /\ failures' = [failures EXCEPT ![i] = active]
  /\ IF Len(active) < Threshold
     THEN UNCHANGED <<staleFor, escalations>>
     ELSE /\ staleFor' = [staleFor EXCEPT ![i] =
               IF itemScoped THEN Escalated(escalations[i]) ELSE StaleBase]
          /\ escalations' = [escalations EXCEPT ![i] =
               IF itemScoped /\ Shifted(@) # 0 THEN @ + 1 ELSE @]
  /\ earned' = [earned EXCEPT ![Id(c)] = Newest(Append(@, FailWindow))]
  /\ Goto(c, "remember")
  /\ UNCHANGED <<negative, key, attempt, kind, pruner, live, sinceProbe>>

(* getCDNURLWithRetry has returned, its locals are gone.                   *)
Return(c, label) ==
  /\ Goto(c, label)
  /\ attempt' = [attempt EXCEPT ![c] = 0]
  /\ kind' = [kind EXCEPT ![c] = "ok"]

Remember(c) ==
  /\ pc[c] = "remember"
  /\ negative' = [negative EXCEPT ![key[c]] = NegativeTTL]
  /\ Return(c, "poll")
  /\ UNCHANGED <<breakerVars, key, pruner, live, historyVars>>

(* Trackers go as a whole.  The mutant of clearTorrentFailure only lifts   *)
(* the stale window.                                                       *)
Forget(ids) ==
  /\ tracked' = tracked \ ids
  /\ failures' = [i \in Ids |-> IF i \in ids THEN <<>> ELSE failures[i]]
  /\ staleFor' = [i \in Ids |-> IF i \in ids THEN Absent ELSE staleFor[i]]
  /\ escalations' = [i \in Ids |-> IF i \in ids THEN 0 ELSE escalations[i]]

ClearedBy(c) ==
  /\ pc[c] = "clear" /\ Unlocked
  /\ earned' = [earned EXCEPT ![Id(c)] = <<>>]
  /\ Return(c, "served")
  /\ UNCHANGED <<negative, key, pruner, live, sinceProbe>>

Lift(c) ==
  /\ ClearedBy(c)
  /\ staleFor' = [staleFor EXCEPT ![Id(c)] = Absent]
  /\ UNCHANGED <<tracked, failures, escalations>>

Clear(c) == ClearedBy(c) /\ Forget({Id(c)})

(* streamFileContent and handleGetCDNHang: the CDN refuses what it was     *)
(* asked for with a fresh URL, or with one of the library, for good or     *)
(* with another size than the row's.  The file fails as if requestdl had.  *)
CDNRefuses(c) ==
  /\ \E k \in Keys :
       /\ \/ pc[c] = "served" /\ k = key[c]
          \/ pc[c] = "idle" /\ ItemOf[k] \in live
       /\ negative' = [negative EXCEPT ![k] = NegativeTTL]
  /\ Goto(c, "idle")
  /\ key' = [key EXCEPT ![c] = NoKey]
  /\ UNCHANGED <<breakerVars, attempt, kind, pruner, live, historyVars>>

-----------------------------------------------------------------------------
(* The cleanup loop: expired entries go, then those that expire first as   *)
(* long as there are too many (a tracker that never tripped first of all). *)

Evicted(S, deadline, limit) ==
  {E \in SUBSET S :
     /\ Cardinality(E) = IF Cardinality(S) > limit THEN Cardinality(S) - limit ELSE 0
     /\ \A x \in E, y \in S \ E : deadline[x] <= deadline[y]}

SweepNegative ==
  LET kept == {k \in Keys : negative[k] > 0} IN
  /\ \E E \in Evicted(kept, negative, NegativeMax) :
       negative' = [k \in Keys |-> IF k \in kept \ E THEN negative[k] ELSE Absent]
  /\ UNCHANGED <<breakerVars, callerVars, pruner, live, historyVars>>

SweepBreaker ==
  LET kept == {i \in tracked : staleFor[i] # 0} IN
  /\ Unlocked
  /\ \E E \in Evicted(kept, staleFor, BreakerMax) : Forget((tracked \ kept) \cup E)
  /\ UNCHANGED <<negative, callerVars, pruner, live, historyVars>>

(* A sync ends with other items in the store, and OnSyncDone calls         *)
(* PruneBreakerForMissingItems: the trackers first, then the entries.  It  *)
(* is not called when the items cannot be listed.                          *)
liveIds == {IdOf[i] : i \in live}

SyncDone ==
  /\ pruner = "idle"
  /\ \E S \in SUBSET Items : live' = S
  /\ pruner' \in {"idle", "trackers"}
  /\ UNCHANGED <<negative, breakerVars, callerVars, historyVars>>

PruneTrackers ==
  /\ pruner = "trackers" /\ Unlocked
  /\ Forget(tracked \ liveIds)
  /\ pruner' = "entries"
  /\ UNCHANGED <<negative, callerVars, live, historyVars>>

PruneNegative ==
  /\ pruner = "entries"
  /\ negative' = [k \in Keys |-> IF IdOf[ItemOf[k]] \in liveIds THEN negative[k] ELSE Absent]
  /\ pruner' = "idle"
  /\ UNCHANGED <<breakerVars, callerVars, live, historyVars>>

-----------------------------------------------------------------------------
Fetch(c) ==
  \/ Poll(c)
  \/ NegativeHit(c) \/ NegativeMiss(c) \/ Skip(c) \/ Admit(c)
  \/ CallSucceeds(c) \/ Retry(c) \/ (\E m \in Moods : CallFails(c, m)) \/ WakeUp(c)
  \/ (\E d \in BOOLEAN : Downgrade(c, d) \/ Record(c, d)) \/ Remember(c) \/ Clear(c)

Next ==
  \/ Tick
  \/ \E c \in Callers : Request(c) \/ Done(c) \/ CDNRefuses(c) \/ Fetch(c)
  \/ SweepNegative \/ SweepBreaker
  \/ SyncDone \/ PruneTrackers \/ PruneNegative

Spec == Init /\ [][Next]_vars

(* Time passes and a request in the hang loop goes on until its client     *)
(* leaves; nobody has to send a request.                                   *)
FairSpec == Spec /\ WF_vars(Tick) /\ \A c \in Callers : WF_vars(Fetch(c))

-----------------------------------------------------------------------------
(* Properties                                                              *)

(* Types.  No window is longer than the base, the cap of the escalation    *)
(* and the lock of a probe, and only tracked items have one.               *)
TypeOK ==
  /\ negative \in [Keys -> Absent..NegativeTTL]
  /\ tracked \subseteq Ids
  /\ failures \in [Ids -> Seq(1..FailWindow)]
  /\ staleFor \in [Ids -> Absent..Longest]
  /\ escalations \in [Ids -> Nat]
  /\ \A i \in Ids \ tracked : failures[i] = <<>> /\ staleFor[i] = Absent /\ escalations[i] = 0
  /\ pc \in [Callers -> Labels] /\ key \in [Callers -> Keys]
  /\ attempt \in [Callers -> 0..MaxRetries] /\ kind \in [Callers -> AllMoods]
  /\ pruner \in {"idle", "trackers", "entries"}
  /\ live \subseteq Items
  /\ sinceProbe \in [Ids -> 0..Shortest]
  /\ earned \in [Ids -> Seq(1..FailWindow)]

(* What the probe's lock guarantees (get.go:474, server.go:102): however   *)
(* long probes take and whatever is recorded, cleared, swept or pruned     *)
(* meanwhile, the probes of one id start at least the shortest of the      *)
(* configured windows apart.                                               *)
ProbesSpaced ==
  [][\A c \in Callers :
       pc[c] = "breaker" /\ pc'[c] = "call" /\ staleFor[Id(c)] = 0
       => sinceProbe[Id(c)] >= Shortest]_vars

(* An id is put in quarantine only for Threshold failures of items that    *)
(* have it, all within the window and since the last success of any of     *)
(* them, whichever callers were let through when (get.go:487, 516).        *)
QuarantineEarned ==
  [][\A c \in Callers :
       /\ pc[c] = "trip" /\ pc'[c] = "remember"
       /\ staleFor'[Id(c)] # staleFor[Id(c)]
       => Len(earned'[Id(c)]) >= Threshold]_vars

(* Quarantine and negative cache delay, but never starve: once TorBox      *)
(* answers again and the CDN refuses nothing, a handler that goes on       *)
(* polling gets its URL, whatever the other callers do and record.         *)
PollersRecover ==
  <>[][\A c \in Callers :
         ~CDNRefuses(c) /\ ~Retry(c) /\ \A m \in Moods : ~CallFails(c, m)]_vars
  => \A c \in Callers : pc[c] = "negative" ~> pc[c] \in {"served", "idle"}
=============================================================================
