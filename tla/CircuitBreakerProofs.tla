------------------------- MODULE CircuitBreakerProofs -------------------------
(***************************************************************************)
(* Proofs about CircuitBreaker, for any callers, files, items, answers of  *)
(* requestdl, limits and durations, and any width of the shift.            *)
(***************************************************************************)
EXTENDS CircuitBreaker, SequenceTheorems, WellFoundedInduction, TLAPS

(* The failures of an id, oldest first, as the ticks they have left.       *)
Sorted(w) == \A i, j \in 1..Len(w) : i <= j => w[i] <= w[j]
Times == {w \in Seq(1..FailWindow) : Sorted(w)}

(* The type invariant in three parts, with the order of the failures.      *)
TrackType ==
  /\ tracked \subseteq Ids
  /\ failures \in [Ids -> Times]
  /\ staleFor \in [Ids -> Absent..Longest]
  /\ escalations \in [Ids -> Nat]
  /\ \A i \in Ids \ tracked : failures[i] = << >> /\ staleFor[i] = Absent /\ escalations[i] = 0

CallerType ==
  /\ pc \in [Callers -> Labels] /\ key \in [Callers -> Keys]
  /\ attempt \in [Callers -> 0..MaxRetries] /\ kind \in [Callers -> AllMoods]

WorldType ==
  /\ negative \in [Keys -> Absent..NegativeTTL]
  /\ pruner \in {"idle", "trackers", "entries"}
  /\ live \subseteq Items
  /\ sinceProbe \in [Ids -> 0..Shortest] /\ earned \in [Ids -> Times]

TypeInv == TrackType /\ CallerType /\ WorldType

-----------------------------------------------------------------------------
(* Lemmas about the operators                                              *)

LEMMA Limits ==
  /\ Longest \in Positive /\ StaleBase <= Longest /\ StaleCap <= Longest /\ ProbeLock <= Longest
  /\ Shortest \in Positive /\ Shortest <= StaleBase /\ Shortest <= StaleCap
  /\ Shortest <= ProbeLock
  /\ StaleBase \in Positive /\ StaleCap \in Positive /\ ProbeLock \in Positive
  /\ FailWindow \in Positive /\ NegativeTTL \in Positive /\ Threshold \in Positive
  /\ MaxRetries \in Nat /\ Absent = -1
<1>1. /\ StaleBase \in Nat \ {0} /\ StaleCap \in Nat \ {0} /\ ProbeLock \in Nat \ {0}
      /\ Windows = {StaleBase, StaleCap, ProbeLock}
  BY TicksAssumption DEF Positive, Windows
<1>2. \E n \in Windows : \A m \in Windows : m <= n
  BY <1>1
<1>3. \E n \in Windows : \A m \in Windows : n <= m
  BY <1>1
<1>4. /\ Longest \in Windows /\ \A m \in Windows : m <= Longest
      /\ Shortest \in Windows /\ \A m \in Windows : Shortest <= m
  BY <1>2, <1>3 DEF Longest, Shortest
<1> QED
  BY <1>1, <1>4, TicksAssumption, LimitAssumption DEF Positive, Absent

(* However far the shift overflows, the window it yields is at least one   *)
(* of the configured ones and at most the cap.                             *)
LEMMA EscalatedBounds ==
  ASSUME NEW n PROVE Escalated(n) \in Positive /\ Escalated(n) <= Longest
                     /\ (StaleBase <= Escalated(n) \/ Escalated(n) = StaleCap)
<1>1. /\ StaleBase \in Nat \ {0} /\ StaleCap \in Nat \ {0} /\ Longest \in Nat
      /\ StaleBase <= Longest /\ StaleCap <= Longest
  BY Limits DEF Positive
<1>2. CASE Shifted(n) \in StaleBase..StaleCap
  <2>1. Escalated(n) \in StaleBase..StaleCap
    BY <1>2 DEF Escalated
  <2> QED
    BY <1>1, <2>1 DEF Positive
<1>3. CASE Shifted(n) \notin StaleBase..StaleCap
  <2>1. Escalated(n) \in {StaleBase, StaleCap}
    BY <1>3 DEF Escalated
  <2> QED
    BY <1>1, <2>1 DEF Positive
<1> QED
  BY <1>2, <1>3

LEMMA ExpiredProperties ==
  ASSUME NEW w \in Seq(Int)
  PROVE  LET n == Expired(w) IN
         /\ n \in 0..Len(w)
         /\ \A i \in 1..n : w[i] <= 1
         /\ n < Len(w) => w[n + 1] > 1
<1> DEFINE T == {n \in 0..Len(w) : n < Len(w) => w[n + 1] > 1}
<1>1. Len(w) \in Nat /\ \A i \in 1..Len(w) : w[i] \in Int
  BY ElementOfSeq, LenProperties
<1>2. T # {} /\ T \subseteq Nat
  <2>1. Len(w) \in T
    BY <1>1
  <2> QED
    BY <2>1, <1>1
<1>3. PICK n \in T : \A m \in T : n <= m
  <2>1. PICK n \in T : \A m \in T : <<m, n>> \notin OpToRel(<, Nat)
    BY <1>2, NatLessThanWellFounded, WFMin
  <2> HIDE DEF T
  <2>2. \A m \in T : ~ (m < n)
    BY <1>2, <2>1 DEF OpToRel
  <2>3. n \in Nat /\ \A m \in T : m \in Nat
    BY <1>2
  <2> QED
    BY <2>2, <2>3
<1>4. \A i \in 1..n : w[i] <= 1
  <2> SUFFICES ASSUME NEW i \in 1..n PROVE w[i] <= 1
    OBVIOUS
  <2>1. i - 1 \in 0..Len(w) /\ i - 1 < Len(w) /\ ~(n <= i - 1) /\ (i - 1) + 1 = i
    BY <1>1, <1>3
  <2>2. ~(w[(i - 1) + 1] > 1)
    BY <1>3, <2>1
  <2>3. w[i] \in Int
    BY <1>1, <2>1
  <2> QED
    BY <2>1, <2>2, <2>3
<1> QED
  BY <1>3, <1>4 DEF Expired

(* What has left the window is gone, what is left is in order.             *)
LEMMA AgeType ==
  ASSUME NEW w \in Times
  PROVE  /\ Age(w) \in Times
         /\ Expired(w) \in 0..Len(w) /\ Len(Age(w)) = Len(w) - Expired(w)
         /\ \A i \in 1..Len(Age(w)) : Age(w)[i] = w[i + Expired(w)] - 1
<1> DEFINE n == Expired(w)
           a == Age(w)
<1>1. /\ Len(w) \in Nat /\ \A i \in 1..Len(w) : w[i] \in 1..FailWindow
      /\ \A i, j \in 1..Len(w) : i <= j => w[i] <= w[j]
      /\ FailWindow \in Nat
  BY ElementOfSeq, LenProperties, Limits DEF Times, Sorted, Positive
<1>2. w \in Seq(Int)
  BY <1>1, SeqDef DEF Times
<1>3. n \in 0..Len(w) /\ (n < Len(w) => w[n + 1] > 1)
  BY <1>2, ExpiredProperties
<1>4. a = [i \in 1..Len(w) - n |-> w[i + n] - 1]
  BY DEF Age
<1> HIDE DEF n, a
<1>5. ASSUME NEW i \in 1..Len(w) - n PROVE i + n \in 1..Len(w) /\ w[i + n] - 1 \in 1..FailWindow
  <2>1. i + n \in 1..Len(w) /\ n + 1 \in 1..Len(w) /\ n < Len(w) /\ n + 1 <= i + n
    BY <1>1, <1>3
  <2>2. w[n + 1] <= w[i + n] /\ w[i + n] \in 1..FailWindow /\ w[n + 1] > 1 /\ w[n + 1] \in Int
    BY <1>1, <1>3, <2>1
  <2> QED
    BY <1>1, <2>1, <2>2
<1>6. Len(w) - n \in Nat
  BY <1>1, <1>3
<1>7. a \in Seq(1..FailWindow) /\ Len(a) = Len(w) - n
  <2> DEFINE m == Len(w) - n
  <2>1. m \in Nat /\ \A i \in 1..m : w[i + n] - 1 \in 1..FailWindow
    BY <1>5, <1>6
  <2>2. a = [i \in 1..m |-> w[i + n] - 1]
    BY <1>4
  <2> HIDE DEF m
  <2>3. a \in [1..m -> 1..FailWindow]
    BY <2>1, <2>2
  <2>4. a \in Seq(1..FailWindow)
    BY <2>1, <2>3, SeqDef
  <2>5. Len(a) = m
    BY <2>1, <2>3, <2>4, LenProperties
  <2> QED
    BY <2>4, <2>5 DEF m
<1>8. Sorted(a)
  <2> SUFFICES ASSUME NEW i \in 1..Len(a), NEW j \in 1..Len(a), i <= j PROVE a[i] <= a[j]
    BY DEF Sorted
  <2>1. a[i] = w[i + n] - 1 /\ a[j] = w[j + n] - 1
    BY <1>4, <1>7
  <2>2. i + n \in 1..Len(w) /\ j + n \in 1..Len(w) /\ i + n <= j + n
    BY <1>3, <1>5, <1>7
  <2>3. w[i + n] <= w[j + n] /\ w[i + n] \in Int /\ w[j + n] \in Int
    BY <1>1, <2>2
  <2> QED
    BY <2>1, <2>3
<1> QED
  BY <1>3, <1>4, <1>7, <1>8 DEF Times, n, a

(* A failure now is the newest; the oldest goes when there are too many.   *)
LEMMA NewestType ==
  ASSUME NEW w \in Times
  PROVE  LET v == Append(w, FailWindow) IN
         /\ v \in Times /\ Len(v) = Len(w) + 1
         /\ \A i \in 1..Len(v) : v[i] = IF i = Len(v) THEN FailWindow ELSE w[i]
         /\ Newest(v) \in Times
         /\ Len(Newest(v)) = IF Len(v) > Threshold THEN Len(v) - 1 ELSE Len(v)
         /\ \A i \in 1..Len(Newest(v)) :
              Newest(v)[i] = IF Len(v) > Threshold THEN v[i + 1] ELSE v[i]
<1> DEFINE v == Append(w, FailWindow)
<1>1. /\ Len(w) \in Nat /\ \A i \in 1..Len(w) : w[i] \in 1..FailWindow
      /\ \A i, j \in 1..Len(w) : i <= j => w[i] <= w[j]
      /\ FailWindow \in Nat \ {0} /\ w \in Seq(1..FailWindow) /\ Threshold \in Nat \ {0}
  BY ElementOfSeq, LenProperties, Limits DEF Times, Sorted, Positive
<1>2. /\ v \in Seq(1..FailWindow) /\ Len(v) = Len(w) + 1
      /\ \A i \in 1..Len(v) : v[i] = IF i = Len(v) THEN FailWindow ELSE w[i]
  <2>1. FailWindow \in 1..FailWindow
    BY <1>1
  <2>2. v \in Seq(1..FailWindow) /\ Len(v) = Len(w) + 1
    BY <1>1, <2>1, AppendProperties
  <2>3. v[Len(w) + 1] = FailWindow /\ \A i \in 1..Len(w) : v[i] = w[i]
    BY <1>1, <2>1, AppendProperties
  <2>4. \A i \in 1..Len(w) + 1 : i = Len(w) + 1 \/ i \in 1..Len(w)
    BY <1>1
  <2> QED
    BY <2>2, <2>3, <2>4
<1> HIDE DEF v
<1>3. \A i, j \in 1..Len(v) : i <= j => v[i] <= v[j]
  <2> SUFFICES ASSUME NEW i \in 1..Len(v), NEW j \in 1..Len(v), i <= j PROVE v[i] <= v[j]
    OBVIOUS
  <2>1. CASE j = Len(v)
    <3>1. v[i] \in 1..FailWindow
      BY <1>2, ElementOfSeq
    <3>2. v[j] = FailWindow /\ FailWindow \in Nat
      BY <1>1, <1>2, <2>1
    <3> QED
      BY <3>1, <3>2
  <2>2. CASE j # Len(v)
    <3>1. i \in 1..Len(w) /\ j \in 1..Len(w) /\ i # Len(v)
      BY <1>1, <1>2, <2>2
    <3>2. v[i] = w[i] /\ v[j] = w[j]
      BY <1>2, <2>2, <3>1
    <3>3. w[i] <= w[j]
      BY <1>1, <3>1
    <3> QED
      BY <3>2, <3>3
  <2> QED
    BY <2>1, <2>2
<1>4. v # << >> /\ Len(v) \in Nat
  BY <1>1, <1>2, EmptySeq
<1>5. CASE Len(v) > Threshold
  <2>1. /\ Tail(v) \in Seq(1..FailWindow) /\ Len(Tail(v)) = Len(v) - 1
        /\ \A i \in 1..Len(Tail(v)) : Tail(v)[i] = v[i + 1]
    BY <1>2, <1>4, HeadTailProperties
  <2>2. Sorted(Tail(v))
    <3> SUFFICES ASSUME NEW i \in 1..Len(Tail(v)), NEW j \in 1..Len(Tail(v)), i <= j
                 PROVE  Tail(v)[i] <= Tail(v)[j]
      BY DEF Sorted
    <3>1. i + 1 \in 1..Len(v) /\ j + 1 \in 1..Len(v) /\ i + 1 <= j + 1
      BY <1>4, <2>1
    <3> QED
      BY <1>3, <2>1, <3>1
  <2>3. Newest(v) = Tail(v)
    BY <1>5 DEF Newest
  <2> QED
    BY <1>2, <1>3, <1>5, <2>1, <2>2, <2>3 DEF Times, Sorted, v
<1>6. CASE ~(Len(v) > Threshold)
  BY <1>2, <1>3, <1>6 DEF Newest, Times, Sorted, v
<1> QED
  BY <1>5, <1>6

LEMMA NoFailures == << >> \in Times /\ Len(<< >>) = 0
<1>1. << >> \in Seq(1..FailWindow) /\ Len(<< >>) = 0
  BY EmptySeq
<1> QED
  BY <1>1 DEF Times, Sorted

-----------------------------------------------------------------------------
(* Types                                                                   *)

LEMMA InitType == Init => TypeInv
<1> SUFFICES ASSUME Init PROVE TypeInv
  OBVIOUS
<1> USE DEF Init
<1>1. TrackType
  <2>1. Absent \in Absent..Longest /\ 0 \in Nat
    BY Limits DEF Positive
  <2> QED
    BY <2>1, NoFailures DEF TrackType
<1>2. CallerType
  <2>1. NoKey \in Keys
    BY KeyAssumption DEF NoKey
  <2>2. "idle" \in Labels /\ "ok" \in AllMoods /\ 0 \in 0..MaxRetries
    BY Limits DEF Labels, AllMoods
  <2> QED
    BY <2>1, <2>2 DEF CallerType
<1>3. WorldType
  <2>1. Absent \in Absent..NegativeTTL /\ Shortest \in 0..Shortest
    BY Limits DEF Positive
  <2> QED
    BY <2>1, NoFailures DEF WorldType
<1> QED
  BY <1>1, <1>2, <1>3 DEF TypeInv

(* A step of one caller to another label.                                  *)
LEMMA GotoType ==
  ASSUME CallerType, NEW c \in Callers, NEW l \in Labels, Goto(c, l),
         UNCHANGED <<key, attempt, kind>>
  PROVE  CallerType'
BY DEF CallerType, Goto

(* Trackers go as a whole, whichever.                                      *)
LEMMA ForgetType ==
  ASSUME TrackType, NEW ids, Forget(ids) PROVE TrackType'
<1>1. Absent \in Absent..Longest /\ 0 \in Nat
  BY Limits DEF Positive
<1> QED
  BY <1>1, NoFailures DEF TrackType, Forget

LEMMA SoonerType ==
  ASSUME NEW m \in Positive, NEW n \in Absent..m PROVE Sooner(n) \in Absent..m
BY DEF Sooner, Absent, Positive

LEMMA TickType == TypeInv /\ Tick => TypeInv'
<1> SUFFICES ASSUME TypeInv, Tick PROVE TypeInv'
  OBVIOUS
<1>1. TrackType'
  <2>1. staleFor' \in [Ids -> Absent..Longest]
    BY Limits, SoonerType DEF Tick, TypeInv, TrackType
  <2>2. failures' \in [Ids -> Times]
    BY AgeType DEF Tick, TypeInv, TrackType
  <2>3. ASSUME NEW i \in Ids \ tracked' PROVE failures'[i] = << >> /\ staleFor'[i] = Absent
    <3>1. failures[i] = << >> /\ staleFor[i] = Absent
      BY DEF Tick, TypeInv, TrackType
    <3>2. Age(<< >>) = << >>
      <4>1. Expired(<< >>) \in 0..0 /\ Len(Age(<< >>)) = 0 - Expired(<< >>)
        BY NoFailures, AgeType
      <4>2. Len(Age(<< >>)) = 0
        BY <4>1
      <4>3. Age(<< >>) \in Seq(1..FailWindow)
        BY NoFailures, AgeType DEF Times
      <4> QED
        BY <4>2, <4>3, EmptySeq
    <3>3. Sooner(Absent) = Absent
      BY DEF Sooner, Absent
    <3> QED
      BY <3>1, <3>2, <3>3 DEF Tick
  <2> QED
    BY <2>1, <2>2, <2>3 DEF Tick, TypeInv, TrackType
<1>2. CallerType'
  BY DEF Tick, callerVars, TypeInv, CallerType
<1>3. WorldType'
  <2>1. negative' \in [Keys -> Absent..NegativeTTL]
    BY Limits, SoonerType DEF Tick, TypeInv, WorldType
  <2>2. earned' \in [Ids -> Times]
    BY AgeType DEF Tick, TypeInv, WorldType
  <2>3. sinceProbe' \in [Ids -> 0..Shortest]
    <3> SUFFICES ASSUME NEW i \in Ids
                 PROVE  (IF sinceProbe[i] < Shortest THEN sinceProbe[i] + 1 ELSE Shortest)
                        \in 0..Shortest
      BY DEF Tick
    <3>1. sinceProbe[i] \in 0..Shortest /\ Shortest \in Nat
      BY Limits DEF TypeInv, WorldType, Positive
    <3> QED
      BY <3>1
  <2> QED
    BY <2>1, <2>2, <2>3 DEF Tick, TypeInv, WorldType
<1> QED
  BY <1>1, <1>2, <1>3 DEF TypeInv

LEMMA RecordType ==
  ASSUME TypeInv, NEW c \in Callers, NEW d \in BOOLEAN, Record(c, d) PROVE TypeInv'
<1> DEFINE i == Id(c)
           active == Newest(Append(failures[i], FailWindow))
<1>1. i \in Ids /\ Item(c) \in Items
  BY KeyAssumption DEF Id, Item, TypeInv, CallerType
<1>2. active \in Times
  BY <1>1, NewestType DEF TypeInv, TrackType
<1>3. /\ tracked' = tracked \cup {i}
      /\ failures' = [failures EXCEPT ![i] = active]
      /\ \/ UNCHANGED <<staleFor, escalations>>
         \/ /\ \/ staleFor' = [staleFor EXCEPT ![i] = Escalated(escalations[i])]
               \/ staleFor' = [staleFor EXCEPT ![i] = StaleBase]
            /\ \/ escalations' = [escalations EXCEPT ![i] = escalations[i] + 1]
               \/ escalations' = [escalations EXCEPT ![i] = escalations[i]]
  BY DEF Record
<1> HIDE DEF i, active
<1>4. Escalated(escalations[i]) \in Absent..Longest /\ StaleBase \in Absent..Longest
  <2>1. Escalated(escalations[i]) \in Positive /\ Escalated(escalations[i]) <= Longest
    BY EscalatedBounds
  <2> QED
    BY <2>1, Limits DEF Positive
<1>5. /\ failures' \in [Ids -> Times] /\ staleFor' \in [Ids -> Absent..Longest]
      /\ escalations' \in [Ids -> Nat] /\ tracked' \subseteq Ids
  <2>1. failures' \in [Ids -> Times] /\ tracked' \subseteq Ids
    BY <1>1, <1>2, <1>3 DEF TypeInv, TrackType
  <2>2. staleFor' \in [Ids -> Absent..Longest]
    BY <1>1, <1>3, <1>4 DEF TypeInv, TrackType
  <2>3. escalations' \in [Ids -> Nat]
    BY <1>1, <1>3 DEF TypeInv, TrackType
  <2> QED
    BY <2>1, <2>2, <2>3
<1>6. \A j \in Ids \ {i} : /\ failures'[j] = failures[j] /\ staleFor'[j] = staleFor[j]
                           /\ escalations'[j] = escalations[j]
  <2>1. \A j \in Ids \ {i} : failures'[j] = failures[j]
    BY <1>1, <1>3 DEF TypeInv, TrackType
  <2>2. \A j \in Ids \ {i} : staleFor'[j] = staleFor[j]
    BY <1>1, <1>3 DEF TypeInv, TrackType
  <2>3. \A j \in Ids \ {i} : escalations'[j] = escalations[j]
    BY <1>1, <1>3 DEF TypeInv, TrackType
  <2> QED
    BY <2>1, <2>2, <2>3
<1>7. TrackType'
  BY <1>3, <1>5, <1>6 DEF TypeInv, TrackType
<1>8. CallerType'
  BY GotoType DEF Record, TypeInv, Labels
<1>9. WorldType'
  <2>1. earned' \in [Ids -> Times]
    <3>1. earned[Id(c)] \in Times
      BY <1>1 DEF TypeInv, WorldType, i
    <3>2. Newest(Append(earned[Id(c)], FailWindow)) \in Times
      BY <3>1, NewestType
    <3> QED
      BY <3>2 DEF Record, TypeInv, WorldType
  <2> QED
    BY <2>1 DEF Record, TypeInv, WorldType
<1> QED
  BY <1>7, <1>8, <1>9 DEF TypeInv

LEMMA NextType == TypeInv /\ [Next]_vars => TypeInv'
<1> SUFFICES ASSUME TypeInv, [Next]_vars PROVE TypeInv'
  OBVIOUS
<1> USE DEF breakerVars, callerVars, historyVars
<1>0. TrackType /\ CallerType /\ WorldType
  BY DEF TypeInv
<1>a. UNCHANGED breakerVars => TrackType'
  BY <1>0 DEF TrackType
<1>b. UNCHANGED callerVars => CallerType'
  BY <1>0 DEF CallerType
<1>c. UNCHANGED <<negative, pruner, live, historyVars>> => WorldType'
  BY <1>0 DEF WorldType
<1>1. CASE Tick
  BY <1>1, TickType
<1>2. ASSUME NEW c \in Callers, CDNRefuses(c) PROVE TypeInv'
  <2>1. PICK k \in Keys : negative' = [negative EXCEPT ![k] = NegativeTTL]
    BY <1>2 DEF CDNRefuses
  <2>2. NegativeTTL \in Absent..NegativeTTL /\ NoKey \in Keys
    BY Limits, KeyAssumption DEF Positive, NoKey
  <2>3. WorldType'
    BY <1>0, <1>2, <2>1, <2>2 DEF CDNRefuses, WorldType
  <2>4. CallerType'
    BY <1>0, <1>2, <2>2 DEF CDNRefuses, Goto, CallerType, Labels
  <2> QED
    BY <1>2, <1>a, <2>3, <2>4 DEF CDNRefuses, TypeInv
<1>3. ASSUME NEW c \in Callers, NEW k \in Keys, Ask(c, k) PROVE TypeInv'
  <2>1. CallerType'
    BY <1>0, <1>3 DEF Ask, Goto, CallerType, Labels
  <2> QED
    BY <1>3, <1>a, <1>c, <2>1 DEF Ask, TypeInv
<1>5. ASSUME NEW c \in Callers, Done(c) PROVE TypeInv'
  <2>1. CallerType'
    <3>1. NoKey \in Keys
      BY KeyAssumption DEF NoKey
    <3> QED
      BY <1>0, <1>5, <3>1 DEF Done, Goto, CallerType, Labels
  <2> QED
    BY <1>5, <1>a, <1>c, <2>1 DEF Done, TypeInv
<1>6. ASSUME NEW c \in Callers, NegativeHit(c) \/ Skip(c) \/ CallSucceeds(c) \/ WakeUp(c)
      PROVE  TypeInv'
  <2>1. CallerType'
    BY <1>0, <1>6, GotoType DEF NegativeHit, Skip, CallSucceeds, WakeUp, Labels
  <2> QED
    BY <1>6, <1>a, <1>c, <2>1 DEF NegativeHit, Skip, CallSucceeds, WakeUp, TypeInv
<1>7. ASSUME NEW c \in Callers, NegativeMiss(c) PROVE TypeInv'
  <2>1. CallerType'
    BY <1>0, <1>7, GotoType DEF NegativeMiss, Labels
  <2>2. WorldType'
    <3>1. Absent \in Absent..NegativeTTL
      BY Limits DEF Positive
    <3> QED
      BY <1>0, <1>7, <3>1 DEF NegativeMiss, WorldType
  <2> QED
    BY <1>7, <1>a, <2>1, <2>2 DEF NegativeMiss, TypeInv
<1>8. ASSUME NEW c \in Callers, Admit(c) PROVE TypeInv'
  <2>1. CallerType'
    BY <1>0, <1>8, GotoType DEF Admit, LetThrough, Labels
  <2>2. TrackType'
    <3>1. CASE staleFor[Id(c)] # 0
      BY <1>0, <1>8, <3>1 DEF Admit, LetThrough, TrackType
    <3>2. CASE staleFor[Id(c)] = 0
      <4>1. ProbeLock \in Absent..Longest /\ Absent # 0
        BY Limits DEF Positive
      <4>2. staleFor' = [staleFor EXCEPT ![Id(c)] = ProbeLock]
        BY <1>0, <1>8, <3>2 DEF Admit
      <4>3. staleFor' \in [Ids -> Absent..Longest]
        BY <1>0, <4>1, <4>2 DEF TrackType
      <4>4. Id(c) \notin Ids \ tracked
        BY <1>0, <3>2, <4>1 DEF TrackType
      <4>5. \A i \in Ids \ tracked : staleFor'[i] = staleFor[i]
        BY <1>0, <4>2, <4>4 DEF TrackType
      <4> QED
        BY <1>0, <1>8, <4>3, <4>5 DEF Admit, LetThrough, TrackType
    <3> QED
      BY <3>1, <3>2
  <2>3. WorldType'
    <3>1. 0 \in 0..Shortest
      BY Limits DEF Positive
    <3>2. sinceProbe' \in [Ids -> 0..Shortest]
      BY <1>0, <1>8, <3>1 DEF Admit, LetThrough, WorldType
    <3> QED
      BY <1>0, <1>8, <3>2 DEF Admit, LetThrough, WorldType
  <2> QED
    BY <2>1, <2>2, <2>3 DEF TypeInv
<1>9. ASSUME NEW c \in Callers, Retry(c) PROVE TypeInv'
  <2>1. attempt[c] + 1 \in 0..MaxRetries
    BY <1>0, <1>9, Limits DEF Retry, CallerType
  <2>2. CallerType'
    BY <1>0, <1>9, <2>1 DEF Retry, Goto, CallerType, Labels
  <2> QED
    BY <1>9, <1>a, <1>c, <2>2 DEF Retry, TypeInv
<1>10. ASSUME NEW c \in Callers, NEW m \in Moods, CallFails(c, m) PROVE TypeInv'
  <2>1. m \in AllMoods
    BY MoodAssumption
  <2>2. CallerType'
    BY <1>0, <1>10, <2>1 DEF CallFails, Goto, CallerType, Labels
  <2> QED
    BY <1>10, <1>a, <1>c, <2>2 DEF CallFails, TypeInv
<1>11. ASSUME NEW c \in Callers, NEW d \in BOOLEAN, Downgrade(c, d) PROVE TypeInv'
  <2>1. CallerType'
    BY <1>0, <1>11 DEF Downgrade, Goto, CallerType, Labels, AllMoods
  <2> QED
    BY <1>11, <1>a, <1>c, <2>1 DEF Downgrade, TypeInv
<1>12. ASSUME NEW c \in Callers, NEW d \in BOOLEAN, Record(c, d) PROVE TypeInv'
  BY <1>12, RecordType
<1>13. ASSUME NEW c \in Callers, NEW l \in Labels, Return(c, l), UNCHANGED key PROVE CallerType'
  <2>1. 0 \in 0..MaxRetries /\ "ok" \in AllMoods
    BY Limits DEF AllMoods
  <2> QED
    BY <1>0, <1>13, <2>1 DEF Return, Goto, CallerType
<1>14. ASSUME NEW c \in Callers, Remember(c) PROVE TypeInv'
  <2>1. CallerType'
    BY <1>13, <1>14 DEF Remember, Labels
  <2>2. WorldType'
    <3>1. NegativeTTL \in Absent..NegativeTTL
      BY Limits DEF Positive
    <3> QED
      BY <1>0, <1>14, <3>1 DEF Remember, WorldType
  <2> QED
    BY <1>14, <1>a, <2>1, <2>2 DEF Remember, TypeInv
<1>15. ASSUME NEW c \in Callers, Clear(c) PROVE TypeInv'
  <2>1. CallerType'
    BY <1>13, <1>15 DEF Clear, ClearedBy, Labels
  <2>2. WorldType'
    BY <1>0, <1>15, NoFailures DEF Clear, ClearedBy, WorldType
  <2>3. TrackType'
    BY <1>0, <1>15, ForgetType DEF Clear
  <2> QED
    BY <2>1, <2>2, <2>3 DEF TypeInv
<1>16. CASE SweepNegative \/ PruneNegative
  <2>1. Absent \in Absent..NegativeTTL
    BY Limits DEF Positive
  <2>2. negative' \in [Keys -> Absent..NegativeTTL]
    <3>1. CASE SweepNegative
      BY <1>0, <2>1, <3>1 DEF SweepNegative, WorldType
    <3>2. CASE PruneNegative
      BY <1>0, <2>1, <3>2 DEF PruneNegative, WorldType
    <3> QED
      BY <1>16, <3>1, <3>2
  <2>3. WorldType'
    BY <1>0, <1>16, <2>2 DEF SweepNegative, PruneNegative, WorldType
  <2> QED
    BY <1>16, <1>a, <1>b, <2>3 DEF SweepNegative, PruneNegative, TypeInv
<1>17. CASE SweepBreaker \/ PruneTrackers
  <2>1. TrackType'
    BY <1>0, <1>17, ForgetType DEF SweepBreaker, PruneTrackers
  <2>2. WorldType'
    BY <1>0, <1>17 DEF SweepBreaker, PruneTrackers, WorldType
  <2> QED
    BY <1>17, <1>b, <2>1, <2>2 DEF SweepBreaker, PruneTrackers, TypeInv
<1>18. CASE SyncDone
  <2>1. WorldType'
    BY <1>0, <1>18 DEF SyncDone, WorldType
  <2> QED
    BY <1>18, <1>a, <1>b, <2>1 DEF SyncDone, TypeInv
<1>19. CASE UNCHANGED vars
  BY <1>19, <1>a, <1>b, <1>c DEF vars, TypeInv
<1>20. ASSUME NEW c \in Callers, Request(c) \/ Poll(c) PROVE TypeInv'
  <2>1. key[c] \in Keys
    BY <1>0 DEF CallerType
  <2> QED
    BY <1>3, <1>20, <2>1 DEF Request, Poll
<1> QED
  BY <1>1, <1>2, <1>5, <1>6, <1>7, <1>8, <1>9, <1>10, <1>11, <1>12, <1>14, <1>15,
     <1>16, <1>17, <1>18, <1>19, <1>20 DEF Next, Fetch

(* Every reachable state has its type: whatever the shift of the           *)
(* escalation overflows to, no item is quarantined for longer than the     *)
(* base, the cap or the probe lock, and only tracked items are.            *)
THEOREM TypeCorrect == Spec => []TypeOK
<1>1. Spec => []TypeInv
  BY InitType, NextType, PTL DEF Spec
<1>2. TypeInv => TypeOK
  BY DEF TypeInv, TrackType, CallerType, WorldType, TypeOK, Times
<1> QED
  BY <1>1, <1>2, PTL

-----------------------------------------------------------------------------
(* The half-open probe                                                     *)

(* What is left of an id's window and what has passed since its last probe *)
(* make up the shortest window at least.                                   *)
Spaced(stale, since) == stale = Absent \/ stale + since >= Shortest
SpacedInv == \A i \in Ids : Spaced(staleFor[i], sinceProbe[i])

(* A step that lets no probe through and takes no time keeps them apart,   *)
(* when it leaves a window alone, forgets it or opens one that is long     *)
(* enough.                                                                 *)
LEMMA SpacedStill ==
  ASSUME TypeInv, SpacedInv, UNCHANGED sinceProbe,
         \A i \in Ids : \/ staleFor'[i] \in {staleFor[i], Absent}
                        \/ staleFor'[i] \in Nat /\ staleFor'[i] >= Shortest
  PROVE  SpacedInv'
<1> SUFFICES ASSUME NEW i \in Ids PROVE Spaced(staleFor'[i], sinceProbe[i])
  BY DEF SpacedInv
<1>1. sinceProbe[i] \in Nat /\ Shortest \in Nat
  BY Limits DEF TypeInv, WorldType, Positive
<1> QED
  BY <1>1 DEF Spaced, SpacedInv

LEMMA NextSpaced ==
  ASSUME TypeInv, SpacedInv, [Next]_vars PROVE SpacedInv'
<1> USE DEF breakerVars, callerVars, historyVars
<1>1. /\ staleFor \in [Ids -> Absent..Longest] /\ sinceProbe \in [Ids -> 0..Shortest]
      /\ \A c \in Callers : Id(c) \in Ids
      /\ Shortest \in Nat /\ Shortest <= ProbeLock /\ ProbeLock \in Nat
  BY KeyAssumption, Limits DEF TypeInv, TrackType, WorldType, CallerType, Item, Id, Positive
<1>2. ASSUME UNCHANGED <<staleFor, sinceProbe>> PROVE SpacedInv'
  BY <1>2 DEF SpacedInv
<1>3. ASSUME NEW ids, Forget(ids), UNCHANGED sinceProbe PROVE SpacedInv'
  BY <1>1, <1>3, SpacedStill DEF Forget
<1>4. CASE Tick
  <2> SUFFICES ASSUME NEW i \in Ids PROVE Spaced(staleFor'[i], sinceProbe'[i])
    BY DEF SpacedInv
  <2>1. /\ staleFor'[i] = Sooner(staleFor[i])
        /\ sinceProbe'[i] = IF sinceProbe[i] < Shortest THEN sinceProbe[i] + 1 ELSE Shortest
    BY <1>1, <1>4 DEF Tick
  <2>2. Spaced(staleFor[i], sinceProbe[i])
    BY DEF SpacedInv
  <2>3. staleFor[i] \in Absent..Longest /\ sinceProbe[i] \in 0..Shortest /\ Longest \in Nat
    BY <1>1, Limits DEF Positive
  <2> QED
    BY <1>1, <2>1, <2>2, <2>3 DEF Spaced, Sooner, Absent
<1>5. ASSUME NEW c \in Callers, Admit(c) PROVE SpacedInv'
  <2>1. CASE staleFor[Id(c)] # 0
    <3>1. UNCHANGED <<staleFor, sinceProbe>>
      BY <1>1, <1>5, <2>1 DEF Admit, LetThrough
    <3> QED
      BY <1>2, <3>1
  <2>2. CASE staleFor[Id(c)] = 0
    <3>1. /\ staleFor' = [staleFor EXCEPT ![Id(c)] = ProbeLock]
          /\ sinceProbe' = [sinceProbe EXCEPT ![Id(c)] = 0]
      BY <1>1, <1>5, <2>2 DEF Admit, LetThrough
    <3> SUFFICES ASSUME NEW i \in Ids PROVE Spaced(staleFor'[i], sinceProbe'[i])
      BY DEF SpacedInv
    <3>2. CASE i = Id(c)
      BY <1>1, <3>1, <3>2 DEF Spaced
    <3>3. CASE i # Id(c)
      BY <1>1, <3>1, <3>3 DEF Spaced, SpacedInv
    <3> QED
      BY <3>2, <3>3
  <2> QED
    BY <2>1, <2>2
<1>6. ASSUME NEW c \in Callers, NEW d \in BOOLEAN, Record(c, d) PROVE SpacedInv'
  <2> DEFINE w == Escalated(escalations[Id(c)])
  <2>1. /\ \/ UNCHANGED staleFor
           \/ staleFor' = [staleFor EXCEPT ![Id(c)] = w]
           \/ staleFor' = [staleFor EXCEPT ![Id(c)] = StaleBase]
        /\ UNCHANGED sinceProbe
    BY <1>6 DEF Record
  <2>2. w \in Positive /\ (StaleBase <= w \/ w = StaleCap)
    BY EscalatedBounds
  <2> HIDE DEF w
  <2>3. w \in Nat /\ w >= Shortest /\ StaleBase \in Nat /\ StaleBase >= Shortest
    BY <2>2, Limits DEF Positive
  <2>4. \A i \in Ids : staleFor'[i] \in {staleFor[i], w, StaleBase}
    BY <1>1, <2>1
  <2> QED
    BY <2>1, <2>3, <2>4, SpacedStill
<1>7. ASSUME NEW c \in Callers, Clear(c) PROVE SpacedInv'
  BY <1>3, <1>7 DEF Clear, ClearedBy
<1>8. CASE SweepBreaker \/ PruneTrackers
  BY <1>3, <1>8 DEF SweepBreaker, PruneTrackers
<1>9. CASE SweepNegative \/ PruneNegative \/ SyncDone \/ UNCHANGED vars
  BY <1>2, <1>9 DEF SweepNegative, PruneNegative, SyncDone, vars
<1>10. ASSUME NEW c \in Callers, \/ Request(c) \/ Done(c) \/ Poll(c) \/ NegativeHit(c)
                                 \/ NegativeMiss(c) \/ Skip(c) \/ CDNRefuses(c)
       PROVE  SpacedInv'
  BY <1>2, <1>10 DEF Request, Poll, Ask, Done, NegativeHit, NegativeMiss, Skip, CDNRefuses
<1>11. ASSUME NEW c \in Callers, CallSucceeds(c) \/ Retry(c) \/ WakeUp(c) \/ Remember(c)
       PROVE  SpacedInv'
  BY <1>2, <1>11 DEF CallSucceeds, Retry, WakeUp, Remember
<1>12. ASSUME NEW c \in Callers, NEW m, CallFails(c, m) PROVE SpacedInv'
  BY <1>2, <1>12 DEF CallFails
<1>13. ASSUME NEW c \in Callers, NEW d, Downgrade(c, d) PROVE SpacedInv'
  BY <1>2, <1>13 DEF Downgrade
<1> QED
  BY <1>4, <1>5, <1>6, <1>7, <1>8, <1>9, <1>10, <1>11, <1>12, <1>13 DEF Next, Fetch

(* The probes of one id start at least the shortest of the three windows   *)
(* apart, whatever is recorded, cleared, swept and pruned meanwhile and    *)
(* however long each takes: the lock of get.go:474 is worth that much, and *)
(* no more.                                                                *)
THEOREM ProbesAreSpaced == Spec => ProbesSpaced
<1>1. Init => SpacedInv
  BY DEF Init, SpacedInv, Spaced
<1>2. TypeInv /\ SpacedInv /\ [Next]_vars => SpacedInv'
  BY NextSpaced
<1>3. Spec => []TypeInv
  BY InitType, NextType, PTL DEF Spec
<1>4. Spec => []SpacedInv
  BY <1>1, <1>2, <1>3, PTL DEF Spec
<1> DEFINE Apart == \A c \in Callers :
             pc[c] = "breaker" /\ pc'[c] = "call" /\ staleFor[Id(c)] = 0
             => sinceProbe[Id(c)] >= Shortest
<1>5. TypeInv /\ SpacedInv => Apart
  <2> SUFFICES ASSUME TypeInv, SpacedInv, NEW c \in Callers, staleFor[Id(c)] = 0
               PROVE  sinceProbe[Id(c)] >= Shortest
    OBVIOUS
  <2>1. Id(c) \in Ids /\ sinceProbe[Id(c)] \in Nat /\ Absent # 0
    BY KeyAssumption, Limits DEF TypeInv, WorldType, CallerType, Item, Id
  <2> QED
    BY <2>1 DEF SpacedInv, Spaced
<1>6. TypeInv /\ SpacedInv /\ [Next]_vars => [Apart]_vars
  BY <1>5
<1> QED
  BY <1>3, <1>4, <1>6, PTL DEF Spec, ProbesSpaced

-----------------------------------------------------------------------------
(* Quarantine                                                              *)

(* What a tracker counts are the latest of the id's failures since a       *)
(* success.                                                                *)
IsLatest(f, o) ==
  Len(f) <= Len(o) /\ \A j \in 1..Len(f) : f[j] = o[j + (Len(o) - Len(f))]

EarnedInv == \A i \in Ids : IsLatest(failures[i], earned[i])

LEMMA TimesFacts ==
  ASSUME NEW w \in Times
  PROVE  Len(w) \in Nat /\ \A i \in 1..Len(w) : w[i] \in Int
<1>1. FailWindow \in Nat /\ Len(w) \in Nat /\ \A i \in 1..Len(w) : w[i] \in 1..FailWindow
  BY ElementOfSeq, LenProperties, Limits DEF Times, Positive
<1> QED
  BY <1>1

LEMMA NoneAreLatest ==
  ASSUME NEW o \in Times PROVE IsLatest(<< >>, o)
BY NoFailures, TimesFacts DEF IsLatest

(* The window drops a failure of the tracker only when it drops the same   *)
(* one of the id, with everything before it.                               *)
LEMMA AgeLatest ==
  ASSUME NEW f \in Times, NEW o \in Times, IsLatest(f, o) PROVE IsLatest(Age(f), Age(o))
<1> DEFINE nf == Expired(f)
           no == Expired(o)
           d == Len(o) - Len(f)
           af == Age(f)
           ao == Age(o)
<1>1. /\ Len(f) \in Nat /\ Len(o) \in Nat /\ Len(f) <= Len(o)
      /\ \A i \in 1..Len(f) : f[i] \in Int
      /\ \A i \in 1..Len(o) : o[i] \in Int
      /\ d = Len(o) - Len(f)
  BY TimesFacts DEF IsLatest
<1>2. /\ nf \in 0..Len(f) /\ no \in 0..Len(o)
      /\ Len(af) = Len(f) - nf /\ Len(ao) = Len(o) - no
      /\ \A i \in 1..Len(af) : af[i] = f[i + nf] - 1
      /\ \A i \in 1..Len(ao) : ao[i] = o[i + no] - 1
  BY AgeType
<1>3. /\ nf < Len(f) => f[nf + 1] > 1
      /\ \A i \in 1..no : o[i] <= 1
  <2>1. f \in Seq(Int) /\ o \in Seq(Int)
    <3>1. f \in Seq(1..FailWindow) /\ o \in Seq(1..FailWindow)
      BY DEF Times
    <3> QED
      BY <1>1, <3>1, SeqDef
  <2> QED
    BY <2>1, ExpiredProperties
<1>4. \A j \in 1..Len(f) : f[j] = o[j + d]
  BY DEF IsLatest
<1> HIDE DEF nf, no, d, af, ao
<1>5. no <= nf + d
  <2> SUFFICES ASSUME no > nf + d PROVE FALSE
    BY <1>1, <1>2
  <2>1. nf < Len(f) /\ nf + 1 \in 1..Len(f) /\ (nf + 1) + d \in 1..no /\ (nf + 1) + d \in 1..Len(o)
    BY <1>1, <1>2
  <2>2. f[nf + 1] > 1 /\ f[nf + 1] = o[(nf + 1) + d] /\ o[(nf + 1) + d] <= 1
    BY <1>3, <1>4, <2>1
  <2>3. f[nf + 1] \in Int
    BY <1>1, <2>1
  <2> QED
    BY <2>2, <2>3
<1>6. Len(af) <= Len(ao)
  BY <1>1, <1>2, <1>5
<1>7. ASSUME NEW j \in 1..Len(af) PROVE af[j] = ao[j + (Len(ao) - Len(af))]
  <2>1. /\ j + nf \in 1..Len(f) /\ j + (Len(ao) - Len(af)) \in 1..Len(ao)
        /\ (j + (Len(ao) - Len(af))) + no = (j + nf) + d
    BY <1>1, <1>2, <1>6
  <2>2. af[j] = f[j + nf] - 1 /\ f[j + nf] = o[(j + nf) + d]
    BY <1>2, <1>4, <2>1
  <2>3. ao[j + (Len(ao) - Len(af))] = o[(j + nf) + d] - 1
    BY <1>2, <2>1
  <2> QED
    BY <2>2, <2>3
<1> QED
  BY <1>6, <1>7 DEF IsLatest, af, ao

(* A failure is the id's newest and the tracker's.                         *)
LEMMA NewestLatest ==
  ASSUME NEW f \in Times, NEW o \in Times, IsLatest(f, o)
  PROVE  IsLatest(Newest(Append(f, FailWindow)), Newest(Append(o, FailWindow)))
<1> DEFINE vf == Append(f, FailWindow)
           vo == Append(o, FailWindow)
           tf == Newest(vf)
           to == Newest(vo)
<1>1. /\ Len(f) \in Nat /\ Len(o) \in Nat /\ Len(f) <= Len(o) /\ Threshold \in Nat \ {0}
      /\ \A j \in 1..Len(f) : f[j] = o[j + (Len(o) - Len(f))]
  BY TimesFacts, Limits DEF IsLatest, Positive
<1>2. /\ Len(vf) = Len(f) + 1 /\ Len(vo) = Len(o) + 1
      /\ \A i \in 1..Len(vf) : vf[i] = IF i = Len(vf) THEN FailWindow ELSE f[i]
      /\ \A i \in 1..Len(vo) : vo[i] = IF i = Len(vo) THEN FailWindow ELSE o[i]
      /\ Len(tf) = IF Len(vf) > Threshold THEN Len(vf) - 1 ELSE Len(vf)
      /\ Len(to) = IF Len(vo) > Threshold THEN Len(vo) - 1 ELSE Len(vo)
      /\ \A i \in 1..Len(tf) : tf[i] = IF Len(vf) > Threshold THEN vf[i + 1] ELSE vf[i]
      /\ \A i \in 1..Len(to) : to[i] = IF Len(vo) > Threshold THEN vo[i + 1] ELSE vo[i]
  BY NewestType
<1> HIDE DEF vf, vo, tf, to
<1>3. ASSUME NEW j \in 1..Len(vf) PROVE vf[j] = vo[j + (Len(o) - Len(f))]
  <2>1. j + (Len(o) - Len(f)) \in 1..Len(vo)
    BY <1>1, <1>2
  <2>2. CASE j = Len(vf)
    <3>1. j + (Len(o) - Len(f)) = Len(vo)
      BY <1>1, <1>2, <2>2
    <3> QED
      BY <1>2, <2>1, <2>2, <3>1
  <2>3. CASE j # Len(vf)
    <3>1. j \in 1..Len(f) /\ j + (Len(o) - Len(f)) # Len(vo)
      BY <1>1, <1>2, <2>3
    <3> QED
      BY <1>1, <1>2, <2>1, <2>3, <3>1
  <2> QED
    BY <2>2, <2>3
<1> DEFINE sf == IF Len(vf) > Threshold THEN 1 ELSE 0
           so == IF Len(vo) > Threshold THEN 1 ELSE 0
<1>4. /\ sf \in {0, 1} /\ so \in {0, 1} /\ Len(tf) = Len(vf) - sf /\ Len(to) = Len(vo) - so
      /\ Len(tf) <= Len(to)
  BY <1>1, <1>2
<1>5. /\ \A i \in 1..Len(tf) : tf[i] = vf[i + sf]
      /\ \A i \in 1..Len(to) : to[i] = vo[i + so]
  BY <1>1, <1>2
<1> HIDE DEF sf, so
<1>6. /\ Len(f) \in Nat /\ Len(o) \in Nat /\ sf \in Nat /\ so \in Nat
      /\ Len(vf) = Len(f) + 1 /\ Len(vo) = Len(o) + 1 /\ Len(f) <= Len(o)
      /\ Len(tf) = Len(vf) - sf /\ Len(to) = Len(vo) - so /\ Len(tf) <= Len(to)
  <2>1. sf \in Nat /\ so \in Nat
    BY <1>4
  <2>2. Len(vf) = Len(f) + 1 /\ Len(vo) = Len(o) + 1
    BY <1>2
  <2> QED
    BY <1>1, <1>4, <2>1, <2>2
<1>7. ASSUME NEW j \in 1..Len(tf) PROVE tf[j] = to[j + (Len(to) - Len(tf))]
  <2>1. /\ j + sf \in 1..Len(vf) /\ j + (Len(to) - Len(tf)) \in 1..Len(to)
        /\ (j + (Len(to) - Len(tf))) + so = (j + sf) + (Len(o) - Len(f))
    <3>1. j \in Nat /\ 1 <= j /\ j <= Len(tf)
      BY <1>6
    <3> QED
      BY <1>6, <3>1
  <2>2. tf[j] = vf[j + sf] /\ vf[j + sf] = vo[(j + sf) + (Len(o) - Len(f))]
    BY <1>3, <1>5, <2>1
  <2>3. to[j + (Len(to) - Len(tf))] = vo[(j + sf) + (Len(o) - Len(f))]
    BY <1>5, <2>1
  <2> QED
    BY <2>2, <2>3
<1> QED
  BY <1>4, <1>7 DEF IsLatest, vf, vo, tf, to

LEMMA NextEarned ==
  ASSUME TypeInv, EarnedInv, [Next]_vars PROVE EarnedInv'
<1> USE DEF breakerVars, callerVars, historyVars
<1>1. /\ failures \in [Ids -> Times] /\ earned \in [Ids -> Times]
      /\ \A c \in Callers : Id(c) \in Ids
  BY KeyAssumption DEF TypeInv, TrackType, WorldType, CallerType, Item, Id
<1>2. ASSUME UNCHANGED <<failures, earned>> PROVE EarnedInv'
  BY <1>2 DEF EarnedInv
<1>3. ASSUME NEW ids, Forget(ids), NEW i \in Ids
      PROVE  IsLatest(failures'[i], earned[i])
  <2>1. failures'[i] \in {<< >>, failures[i]}
    BY <1>1, <1>3 DEF Forget
  <2>2. IsLatest(<< >>, earned[i]) /\ IsLatest(failures[i], earned[i])
    BY <1>1, NoneAreLatest DEF EarnedInv
  <2> QED
    BY <2>1, <2>2
<1>4. CASE Tick
  <2> SUFFICES ASSUME NEW i \in Ids PROVE IsLatest(Age(failures[i]), Age(earned[i]))
    BY <1>1, <1>4 DEF EarnedInv, Tick
  <2> QED
    BY <1>1, AgeLatest DEF EarnedInv
<1>5. ASSUME NEW c \in Callers, NEW d, Record(c, d) PROVE EarnedInv'
  <2> DEFINE f == Newest(Append(failures[Id(c)], FailWindow))
             o == Newest(Append(earned[Id(c)], FailWindow))
  <2>1. failures' = [failures EXCEPT ![Id(c)] = f] /\ earned' = [earned EXCEPT ![Id(c)] = o]
    BY <1>5 DEF Record
  <2>2. IsLatest(f, o)
    BY <1>1, NewestLatest DEF EarnedInv
  <2> HIDE DEF f, o
  <2> SUFFICES ASSUME NEW i \in Ids PROVE IsLatest(failures'[i], earned'[i])
    BY DEF EarnedInv
  <2>3. CASE i = Id(c)
    BY <1>1, <2>1, <2>2, <2>3
  <2>4. CASE i # Id(c)
    BY <1>1, <2>1, <2>4 DEF EarnedInv
  <2> QED
    BY <2>3, <2>4
<1>6. ASSUME NEW c \in Callers, Clear(c) PROVE EarnedInv'
  <2> SUFFICES ASSUME NEW i \in Ids PROVE IsLatest(failures'[i], earned'[i])
    BY DEF EarnedInv
  <2>1. CASE i = Id(c)
    <3>1. failures'[i] = << >> /\ earned'[i] = << >>
      BY <1>1, <1>6, <2>1 DEF Clear, ClearedBy, Forget
    <3> QED
      BY <3>1, NoFailures, NoneAreLatest
  <2>2. CASE i # Id(c)
    <3>1. earned'[i] = earned[i]
      BY <1>1, <1>6, <2>2 DEF Clear, ClearedBy
    <3> QED
      BY <1>3, <1>6, <3>1 DEF Clear
  <2> QED
    BY <2>1, <2>2
<1>7. CASE SweepBreaker \/ PruneTrackers
  <2>1. UNCHANGED earned /\ \E ids : Forget(ids)
    BY <1>7 DEF SweepBreaker, PruneTrackers
  <2> QED
    BY <1>3, <2>1 DEF EarnedInv
<1>8. CASE SweepNegative \/ PruneNegative \/ SyncDone \/ UNCHANGED vars
  BY <1>2, <1>8 DEF SweepNegative, PruneNegative, SyncDone, vars
<1>9. ASSUME NEW c \in Callers, \/ Request(c) \/ Done(c) \/ Poll(c) \/ NegativeHit(c)
                                \/ NegativeMiss(c) \/ Skip(c) \/ Admit(c) \/ CDNRefuses(c)
      PROVE  EarnedInv'
  BY <1>2, <1>9 DEF Request, Poll, Ask, Done, NegativeHit, NegativeMiss, Skip, Admit,
                    LetThrough, CDNRefuses
<1>10. ASSUME NEW c \in Callers, CallSucceeds(c) \/ Retry(c) \/ WakeUp(c) \/ Remember(c)
       PROVE  EarnedInv'
  BY <1>2, <1>10 DEF CallSucceeds, Retry, WakeUp, Remember
<1>11. ASSUME NEW c \in Callers, NEW m, CallFails(c, m) PROVE EarnedInv'
  BY <1>2, <1>11 DEF CallFails
<1>12. ASSUME NEW c \in Callers, NEW d, Downgrade(c, d) PROVE EarnedInv'
  BY <1>2, <1>12 DEF Downgrade
<1> QED
  BY <1>4, <1>5, <1>6, <1>7, <1>8, <1>9, <1>10, <1>11, <1>12 DEF Next, Fetch

(* Only recordTorrentFailure leaves its own critical section.              *)
LEMMA LeavesTrip ==
  ASSUME TypeInv, [Next]_vars, NEW c \in Callers, pc[c] = "trip", pc'[c] # "trip"
  PROVE  \E d \in BOOLEAN : Record(c, d)
<1> USE DEF breakerVars, callerVars, historyVars
<1>1. pc \in [Callers -> Labels] /\ pc' # pc
  BY DEF TypeInv, CallerType
<1>2. ASSUME NEW d \in Callers, NEW l, Goto(d, l) PROVE c = d
  BY <1>1, <1>2 DEF Goto
<1>3. ~Tick /\ ~SweepNegative /\ ~SweepBreaker /\ ~SyncDone /\ ~PruneTrackers
      /\ ~PruneNegative /\ ~UNCHANGED vars
  BY <1>1 DEF Tick, SweepNegative, SweepBreaker, SyncDone, PruneTrackers,
              PruneNegative, vars
<1>4. ASSUME NEW d \in Callers PROVE ~CDNRefuses(d)
  BY <1>2, <1>4 DEF CDNRefuses
<1>5. ASSUME NEW d \in Callers PROVE ~Request(d) /\ ~Poll(d) /\ ~Done(d)
  BY <1>2, <1>5 DEF Request, Poll, Ask, Done
<1>6. ASSUME NEW d \in Callers PROVE ~NegativeHit(d) /\ ~NegativeMiss(d) /\ ~Skip(d) /\ ~Admit(d)
  BY <1>2, <1>6 DEF NegativeHit, NegativeMiss, Skip, Admit, LetThrough
<1>7. ASSUME NEW d \in Callers
      PROVE  ~CallSucceeds(d) /\ ~Retry(d) /\ ~WakeUp(d) /\ \A m : ~CallFails(d, m)
  BY <1>2, <1>7 DEF CallSucceeds, Retry, CallFails, WakeUp
<1>8. ASSUME NEW d \in Callers PROVE ~Remember(d) /\ ~Clear(d) /\ \A b : ~Downgrade(d, b)
  BY <1>2, <1>8 DEF Downgrade, Remember, Clear, ClearedBy, Return
<1>9. ASSUME NEW d \in Callers, NEW b, Record(d, b) PROVE d = c
  BY <1>2, <1>9 DEF Record
<1> QED
  BY <1>3, <1>4, <1>5, <1>6, <1>7, <1>8, <1>9 DEF Next, Fetch

LEMMA EarnedStep ==
  ASSUME TypeInv, EarnedInv, [Next]_vars, NEW c \in Callers,
         pc[c] = "trip", pc'[c] = "remember", staleFor'[Id(c)] # staleFor[Id(c)]
  PROVE  Len(earned'[Id(c)]) >= Threshold
<1> DEFINE vf == Newest(Append(failures[Id(c)], FailWindow))
           vo == Newest(Append(earned[Id(c)], FailWindow))
<1>1. PICK d \in BOOLEAN : Record(c, d)
  BY LeavesTrip
<1>2. /\ failures[Id(c)] \in Times /\ earned[Id(c)] \in Times
      /\ IsLatest(failures[Id(c)], earned[Id(c)])
      /\ Id(c) \in Ids
  BY KeyAssumption DEF Id, Item, EarnedInv, TypeInv, TrackType, WorldType, CallerType
<1>3. vf \in Times /\ vo \in Times /\ IsLatest(vf, vo)
  BY <1>2, NewestType, NewestLatest
<1>4. ~(Len(vf) < Threshold) /\ earned'[Id(c)] = vo
  BY <1>1, <1>2 DEF Record, TypeInv, WorldType
<1> HIDE DEF vf, vo
<1>5. Len(vf) \in Nat /\ Len(vo) \in Nat /\ Len(vf) <= Len(vo) /\ Threshold \in Nat
  BY <1>3, TimesFacts, Limits DEF IsLatest, Positive
<1> QED
  BY <1>4, <1>5

(* An id is quarantined only for Threshold failures of items that have it, *)
(* none of which has left the window or been cleared by a success          *)
(* (get.go:487): those of two items when the sources give one id twice, as *)
(* the code keeps one tracker for both.                                    *)
THEOREM QuarantineIsEarned == Spec => QuarantineEarned
<1>1. Init => EarnedInv
  BY NoFailures, NoneAreLatest DEF Init, EarnedInv
<1>2. TypeInv /\ EarnedInv /\ [Next]_vars => EarnedInv'
  BY NextEarned
<1>3. Spec => []TypeInv
  BY InitType, NextType, PTL DEF Spec
<1>4. Spec => []EarnedInv
  BY <1>1, <1>2, <1>3, PTL DEF Spec
<1> DEFINE Deserved == \A c \in Callers :
             /\ pc[c] = "trip" /\ pc'[c] = "remember"
             /\ staleFor'[Id(c)] # staleFor[Id(c)]
             => Len(earned'[Id(c)]) >= Threshold
<1>5. TypeInv /\ EarnedInv /\ [Next]_vars => [Deserved]_vars
  BY EarnedStep
<1> QED
  BY <1>3, <1>4, <1>5, PTL DEF Spec, QuarantineEarned
=============================================================================
