-------------------------- MODULE BreakerHealthProofs --------------------------
(***************************************************************************)
(* Proofs about BreakerHealth, for any window and number of samples beside *)
(* the breaker's parameters: the health window counts what it should, and  *)
(* an outage that fills it escalates no quarantine.                        *)
(***************************************************************************)
EXTENDS BreakerHealth, CircuitBreakerProofs, FiniteSetTheorems

HealthType ==
  /\ outcomes \in Seq(Outcome)
  /\ recent \in [Ages -> [ok : Nat, bad : Nat]]

(* Where the slice has the outcomes recorded a ticks ago.                  *)
At(s, a, ok) == {i \in 1..Len(s) : s[i].left = HealthWindow - a /\ s[i].ok = ok}
Count(a, ok) == IF ok THEN recent[a].ok ELSE recent[a].bad

(* However lazily it is trimmed, the slice has of each of the last ticks   *)
(* what was recorded then.                                                 *)
CountInv ==
  \A a \in Ages, ok \in BOOLEAN : Cardinality(At(outcomes, a, ok)) = Count(a, ok)

-----------------------------------------------------------------------------
(* Lemmas about the slice                                                  *)

LEMMA HealthLimits == HealthWindow \in Nat \ {0} /\ MinSamples \in Nat \ {0} /\ 0 \in Ages
<1>1. HealthWindow \in Nat \ {0} /\ MinSamples \in Nat \ {0}
  BY HealthAssumption
<1> QED
  BY <1>1 DEF Ages

LEMMA OutcomeFacts ==
  ASSUME NEW s \in Seq(Outcome)
  PROVE  /\ Len(s) \in Nat
         /\ \A i \in 1..Len(s) :
              s[i] \in Outcome /\ s[i].left \in 0..HealthWindow /\ s[i].left \in Int
              /\ s[i].ok \in BOOLEAN
<1>1. Len(s) \in Nat /\ \A i \in 1..Len(s) : s[i] \in Outcome
  BY ElementOfSeq, LenProperties
<1>2. \A o \in Outcome : o.left \in 0..HealthWindow /\ o.left \in Int /\ o.ok \in BOOLEAN
  BY HealthLimits DEF Outcome
<1> QED
  BY <1>1, <1>2

LEMMA OlderProperties ==
  ASSUME NEW s \in Seq(Outcome)
  PROVE  /\ Older(s) \in 0..Len(s)
         /\ \A i \in 1..Older(s) : ~InWindow(s[i])
<1> DEFINE T == {n \in 0..Len(s) : n < Len(s) => InWindow(s[n + 1])}
<1>1. Len(s) \in Nat
  BY OutcomeFacts
<1>2. T # {} /\ T \subseteq Nat
  <2>1. Len(s) \in T
    BY <1>1
  <2> QED
    BY <2>1, <1>1
<1>3. PICK n \in T : \A m \in T : n <= m
  <2>1. PICK n \in T : \A m \in T : <<m, n>> \notin OpToRel(<, Nat)
    BY <1>2, NatLessThanWellFounded, WFMin
  <2> HIDE DEF T
  <2>2. \A m \in T : ~(m < n)
    BY <1>2, <2>1 DEF OpToRel
  <2>3. n \in Nat /\ \A m \in T : m \in Nat
    BY <1>2
  <2> QED
    BY <2>2, <2>3
<1>4. \A i \in 1..n : ~InWindow(s[i])
  <2> SUFFICES ASSUME NEW i \in 1..n PROVE ~InWindow(s[i])
    OBVIOUS
  <2>1. i - 1 \in 0..Len(s) /\ i - 1 < Len(s) /\ ~(n <= i - 1) /\ (i - 1) + 1 = i
    BY <1>1, <1>3
  <2>2. ~InWindow(s[(i - 1) + 1])
    BY <1>3, <2>1
  <2> QED
    BY <2>1, <2>2
<1> QED
  BY <1>3, <1>4 DEF Older

LEMMA TrimProperties ==
  ASSUME NEW s \in Seq(Outcome)
  PROVE  LET t == SubSeq(s, Older(s) + 1, Len(s)) IN
         /\ t \in Seq(Outcome) /\ Len(t) = Len(s) - Older(s)
         /\ \A i \in 1..Len(t) : t[i] = s[i + Older(s)]
<1> DEFINE n == Older(s)
           t == SubSeq(s, n + 1, Len(s))
<1>1. n \in 0..Len(s) /\ Len(s) \in Nat /\ \A i \in 1..Len(s) : s[i] \in Outcome
  BY OlderProperties, OutcomeFacts
<1> HIDE DEF n
<1> DEFINE m == n + 1
           k == Len(s)
<1>2. m \in Int /\ k \in Int /\ \A i \in m..k : s[i] \in Outcome
  BY <1>1
<1> HIDE DEF m, k
<1>3. /\ SubSeq(s, m, k) \in Seq(Outcome)
      /\ Len(SubSeq(s, m, k)) = IF m <= k THEN k - m + 1 ELSE 0
      /\ \A i \in 1..k - m + 1 : SubSeq(s, m, k)[i] = s[m + i - 1]
  BY ONLY <1>2, SubSeqProperties
<1>4. Len(t) = Len(s) - n /\ k - m + 1 = Len(s) - n
  BY <1>1, <1>3 DEF m, k
<1>5. \A i \in 1..Len(t) : m + i - 1 = i + n
  BY <1>1, <1>4 DEF m
<1> QED
  BY <1>3, <1>4, <1>5 DEF n, m, k

LEMMA AtFinite ==
  ASSUME NEW s \in Seq(Outcome), NEW a, NEW ok
  PROVE  IsFiniteSet(At(s, a, ok)) /\ Cardinality(At(s, a, ok)) \in Nat
<1>1. Len(s) \in Int /\ At(s, a, ok) \in SUBSET (1..Len(s))
  BY OutcomeFacts DEF At
<1>2. IsFiniteSet(1..Len(s))
  BY <1>1, FS_Interval
<1>3. IsFiniteSet(At(s, a, ok))
  BY <1>1, <1>2, FS_Subset
<1> QED
  BY <1>3, FS_CardinalityType

(* Trimming loses nothing of the last ticks.                               *)
LEMMA TrimAt ==
  ASSUME NEW s \in Seq(Outcome), NEW a \in Ages, NEW ok \in BOOLEAN
  PROVE  Cardinality(At(SubSeq(s, Older(s) + 1, Len(s)), a, ok)) = Cardinality(At(s, a, ok))
<1> DEFINE n == Older(s)
           t == SubSeq(s, n + 1, Len(s))
           S == At(t, a, ok)
           T == At(s, a, ok)
           f == [i \in S |-> i + n]
<1>1. /\ Len(s) \in Nat /\ n \in 0..Len(s) /\ Len(t) = Len(s) - n
      /\ \A i \in 1..Len(t) : t[i] = s[i + n]
      /\ \A i \in 1..n : ~(s[i].left > 0)
  BY OutcomeFacts, OlderProperties, TrimProperties DEF InWindow
<1>2. HealthWindow - a > 0
  BY HealthLimits DEF Ages
<1>3. t \in Seq(Outcome)
  BY TrimProperties
<1>4. /\ \A i : i \in S <=> i \in 1..Len(t) /\ t[i].left = HealthWindow - a /\ t[i].ok = ok
      /\ \A i : i \in T <=> i \in 1..Len(s) /\ s[i].left = HealthWindow - a /\ s[i].ok = ok
  BY DEF At
<1> HIDE DEF n, t, S, T
<1>5. f \in [S -> T]
  <2> SUFFICES ASSUME NEW i \in S PROVE i + n \in T
    OBVIOUS
  <2>1. i \in 1..Len(t) /\ i + n \in 1..Len(s)
    BY <1>1, <1>4
  <2> QED
    BY <1>1, <1>4, <2>1
<1>6. ASSUME NEW i \in S, NEW j \in S, f[i] = f[j] PROVE i = j
  <2>1. i \in Int /\ j \in Int /\ n \in Int
    BY <1>1, <1>4
  <2> QED
    BY <1>6, <2>1
<1>7. ASSUME NEW j \in T PROVE \E i \in S : f[i] = j
  <2>1. j \in 1..Len(s) /\ j \notin 1..n
    BY <1>1, <1>2, <1>4
  <2>2. j - n \in 1..Len(t) /\ (j - n) + n = j
    BY <1>1, <2>1
  <2>3. j - n \in S
    BY <1>1, <1>4, <2>2
  <2> QED
    BY <2>2, <2>3
<1>8. ExistsBijection(S, T)
  BY <1>5, <1>6, <1>7 DEF ExistsBijection, Bijection, Injection, Surjection, IsInjective
<1>9. IsFiniteSet(S)
  BY <1>3, AtFinite DEF S
<1> QED
  BY <1>8, <1>9, FS_Bijection DEF S, T, t, n

LEMMA AppendAt ==
  ASSUME NEW s \in Seq(Outcome), NEW a \in Ages, NEW ok \in BOOLEAN, NEW o \in BOOLEAN
  PROVE  LET all == Append(s, [left |-> HealthWindow, ok |-> o]) IN
         /\ all \in Seq(Outcome)
         /\ Cardinality(At(all, a, ok)) =
              Cardinality(At(s, a, ok)) + (IF a = 0 /\ ok = o THEN 1 ELSE 0)
<1> DEFINE e == [left |-> HealthWindow, ok |-> o]
           all == Append(s, e)
<1>1. e \in Outcome /\ e.left = HealthWindow /\ e.ok = o
  BY HealthLimits DEF Outcome
<1> HIDE DEF e
<1>2. /\ all \in Seq(Outcome) /\ Len(all) = Len(s) + 1 /\ all[Len(s) + 1] = e
      /\ \A i \in 1..Len(s) : all[i] = s[i]
      /\ Len(s) \in Nat
  BY <1>1, AppendProperties, OutcomeFacts
<1> HIDE DEF all
<1>3. a \in Int /\ HealthWindow \in Int
  BY HealthLimits DEF Ages
<1>4. Len(s) + 1 \in At(all, a, ok) <=> a = 0 /\ ok = o
  BY <1>1, <1>2, <1>3 DEF At
<1>5. \A i : i \in 1..Len(s) + 1 <=> i \in 1..Len(s) \/ i = Len(s) + 1
  BY <1>2
<1>6. Len(s) + 1 \notin At(s, a, ok)
  BY <1>2 DEF At
<1>7. CASE a = 0 /\ ok = o
  <2>1. At(all, a, ok) = At(s, a, ok) \cup {Len(s) + 1}
    BY <1>2, <1>4, <1>5, <1>7 DEF At
  <2> QED
    BY <1>2, <1>6, <1>7, <2>1, AtFinite, FS_AddElement DEF all, e
<1>8. CASE ~(a = 0 /\ ok = o)
  <2>1. At(all, a, ok) = At(s, a, ok)
    BY <1>2, <1>4, <1>5, <1>8 DEF At
  <2> QED
    BY <1>2, <1>8, <2>1, AtFinite DEF all, e
<1> QED
  BY <1>7, <1>8

LEMMA RecordCounts ==
  ASSUME HealthType, CountInv, NEW o \in BOOLEAN,
         RecordOutcome(o), Log(IF o THEN 1 ELSE 0, IF o THEN 0 ELSE 1)
  PROVE  HealthType' /\ CountInv'
<1> DEFINE all == Append(outcomes, [left |-> HealthWindow, ok |-> o])
<1>1. outcomes \in Seq(Outcome) /\ all \in Seq(Outcome)
  BY AppendAt, HealthLimits DEF HealthType
<1>2. outcomes' = SubSeq(all, Older(all) + 1, Len(all))
  BY DEF RecordOutcome
<1>3. ASSUME NEW a \in Ages, NEW ok \in BOOLEAN
      PROVE  Cardinality(At(outcomes', a, ok)) =
               Cardinality(At(outcomes, a, ok)) + (IF a = 0 /\ ok = o THEN 1 ELSE 0)
  <2>1. Cardinality(At(all, a, ok)) =
          Cardinality(At(outcomes, a, ok)) + (IF a = 0 /\ ok = o THEN 1 ELSE 0)
    BY <1>1, AppendAt
  <2> HIDE DEF all
  <2> QED
    BY <1>1, <1>2, <2>1, TrimAt
<1>4. outcomes' \in Seq(Outcome)
  <2> HIDE DEF all
  <2> QED
    BY <1>1, <1>2, TrimProperties
<1> HIDE DEF all
<1>5. /\ recent \in [Ages -> [ok : Nat, bad : Nat]] /\ 0 \in Ages
      /\ recent' = [recent EXCEPT ![0] = [ok |-> recent[0].ok + (IF o THEN 1 ELSE 0),
                                          bad |-> recent[0].bad + (IF o THEN 0 ELSE 1)]]
  BY HealthLimits DEF HealthType, Log
<1>6. recent' \in [Ages -> [ok : Nat, bad : Nat]]
  BY <1>5
<1>7. ASSUME NEW a \in Ages, NEW ok \in BOOLEAN
      PROVE  Count(a, ok)' = Count(a, ok) + (IF a = 0 /\ ok = o THEN 1 ELSE 0)
  <2>1. recent[a].ok \in Nat /\ recent[a].bad \in Nat
    BY <1>5
  <2>2. CASE a = 0
    <3>1. /\ recent'[a].ok = recent[a].ok + (IF o THEN 1 ELSE 0)
          /\ recent'[a].bad = recent[a].bad + (IF o THEN 0 ELSE 1)
      BY <1>5, <2>2
    <3> QED
      BY <2>1, <2>2, <3>1 DEF Count
  <2>3. CASE a # 0
    <3>1. recent'[a] = recent[a]
      BY <1>5, <2>3
    <3> QED
      BY <2>1, <2>3, <3>1 DEF Count
  <2> QED
    BY <2>2, <2>3
<1> QED
  BY <1>3, <1>4, <1>6, <1>7 DEF HealthType, CountInv

(* A tick later what was recorded a ticks ago was recorded a + 1 ago.      *)
LEMMA TickCounts ==
  ASSUME HealthType, CountInv, HealthTick PROVE HealthType' /\ CountInv'
<1>1. /\ Len(outcomes) \in Nat /\ HealthWindow \in Nat \ {0}
      /\ \A i \in 1..Len(outcomes) :
           /\ outcomes[i].left \in 0..HealthWindow /\ outcomes[i].ok \in BOOLEAN
           /\ outcomes[i] \in Outcome
  BY OutcomeFacts, HealthLimits DEF HealthType
<1> DEFINE Later(i) == [outcomes[i] EXCEPT !.left = IF @ > 0 THEN @ - 1 ELSE 0]
<1>2. outcomes' = [i \in 1..Len(outcomes) |-> Later(i)]
  BY LenProperties DEF HealthTick, HealthType
<1>3. ASSUME NEW i \in 1..Len(outcomes)
      PROVE  /\ Later(i) \in Outcome /\ Later(i).ok = outcomes[i].ok
             /\ Later(i).left = IF outcomes[i].left > 0 THEN outcomes[i].left - 1 ELSE 0
  BY <1>1 DEF Outcome
<1> HIDE DEF Later
<1>4. outcomes' \in Seq(Outcome) /\ Len(outcomes') = Len(outcomes)
  <2>1. outcomes' \in [1..Len(outcomes) -> Outcome]
    BY <1>2, <1>3
  <2>2. outcomes' \in Seq(Outcome)
    BY <1>1, <2>1, SeqDef
  <2> QED
    BY <1>1, <2>1, <2>2, LenProperties
<1>5. recent' \in [Ages -> [ok : Nat, bad : Nat]]
  <2> SUFFICES ASSUME NEW a \in Ages, a # 0 PROVE recent[a - 1] \in [ok : Nat, bad : Nat]
    BY DEF HealthTick, Nothing
  <2>1. a - 1 \in Ages
    BY <1>1 DEF Ages
  <2> QED
    BY <2>1 DEF HealthType
<1>6. ASSUME NEW a \in Ages, NEW ok \in BOOLEAN
      PROVE  Cardinality(At(outcomes', a, ok)) = Count(a, ok)'
  <2>1. \A i \in 1..Len(outcomes) :
          /\ outcomes'[i].ok = outcomes[i].ok
          /\ outcomes'[i].left = IF outcomes[i].left > 0 THEN outcomes[i].left - 1 ELSE 0
    BY <1>2, <1>3
  <2>2. CASE a = 0
    <3>1. At(outcomes', a, ok) = {}
      <4> SUFFICES ASSUME NEW i \in 1..Len(outcomes) PROVE outcomes'[i].left # HealthWindow - a
        BY <1>4 DEF At
      <4>1. outcomes[i].left \in 0..HealthWindow
        BY <1>1
      <4> QED
        BY <1>1, <2>1, <2>2, <4>1
    <3>2. Count(a, ok)' = 0
      BY <2>2 DEF Count, HealthTick, Nothing
    <3> QED
      BY <3>1, <3>2, FS_EmptySet
  <2>3. CASE a # 0
    <3>1. a - 1 \in Ages /\ a \in Nat /\ a < HealthWindow
      BY <1>1, <2>3 DEF Ages
    <3>2. ASSUME NEW i \in 1..Len(outcomes)
          PROVE  outcomes'[i].left = HealthWindow - a
                   <=> outcomes[i].left = HealthWindow - (a - 1)
      <4>1. outcomes[i].left \in 0..HealthWindow
        BY <1>1
      <4>2. outcomes'[i].left = IF outcomes[i].left > 0 THEN outcomes[i].left - 1 ELSE 0
        BY <2>1
      <4> QED
        BY <1>1, <3>1, <4>1, <4>2
    <3>3. At(outcomes', a, ok) = At(outcomes, a - 1, ok)
      BY <1>4, <2>1, <3>2 DEF At
    <3>4. Count(a, ok)' = Count(a - 1, ok)
      BY <2>3 DEF Count, HealthTick
    <3> QED
      BY <3>1, <3>3, <3>4 DEF CountInv
  <2> QED
    BY <2>2, <2>3
<1> QED
  BY <1>4, <1>5, <1>6 DEF HealthType, CountInv

-----------------------------------------------------------------------------
(* What the readers make of it                                             *)

(* A set has as many elements as there are in its parts.                   *)
LEMMA CountByAge ==
  ASSUME NEW X, IsFiniteSet(X), NEW g \in [X -> Ages], NEW r \in [Ages -> Nat],
         \A a \in Ages : Cardinality({x \in X : g[x] = a}) = r[a]
  PROVE  Cardinality(X) = Cardinality(UNION {{a} \X (1..r[a]) : a \in Ages})
<1> DEFINE Part(a) == {x \in X : g[x] = a}
           h == [a \in Ages |-> CHOOSE f : f \in Bijection(Part(a), 1..r[a])]
           T == UNION {{a} \X (1..r[a]) : a \in Ages}
           f == [x \in X |-> <<g[x], h[g[x]][x]>>]
<1>1. ASSUME NEW a \in Ages PROVE h[a] \in Bijection(Part(a), 1..r[a])
  <2>1. IsFiniteSet(Part(a))
    <3>1. Part(a) \in SUBSET X
      OBVIOUS
    <3> QED
      BY <3>1, FS_Subset
  <2>2. IsFiniteSet(1..r[a]) /\ Cardinality(1..r[a]) = r[a]
    <3>1. r[a] \in Nat /\ 1 \in Int /\ r[a] \in Int
      OBVIOUS
    <3>2. Cardinality(1..r[a]) = IF 1 > r[a] THEN 0 ELSE r[a] - 1 + 1
      BY <3>1, FS_Interval
    <3> QED
      BY <3>1, <3>2, FS_Interval
  <2>3. Cardinality(Part(a)) = r[a]
    OBVIOUS
  <2> HIDE DEF Part
  <2>4. ExistsBijection(Part(a), 1..r[a])
    BY <2>1, <2>2, <2>3, FS_SameCardinalityBij
  <2> QED
    BY <2>4 DEF ExistsBijection
<1>2. ASSUME NEW a \in Ages
      PROVE  /\ \A x \in Part(a) : h[a][x] \in 1..r[a]
             /\ \A x, y \in Part(a) : h[a][x] = h[a][y] => x = y
             /\ \A n \in 1..r[a] : \E x \in Part(a) : h[a][x] = n
  <2> HIDE DEF h, Part
  <2> QED
    BY <1>1 DEF Bijection, Injection, Surjection, IsInjective
<1>3. \A x \in X : g[x] \in Ages /\ x \in Part(g[x])
  OBVIOUS
<1>4. \A p : p \in T <=> \E a \in Ages : \E n \in 1..r[a] : p = <<a, n>>
  OBVIOUS
<1>5. \A a \in Ages : \A x \in Part(a) : x \in X /\ g[x] = a
  OBVIOUS
<1> HIDE DEF T, h, Part
<1>6. f \in [X -> T]
  <2> SUFFICES ASSUME NEW x \in X PROVE <<g[x], h[g[x]][x]>> \in T
    OBVIOUS
  <2>1. h[g[x]][x] \in 1..r[g[x]]
    BY <1>2, <1>3
  <2> QED
    BY <1>3, <1>4, <2>1
<1>7. ASSUME NEW x \in X, NEW y \in X, f[x] = f[y] PROVE x = y
  <2>1. g[x] = g[y] /\ h[g[x]][x] = h[g[x]][y]
    BY <1>7
  <2> QED
    BY <1>2, <1>3, <2>1
<1>8. ASSUME NEW p \in T PROVE \E x \in X : f[x] = p
  <2>1. PICK a \in Ages : \E n \in 1..r[a] : p = <<a, n>>
    BY <1>4
  <2>2. PICK n \in 1..r[a] : p = <<a, n>>
    BY <2>1
  <2>3. PICK x \in Part(a) : h[a][x] = n
    BY <1>2
  <2> QED
    BY <1>5, <2>2, <2>3
<1>9. ExistsBijection(X, T)
  <2> HIDE DEF f
  <2> QED
    BY <1>6, <1>7, <1>8 DEF ExistsBijection, Bijection, Injection, Surjection, IsInjective
<1> QED
  BY <1>9, FS_Bijection DEF T

Of(ok) == {i \in Window : outcomes[i].ok = ok}

LEMMA WindowFacts ==
  ASSUME HealthType
  PROVE  /\ \A i \in Window : /\ i \in 1..Len(outcomes) /\ outcomes[i].ok \in BOOLEAN
                              /\ outcomes[i].left \in 1..HealthWindow
                              /\ HealthWindow - outcomes[i].left \in Ages
         /\ \A ok \in BOOLEAN :
              IsFiniteSet(Of(ok)) /\ Cardinality(Of(ok)) \in Nat
         /\ Window = Of(TRUE) \cup Of(FALSE) /\ Of(TRUE) \cap Of(FALSE) = {}
<1>1. ASSUME NEW i \in Window
      PROVE  /\ i \in 1..Len(outcomes) /\ outcomes[i].ok \in BOOLEAN
             /\ outcomes[i].left \in 1..HealthWindow
             /\ HealthWindow - outcomes[i].left \in Ages
  <2>1. /\ i \in 1..Len(outcomes) /\ outcomes[i].left > 0
        /\ outcomes[i].left \in 0..HealthWindow /\ outcomes[i].ok \in BOOLEAN
    BY OutcomeFacts DEF HealthType, Window, InWindow
  <2> QED
    BY <2>1, HealthLimits DEF Ages
<1>2. ASSUME NEW ok \in BOOLEAN PROVE IsFiniteSet(Of(ok)) /\ Cardinality(Of(ok)) \in Nat
  <2>1. Len(outcomes) \in Int /\ 1 \in Int /\ Of(ok) \in SUBSET (1..Len(outcomes))
    BY OutcomeFacts DEF HealthType, Of, Window
  <2>2. IsFiniteSet(1..Len(outcomes))
    BY <2>1, FS_Interval
  <2> QED
    BY <2>1, <2>2, FS_Subset, FS_CardinalityType
<1>3. Window = Of(TRUE) \cup Of(FALSE) /\ Of(TRUE) \cap Of(FALSE) = {}
  BY <1>1 DEF Of
<1> QED
  BY <1>1, <1>2, <1>3

LEMMA OfByAge ==
  ASSUME HealthType, CountInv, NEW ok \in BOOLEAN,
         NEW r \in [Ages -> Nat], \A a \in Ages : r[a] = Count(a, ok)
  PROVE  Cardinality(Of(ok)) = Cardinality(UNION {{a} \X (1..r[a]) : a \in Ages})
<1> DEFINE g == [i \in Of(ok) |-> HealthWindow - outcomes[i].left]
<1>1. g \in [Of(ok) -> Ages]
  BY WindowFacts DEF Of
<1>2. ASSUME NEW a \in Ages PROVE {i \in Of(ok) : g[i] = a} = At(outcomes, a, ok)
  <2>1. a \in 0..HealthWindow - 1 /\ HealthWindow \in Nat
    BY HealthLimits DEF Ages
  <2>2. ASSUME NEW i \in Of(ok) PROVE g[i] = a <=> outcomes[i].left = HealthWindow - a
    <3>1. outcomes[i].left \in 1..HealthWindow /\ g[i] = HealthWindow - outcomes[i].left
      BY WindowFacts DEF Of
    <3> QED
      BY <2>1, <3>1
  <2>3. ASSUME NEW i \in At(outcomes, a, ok) PROVE i \in Of(ok)
    BY <2>1 DEF At, Of, Window, InWindow
  <2>4. \A i \in Of(ok) : i \in 1..Len(outcomes) /\ outcomes[i].ok = ok
    BY DEF Of, Window
  <2> HIDE DEF g
  <2> QED
    BY <2>2, <2>3, <2>4 DEF At
<1>3. ASSUME NEW a \in Ages PROVE Cardinality({i \in Of(ok) : g[i] = a}) = r[a]
  BY <1>2 DEF CountInv
<1>4. IsFiniteSet(Of(ok))
  BY WindowFacts
<1> HIDE DEF g
<1> QED
  BY <1>1, <1>3, <1>4, CountByAge

LEMMA CountsExact ==
  ASSUME HealthType, CountInv
  PROVE  /\ CountOk = Oks /\ Samples = Oks + Bads /\ Samples - CountOk = Bads
         /\ Oks \in Nat /\ Bads \in Nat /\ Cardinality(Of(FALSE)) = Bads
<1> DEFINE good == [a \in Ages |-> recent[a].ok]
           bad == [a \in Ages |-> recent[a].bad]
<1>1. Cardinality(Of(TRUE)) = Oks
  <2>1. good \in [Ages -> Nat] /\ \A a \in Ages : good[a] = Count(a, TRUE)
    BY DEF HealthType, Count
  <2>2. Cardinality(Of(TRUE)) = Cardinality(UNION {{a} \X (1..good[a]) : a \in Ages})
    <3> HIDE DEF good
    <3> QED
      BY <2>1, OfByAge
  <2>3. {{a} \X (1..good[a]) : a \in Ages} = {{a} \X (1..recent[a].ok) : a \in Ages}
    OBVIOUS
  <2> QED
    BY <2>2, <2>3 DEF Oks
<1>2. Cardinality(Of(FALSE)) = Bads
  <2>1. bad \in [Ages -> Nat] /\ \A a \in Ages : bad[a] = Count(a, FALSE)
    BY DEF HealthType, Count
  <2>2. Cardinality(Of(FALSE)) = Cardinality(UNION {{a} \X (1..bad[a]) : a \in Ages})
    <3> HIDE DEF bad
    <3> QED
      BY <2>1, OfByAge
  <2>3. {{a} \X (1..bad[a]) : a \in Ages} = {{a} \X (1..recent[a].bad) : a \in Ages}
    OBVIOUS
  <2> QED
    BY <2>2, <2>3 DEF Bads
<1>3. CountOk = Cardinality(Of(TRUE))
  <2>1. {i \in Window : outcomes[i].ok} = Of(TRUE)
    BY WindowFacts DEF Of
  <2> QED
    BY <2>1 DEF CountOk
<1>4. Samples = Cardinality(Of(TRUE)) + Cardinality(Of(FALSE))
  <2>1. /\ IsFiniteSet(Of(TRUE)) /\ IsFiniteSet(Of(FALSE))
        /\ Cardinality(Of(TRUE)) \in Nat /\ Cardinality(Of(FALSE)) \in Nat
        /\ Window = Of(TRUE) \cup Of(FALSE) /\ Of(TRUE) \cap Of(FALSE) = {}
    BY WindowFacts
  <2>2. Cardinality(Of(TRUE) \cup Of(FALSE))
          = Cardinality(Of(TRUE)) + Cardinality(Of(FALSE)) - Cardinality(Of(TRUE) \cap Of(FALSE))
    BY <2>1, FS_Union
  <2>3. Cardinality(Of(TRUE) \cap Of(FALSE)) = 0
    BY <2>1, FS_EmptySet
  <2>4. Samples = Cardinality(Of(TRUE) \cup Of(FALSE))
    BY <2>1, Zenon DEF Samples
  <2> DEFINE x == Cardinality(Of(TRUE))
             y == Cardinality(Of(FALSE))
  <2>5. x \in Nat /\ y \in Nat /\ Samples = x + y - 0
    BY <2>1, <2>2, <2>3, <2>4, Zenon
  <2> HIDE DEF x, y
  <2>6. Samples = x + y
    BY <2>5
  <2> QED
    BY <2>6 DEF x, y
<1>5. Oks \in Nat /\ Bads \in Nat
  BY <1>1, <1>2, WindowFacts
<1>6. Samples = Oks + Bads
  BY <1>1, <1>2, <1>4
<1>7. CountOk = Oks
  BY <1>1, <1>3
<1>8. Samples - CountOk = Bads
  <2>1. \A x, y \in Nat : (x + y) - x = y
    OBVIOUS
  <2> QED
    BY <1>5, <1>6, <1>7, <2>1
<1> QED
  BY <1>2, <1>5, <1>6, <1>7, <1>8

LEMMA LastExact ==
  ASSUME HealthType, CountInv, NEW ok \in BOOLEAN
  PROVE  LastOf(ok) = NewestAge({a \in Ages : Count(a, ok) > 0})
<1> DEFINE A == {a \in Ages : Count(a, ok) > 0}
           L == {0} \cup {outcomes[i].left : i \in Of(ok)}
<1>1. LastOf(ok) = Max(L)
  BY DEF LastOf, Of
<1>2. ASSUME NEW i \in Of(ok)
      PROVE  /\ HealthWindow - outcomes[i].left \in A
             /\ outcomes[i].left \in 1..HealthWindow
  <2> DEFINE a == HealthWindow - outcomes[i].left
  <2>1. /\ i \in 1..Len(outcomes) /\ outcomes[i].ok = ok /\ a \in Ages
        /\ outcomes[i].left \in 1..HealthWindow
    BY WindowFacts DEF Of
  <2>2. HealthWindow - a = outcomes[i].left
    BY <2>1, HealthLimits
  <2> HIDE DEF a
  <2>3. i \in At(outcomes, a, ok)
    BY <2>1, <2>2 DEF At
  <2>4. outcomes \in Seq(Outcome)
    BY DEF HealthType
  <2>5. Cardinality(At(outcomes, a, ok)) # 0 /\ Cardinality(At(outcomes, a, ok)) \in Nat
    BY <2>3, <2>4, AtFinite, FS_EmptySet
  <2>6. Count(a, ok) > 0
    BY <2>1, <2>5 DEF CountInv
  <2> QED
    BY <2>1, <2>6 DEF a
<1>3. ASSUME NEW a \in A PROVE \E i \in Of(ok) : outcomes[i].left = HealthWindow - a
  <2>1. a \in Ages /\ Cardinality(At(outcomes, a, ok)) # 0
    BY DEF CountInv
  <2>2. PICK i : i \in At(outcomes, a, ok)
    BY <2>1, FS_EmptySet
  <2>3. HealthWindow - a > 0
    BY <2>1, HealthLimits DEF Ages
  <2> QED
    BY <2>2, <2>3 DEF At, Of, Window, InWindow
<1>4. A \subseteq Ages
  OBVIOUS
<1> HIDE DEF A
<1>5. CASE A = {}
  <2>1. L = {0}
    BY <1>2, <1>5
  <2>2. Max(L) = 0
    BY <2>1 DEF Max
  <2> QED
    BY <1>1, <1>5, <2>2 DEF NewestAge, A
<1>6. CASE A # {}
  <2>1. A \subseteq Nat
    BY <1>4 DEF Ages
  <2>2. PICK m \in A : \A a \in A : m <= a
    <3>1. PICK m \in A : \A a \in A : <<a, m>> \notin OpToRel(<, Nat)
      BY <1>6, <2>1, NatLessThanWellFounded, WFMin
    <3>2. \A a \in A : ~(a < m)
      BY <2>1, <3>1 DEF OpToRel
    <3>3. m \in Nat /\ \A a \in A : a \in Nat
      BY <2>1
    <3> QED
      BY <3>2, <3>3
  <2>3. Min(A) = m
    <3>1. \A x \in A : (\A y \in A : x <= y) => x = m
      BY <2>1, <2>2
    <3> QED
      BY <2>2, <3>1 DEF Min
  <2>4. m \in Nat /\ HealthWindow \in Nat /\ HealthWindow - m \in Nat
    BY <1>4, HealthLimits DEF Ages
  <2>5. HealthWindow - m \in L
    BY <1>3
  <2>6. \A y \in L : y <= HealthWindow - m /\ y \in Nat
    <3> SUFFICES ASSUME NEW i \in Of(ok)
                 PROVE  outcomes[i].left <= HealthWindow - m /\ outcomes[i].left \in Nat
      BY <2>4
    <3>1. /\ HealthWindow - outcomes[i].left \in A /\ outcomes[i].left \in 1..HealthWindow
          /\ m <= HealthWindow - outcomes[i].left
      BY <1>2, <2>2
    <3> QED
      BY <2>4, <3>1
  <2> HIDE DEF L
  <2>7. Max(L) = HealthWindow - m
    <3>1. \A x \in L : (\A y \in L : x >= y) => x = HealthWindow - m
      BY <2>4, <2>5, <2>6
    <3>2. \A y \in L : HealthWindow - m >= y
      BY <2>4, <2>6
    <3> QED
      BY <2>5, <3>1, <3>2 DEF Max
  <2> QED
    BY <1>1, <1>6, <2>3, <2>7 DEF NewestAge, A, L
<1> QED
  BY <1>5, <1>6

LEMMA ExactFromCounts ==
  ASSUME HealthType, CountInv PROVE HealthExact
<1>1. LastOf(TRUE) = NewestAge({a \in Ages : recent[a].ok > 0})
  <2>1. {a \in Ages : Count(a, TRUE) > 0} = {a \in Ages : recent[a].ok > 0}
    BY DEF Count
  <2> QED
    BY <2>1, LastExact
<1>2. LastOf(FALSE) = NewestAge({a \in Ages : recent[a].bad > 0})
  <2>1. {a \in Ages : Count(a, FALSE) > 0} = {a \in Ages : recent[a].bad > 0}
    BY DEF Count
  <2> QED
    BY <2>1, LastExact
<1>3. Samples = Oks + Bads /\ CountOk = Oks /\ Samples - CountOk = Bads
  BY CountsExact
<1>4. GlobalDegraded = Ratio(Bads, Oks + Bads)
  BY <1>3 DEF GlobalDegraded
<1> QED
  BY <1>1, <1>2, <1>3, <1>4 DEF HealthExact, RequestdlHealth, TrueHealth

-----------------------------------------------------------------------------
(* The steps of the composition                                            *)

ComposedType == TypeInv /\ mood \in [Items -> Moods]

(* Steps of the breaker that report no outcome and take no time.           *)
Moves(c) ==
  \/ Request(c) \/ Done(c) \/ CDNRefuses(c)
  \/ Ahead(c)
  \/ CallSucceeds(c) \/ Retry(c) \/ (\E m \in Moods : CallFails(c, m))

QuietNext ==
  \/ \E c \in Callers : Moves(c)
  \/ SweepNegative \/ SweepBreaker \/ SyncDone \/ PruneTrackers \/ PruneNegative
  \/ UNCHANGED vars

QuietStep ==
  /\ QuietNext
  /\ UNCHANGED <<healthVars, outage, spell>> /\ (outage => UNCHANGED mood)
  /\ mood' \in [Items -> Moods]

(* An outcome is reported, in an outage a success only of an answer that   *)
(* Client.do takes for one.                                                *)
Reported ==
  /\ \E r \in {"good", "bad", "none"} :
       /\ Report(r)
       /\ r = "good" /\ outage => \E c \in Callers : mood[Item(c)] \in {"ok", "transient"}
  /\ UNCHANGED <<vars, mood, outage, spell>>

LEMMA StepKinds ==
  ASSUME ComposedType, [CNext]_composedVars
  PROVE  CTick \/ Reported \/ QuietStep \/ Outage \/ Recovery
<1>0. \A c \in Callers : Answer(c) \in Moods
  BY KeyAssumption DEF Answer, Item, ComposedType, TypeInv, CallerType
<1>1. ASSUME NEW c \in Callers, ClientCounts(c) PROVE Reported
  <2>1. PICK r \in Reports(mood[Item(c)]) : Report(r)
    BY <1>1 DEF ClientCounts, Answer
  <2>2. r \in {"good", "bad", "none"} /\ (r = "good" => mood[Item(c)] \in {"ok", "transient"})
    BY DEF Reports
  <2> QED
    BY <1>1, <2>1, <2>2 DEF ClientCounts, Reported
<1>2. ASSUME NEW c \in Callers, ServerCounts(c) PROVE Reported
  <2> DEFINE r == IF mood[Item(c)] = "ok" THEN "good" ELSE "bad"
  <2>1. Report(r) /\ UNCHANGED <<vars, mood, outage, spell>>
    BY <1>2 DEF ServerCounts, Answer
  <2>2. r \in {"good", "bad", "none"} /\ (r = "good" => mood[Item(c)] \in {"ok", "transient"})
    OBVIOUS
  <2> HIDE DEF r
  <2> QED
    BY <2>1, <2>2 DEF Reported
<1>3. ASSUME NEW c \in Callers, Answered(c) PROVE QuietStep
  <2>1. Moves(c)
    BY <1>0, <1>3 DEF Answered, Moves
  <2> QED
    BY <1>3, <2>1 DEF Answered, QuietStep, QuietNext, ComposedType
<1>4. ASSUME OtherCall PROVE Reported
  <2>1. PICK r \in {"good", "bad"} : (outage => r = "bad") /\ Report(r)
    BY <1>4 DEF OtherCall
  <2> QED
    BY <1>4, <2>1 DEF OtherCall, Reported
<1>5. ASSUME NEW i \in Items, ItemChanges(i) PROVE QuietStep
  <2>1. mood' \in [Items -> Moods]
    BY <1>5 DEF ItemChanges, ComposedType
  <2> QED
    BY <1>5, <2>1 DEF ItemChanges, QuietStep, QuietNext
<1>6. ASSUME NEW c \in Callers, Come(c) PROVE QuietStep
  <2>1. Moves(c)
    BY <1>6 DEF Come, Moves
  <2> QED
    BY <1>6, <2>1 DEF Come, quiet, QuietStep, QuietNext, ComposedType
<1>7. ASSUME NEW c \in Callers, Ahead(c), UNCHANGED quiet PROVE QuietStep
  <2>1. Moves(c)
    BY <1>7 DEF Moves
  <2> QED
    BY <1>7, <2>1 DEF quiet, QuietStep, QuietNext, ComposedType
<1>8. ASSUME Sweep PROVE QuietStep
  BY <1>8 DEF Sweep, quiet, QuietStep, QuietNext, ComposedType
<1>9. ASSUME UNCHANGED composedVars PROVE QuietStep
  BY <1>9 DEF composedVars, QuietStep, QuietNext, ComposedType
<1> QED
  BY <1>1, <1>2, <1>3, <1>4, <1>5, <1>6, <1>7, <1>8, <1>9 DEF CNext, Handle

LEMMA VerdictType == GlobalDegraded \in BOOLEAN
BY DEF GlobalDegraded, Ratio

(* With the real verdict in the place of any, and calls that are counted   *)
(* before they are acted upon, the breaker does what it does alone.        *)
LEMMA BreakerStep ==
  ASSUME ComposedType, [CNext]_composedVars PROVE [Next]_vars
<1>1. CASE CTick
  BY <1>1 DEF CTick, Next
<1>2. ASSUME NEW c \in Callers, Ahead(c) PROVE Fetch(c)
  <2>1. CASE Downgrade(c, GlobalDegraded) \/ Record(c, GlobalDegraded)
    BY <2>1, VerdictType DEF Fetch
  <2>2. CASE ~(Downgrade(c, GlobalDegraded) \/ Record(c, GlobalDegraded))
    BY <1>2, <2>2 DEF Ahead, Fetch
  <2> QED
    BY <2>1, <2>2
<1>3. ASSUME NEW c \in Callers, Moves(c) PROVE Next
  <2>1. CASE Ahead(c)
    BY <1>2, <2>1 DEF Next
  <2>2. CASE ~Ahead(c)
    BY <1>3, <2>2 DEF Moves, Next, Fetch
  <2> QED
    BY <2>1, <2>2
<1>4. CASE QuietStep
  BY <1>3, <1>4 DEF QuietStep, QuietNext, Next
<1>5. CASE Reported
  BY <1>5 DEF Reported
<1>6. CASE Outage \/ Recovery
  BY <1>6 DEF Outage, Recovery, ChangeAll
<1> QED
  BY <1>1, <1>4, <1>5, <1>6, StepKinds

LEMMA CNextType ==
  ASSUME ComposedType, [CNext]_composedVars PROVE ComposedType'
<1>1. TypeInv'
  BY BreakerStep, NextType DEF ComposedType
<1>2. ASSUME NEW b, NEW m \in Moods, ChangeAll(b, m) PROVE mood' \in [Items -> Moods]
  BY <1>2 DEF ChangeAll
<1>3. CASE Outage \/ Recovery
  BY <1>1, <1>2, <1>3, MoodAssumption DEF Outage, Recovery, ComposedType
<1>4. CASE CTick \/ Reported \/ QuietStep
  BY <1>1, <1>4 DEF CTick, Reported, QuietStep, ComposedType
<1> QED
  BY <1>3, <1>4, StepKinds

(* The window's counts are true.                                           *)
HealthInv == HealthType /\ CountInv

LEMMA ReportCounts ==
  ASSUME HealthType, CountInv, NEW r \in {"good", "bad", "none"}, Report(r)
  PROVE  HealthType' /\ CountInv'
<1>1. CASE r = "none"
  <2>1. UNCHANGED outcomes /\ recent' = [recent EXCEPT ![0] = [ok |-> @.ok + 0, bad |-> @.bad + 0]]
    BY <1>1 DEF Report, Log
  <2>2. recent' = recent
    <3>1. recent[0] \in [ok : Nat, bad : Nat]
      BY HealthLimits DEF HealthType
    <3>2. recent[0].ok + 0 = recent[0].ok /\ recent[0].bad + 0 = recent[0].bad
      BY <3>1
    <3>3. [ok |-> recent[0].ok, bad |-> recent[0].bad] = recent[0]
      BY <3>1
    <3> QED
      BY <2>1, <3>2, <3>3 DEF HealthType
  <2> QED
    BY <2>1, <2>2 DEF HealthType, CountInv, Count
<1>2. CASE r # "none"
  <2> DEFINE o == r = "good"
  <2>1. o \in BOOLEAN /\ RecordOutcome(o) /\ Log(IF o THEN 1 ELSE 0, IF o THEN 0 ELSE 1)
    BY <1>2 DEF Report
  <2> HIDE DEF o
  <2> QED
    BY <2>1, RecordCounts
<1> QED
  BY <1>1, <1>2

LEMMA CNextHealth ==
  ASSUME ComposedType, HealthInv, [CNext]_composedVars PROVE HealthInv'
<1>1. HealthType /\ CountInv
  BY DEF HealthInv
<1>2. ASSUME UNCHANGED <<outcomes, recent>> PROVE HealthInv'
  BY <1>1, <1>2 DEF HealthInv, HealthType, CountInv, Count
<1>3. CASE CTick
  BY <1>1, <1>3, TickCounts DEF CTick, HealthInv
<1>4. CASE Reported
  BY <1>1, <1>4, ReportCounts DEF Reported, HealthInv
<1>5. CASE QuietStep
  BY <1>2, <1>5 DEF QuietStep, healthVars
<1>6. CASE Outage \/ Recovery
  BY <1>2, <1>6 DEF Outage, Recovery, ChangeAll, healthVars
<1> QED
  BY <1>3, <1>4, <1>5, <1>6, StepKinds

LEMMA CInitHealth == CInit => HealthInv
<1> SUFFICES ASSUME CInit PROVE HealthInv
  OBVIOUS
<1>1. outcomes = << >> /\ recent = [a \in Ages |-> Nothing]
  BY DEF CInit, HealthInit
<1>2. HealthType
  BY <1>1, EmptySeq DEF HealthType, Nothing
<1>3. Len(outcomes) = 0
  BY <1>1, EmptySeq
<1>4. CountInv
  <2>1. \A a \in Ages, ok \in BOOLEAN : At(outcomes, a, ok) = {} /\ Count(a, ok) = 0
    BY <1>1, <1>3 DEF At, Count, Nothing
  <2> QED
    BY <2>1, FS_EmptySet DEF CountInv
<1> QED
  BY <1>2, <1>4 DEF HealthInv

LEMMA CTypeCorrect == CSpec => []ComposedType
<1>1. CInit => ComposedType
  BY InitType, MoodAssumption DEF CInit, ComposedType
<1>2. ComposedType /\ [CNext]_composedVars => ComposedType'
  BY CNextType
<1> QED
  BY <1>1, <1>2, PTL DEF CSpec

LEMMA HealthAlways == CSpec => []HealthInv
<1>1. ComposedType /\ HealthInv /\ [CNext]_composedVars => HealthInv'
  BY CNextHealth
<1> QED
  BY <1>1, CInitHealth, CTypeCorrect, PTL DEF CSpec

(* The landing page's figures and the breaker's verdict are those of the   *)
(* outcomes of the last window, for any rate of calls and however late     *)
(* the slice is trimmed (server.go:583-700).                               *)
THEOREM HealthIsExact == CSpec => []HealthExact
<1>1. HealthInv => HealthExact
  BY ExactFromCounts DEF HealthInv
<1> QED
  BY <1>1, HealthAlways, PTL

-----------------------------------------------------------------------------
(* Outages                                                                 *)

(* While an outage lasts nothing answers "ok" and, unless it shows in      *)
(* errors inside a 200, what it has put into the window are failures.      *)
OutageMoods == \A i, j \in Items : mood[i] # "ok" /\ mood[i] = mood[j]
OnlyFailures ==
  \A n \in 1..Len(outcomes) : outcomes[n].left > HealthWindow - spell => ~outcomes[n].ok

OutageInv ==
  /\ spell \in 0..HealthWindow
  /\ outage =>
       /\ OutageMoods
       /\ (\A i \in Items : mood[i] # "transient") => OnlyFailures

(* What is in the slice after an outcome was there before, or is it.       *)
LEMMA RecordKeeps ==
  ASSUME HealthType, NEW o \in BOOLEAN, RecordOutcome(o), NEW n \in 1..Len(outcomes')
  PROVE  outcomes'[n].ok = o \/ \E m \in 1..Len(outcomes) : outcomes'[n] = outcomes[m]
<1> DEFINE e == [left |-> HealthWindow, ok |-> o]
           all == Append(outcomes, e)
<1>1. all \in Seq(Outcome) /\ 0 \in Ages /\ outcomes \in Seq(Outcome) /\ e \in Outcome
  BY AppendAt, HealthLimits DEF HealthType, Outcome
<1>2. /\ Len(all) = Len(outcomes) + 1 /\ all[Len(outcomes) + 1].ok = o
      /\ \A i \in 1..Len(outcomes) : all[i] = outcomes[i]
      /\ Len(outcomes) \in Nat
  BY <1>1, AppendProperties, OutcomeFacts
<1>3. outcomes' = SubSeq(all, Older(all) + 1, Len(all))
  BY DEF RecordOutcome
<1> HIDE DEF all
<1>4. /\ outcomes'[n] = all[n + Older(all)] /\ Older(all) \in 0..Len(all)
      /\ Len(outcomes') = Len(all) - Older(all)
  BY <1>1, <1>3, TrimProperties, OlderProperties
<1>5. n + Older(all) \in 1..Len(outcomes) \/ n + Older(all) = Len(outcomes) + 1
  BY <1>2, <1>4
<1> QED
  BY <1>2, <1>4, <1>5

LEMMA TickOutage ==
  ASSUME HealthType, OutageInv, CTick PROVE OutageInv'
<1>1. /\ HealthWindow \in Nat \ {0} /\ spell \in 0..HealthWindow
      /\ spell' = IF spell < HealthWindow THEN spell + 1 ELSE spell
      /\ UNCHANGED <<outage, mood>>
  BY HealthLimits DEF OutageInv, CTick
<1>2. spell' \in 0..HealthWindow
  BY <1>1
<1>3. ASSUME OnlyFailures PROVE OnlyFailures'
  <2>1. DOMAIN outcomes = 1..Len(outcomes)
    BY LenProperties DEF HealthType
  <2>2. DOMAIN outcomes' = 1..Len(outcomes) /\ Len(outcomes) \in Nat
    BY <2>1, OutcomeFacts DEF HealthType, CTick, HealthTick
  <2>3. Len(outcomes') = Len(outcomes)
    <3>1. outcomes' \in Seq(Outcome)
      <4>1. ASSUME NEW i \in 1..Len(outcomes) PROVE outcomes'[i] \in Outcome
        <5>1. outcomes'[i] = [outcomes[i] EXCEPT !.left = IF @ > 0 THEN @ - 1 ELSE 0]
          BY <2>1 DEF CTick, HealthTick
        <5>2. outcomes[i].left \in 0..HealthWindow /\ outcomes[i] \in Outcome
          BY OutcomeFacts DEF HealthType
        <5> QED
          BY <1>1, <5>1, <5>2 DEF Outcome
      <4>2. outcomes' = [i \in 1..Len(outcomes) |-> outcomes'[i]]
        BY <2>1 DEF CTick, HealthTick
      <4>3. outcomes' \in [1..Len(outcomes) -> Outcome]
        BY <4>1, <4>2
      <4> QED
        BY <2>2, <4>3, SeqDef
    <3> QED
      BY <2>2, <3>1, LenProperties
  <2>4. ASSUME NEW n \in 1..Len(outcomes), outcomes'[n].left > HealthWindow - spell'
        PROVE  ~outcomes'[n].ok
    <3>1. outcomes[n].left \in 0..HealthWindow /\ outcomes[n] \in Outcome
      BY OutcomeFacts DEF HealthType
    <3>2. /\ outcomes'[n].left = IF outcomes[n].left > 0 THEN outcomes[n].left - 1 ELSE 0
          /\ outcomes'[n].ok = outcomes[n].ok
      BY <2>1, <3>1 DEF CTick, HealthTick, Outcome
    <3>3. outcomes[n].left > HealthWindow - spell
      BY <1>1, <2>4, <3>1, <3>2
    <3> QED
      BY <1>3, <3>2, <3>3 DEF OnlyFailures
  <2> QED
    BY <2>3, <2>4 DEF OnlyFailures
<1>4. OutageMoods => OutageMoods'
  BY <1>1 DEF OutageMoods
<1> QED
  BY <1>1, <1>2, <1>3, <1>4 DEF OutageInv

LEMMA ReportOutage ==
  ASSUME ComposedType, HealthType, OutageInv, Reported PROVE OutageInv'
<1>1. UNCHANGED <<outage, spell, mood>>
  BY DEF Reported
<1>2. PICK r \in {"good", "bad", "none"} :
        /\ Report(r)
        /\ r = "good" /\ outage => \E c \in Callers : mood[Item(c)] \in {"ok", "transient"}
  BY DEF Reported
<1>3. ASSUME outage, OutageMoods, OnlyFailures, \A i \in Items : mood[i] # "transient"
      PROVE  OnlyFailures'
  <2>1. \A c \in Callers : Item(c) \in Items
    BY KeyAssumption DEF Item, ComposedType, TypeInv, CallerType
  <2>2. r # "good"
    BY <1>2, <1>3, <2>1 DEF OutageMoods
  <2>3. CASE r = "none"
    BY <1>1, <1>2, <1>3, <2>3 DEF Report, OnlyFailures
  <2>4. CASE r = "bad"
    <3>1. RecordOutcome(FALSE)
      BY <1>2, <2>4 DEF Report
    <3>2. ASSUME NEW n \in 1..Len(outcomes'), outcomes'[n].left > HealthWindow - spell
          PROVE  ~outcomes'[n].ok
      <4>1. CASE outcomes'[n].ok = FALSE
        BY <4>1
      <4>2. CASE \E m \in 1..Len(outcomes) : outcomes'[n] = outcomes[m]
        BY <1>3, <3>2, <4>2 DEF OnlyFailures
      <4> QED
        BY <3>1, <4>1, <4>2, RecordKeeps
    <3> QED
      BY <1>1, <3>2 DEF OnlyFailures
  <2> QED
    BY <2>2, <2>3, <2>4
<1>4. OutageMoods' = OutageMoods
  BY <1>1 DEF OutageMoods
<1> QED
  BY <1>1, <1>3, <1>4 DEF OutageInv

LEMMA QuietOutage ==
  ASSUME OutageInv, QuietStep PROVE OutageInv'
<1>1. UNCHANGED <<outcomes, outage, spell>> /\ (outage => UNCHANGED mood)
  BY DEF QuietStep, healthVars
<1>2. CASE ~outage
  BY <1>1, <1>2 DEF OutageInv
<1>3. CASE outage
  <2>1. OutageMoods' = OutageMoods /\ OnlyFailures' = OnlyFailures
    BY <1>1, <1>3 DEF OutageMoods, OnlyFailures
  <2> QED
    BY <1>1, <1>3, <2>1 DEF OutageInv
<1> QED
  BY <1>2, <1>3

LEMMA ChangeOutage ==
  ASSUME HealthType, Outage \/ Recovery PROVE OutageInv'
<1>1. CASE Recovery
  BY <1>1, HealthLimits DEF Recovery, ChangeAll, OutageInv
<1>2. CASE Outage
  <2>1. PICK m \in Moods \ {"ok"} : ChangeAll(TRUE, m)
    BY <1>2 DEF Outage
  <2>2. mood' = [i \in Items |-> m] /\ spell' = 0 /\ UNCHANGED outcomes
    BY <2>1 DEF ChangeAll, healthVars
  <2>3. OutageMoods'
    BY <2>2 DEF OutageMoods
  <2>4. OnlyFailures'
    <3> SUFFICES ASSUME NEW n \in 1..Len(outcomes), outcomes[n].left > HealthWindow - 0
                 PROVE  FALSE
      BY <2>2 DEF OnlyFailures
    <3>1. outcomes[n].left \in 0..HealthWindow /\ HealthWindow \in Nat
      BY OutcomeFacts, HealthLimits DEF HealthType
    <3> QED
      BY <3>1
  <2> QED
    BY <2>2, <2>3, <2>4, HealthLimits DEF OutageInv
<1> QED
  BY <1>1, <1>2

LEMMA CNextOutage ==
  ASSUME ComposedType, HealthType, OutageInv, [CNext]_composedVars PROVE OutageInv'
BY StepKinds, TickOutage, ReportOutage, QuietOutage, ChangeOutage

(* In a long outage the verdict is "degraded".                             *)
LEMMA LongOutageDegraded ==
  ASSUME HealthInv, OutageInv, AllFail, spell = HealthWindow, Oks + Bads >= MinSamples
  PROVE  GlobalDegraded
<1>1. OnlyFailures
  BY DEF AllFail, OutageInv
<1>2. {i \in Window : outcomes[i].ok} = {}
  <2> SUFFICES ASSUME NEW i \in Window, outcomes[i].ok PROVE FALSE
    OBVIOUS
  <2>1. i \in 1..Len(outcomes) /\ outcomes[i].left > 0
    BY DEF Window, InWindow
  <2>2. HealthWindow - spell = 0
    BY HealthLimits
  <2> QED
    BY <1>1, <2>1, <2>2 DEF OnlyFailures
<1>3. CountOk = 0
  BY <1>2, FS_EmptySet DEF CountOk
<1>4. /\ CountOk = Oks /\ Samples = Oks + Bads /\ Samples - CountOk = Bads
      /\ Oks \in Nat /\ Bads \in Nat /\ MinSamples \in Nat
  BY CountsExact, HealthLimits DEF HealthInv
<1>5. Ratio(Bads, Oks + Bads)
  BY <1>3, <1>4 DEF Ratio
<1> QED
  BY <1>4, <1>5 DEF GlobalDegraded

(* The escalations of a step: recordTorrentFailure adds one, for a 5xx     *)
(* that the verdict leaves the item's own.                                 *)
LEMMA EscalatesBy ==
  ASSUME ComposedType, [CNext]_composedVars, NEW i \in Ids, ~(escalations'[i] <= escalations[i])
  PROVE  ~GlobalDegraded
<1>1. escalations \in [Ids -> Nat]
  BY DEF ComposedType, TypeInv, TrackType
<1>2. ~UNCHANGED escalations
  BY <1>1
<1>3. ~\E ids : Forget(ids)
  <2> SUFFICES ASSUME NEW ids, Forget(ids) PROVE FALSE
    OBVIOUS
  <2>1. escalations'[i] \in {0, escalations[i]} /\ escalations[i] \in Nat
    BY <1>1 DEF Forget
  <2> QED
    BY <2>1
<1>4. ~CTick /\ ~Reported /\ ~Outage /\ ~Recovery
  BY <1>2 DEF CTick, Tick, Reported, Outage, Recovery, ChangeAll, vars, breakerVars
<1>5. QuietNext
  BY <1>4, StepKinds DEF QuietStep
<1>6. ~SweepNegative /\ ~SyncDone /\ ~PruneNegative /\ ~UNCHANGED vars
  BY <1>2 DEF SweepNegative, SyncDone, PruneNegative, vars, breakerVars
<1>7. ~SweepBreaker /\ ~PruneTrackers /\ \A c \in Callers : ~Clear(c)
  BY <1>3 DEF SweepBreaker, PruneTrackers, Clear
<1>8. \A c \in Callers : ~Request(c) /\ ~Done(c) /\ ~Poll(c) /\ ~NegativeHit(c)
                         /\ ~NegativeMiss(c) /\ ~Skip(c) /\ ~Admit(c) /\ ~CDNRefuses(c)
  BY <1>2 DEF Request, Done, Poll, Ask, NegativeHit, NegativeMiss, Skip, Admit, LetThrough,
              CDNRefuses, breakerVars
<1>9. \A c \in Callers : /\ ~CallSucceeds(c) /\ ~Retry(c) /\ ~WakeUp(c) /\ ~Remember(c)
                         /\ ~Downgrade(c, GlobalDegraded) /\ \A m \in Moods : ~CallFails(c, m)
  BY <1>2 DEF CallSucceeds, Retry, CallFails, WakeUp, Downgrade, Remember, breakerVars
<1>10. PICK c \in Callers : Record(c, GlobalDegraded)
  BY <1>5, <1>6, <1>7, <1>8, <1>9 DEF QuietNext, Moves, Ahead
<1> SUFFICES ASSUME GlobalDegraded PROVE FALSE
  OBVIOUS
<1>11. \/ UNCHANGED escalations
       \/ escalations' = [escalations EXCEPT ![Id(c)] = escalations[Id(c)]]
  BY <1>10 DEF Record
<1> QED
  BY <1>1, <1>2, <1>11

(* An outage of TorBox in which every call fails labels no item dead: once *)
(* it fills the window and enough calls were made, no escalation counts,   *)
(* whichever caller records its failure and however long ago it was        *)
(* answered (get.go:508, 530, server.go:611).                              *)
THEOREM OutageNeverEscalates == CSpec => LongOutageNeverEscalates
<1>1. CInit => OutageInv
  BY HealthLimits DEF CInit, OutageInv
<1>2. ComposedType /\ HealthInv /\ OutageInv /\ [CNext]_composedVars => OutageInv'
  BY CNextOutage DEF HealthInv
<1>3. CSpec => []OutageInv
  BY <1>1, <1>2, CTypeCorrect, HealthAlways, PTL DEF CSpec
<1> DEFINE Step == AllFail /\ spell = HealthWindow /\ Oks + Bads >= MinSamples =>
                     \A i \in Ids : escalations'[i] <= escalations[i]
<1>4. ComposedType /\ HealthInv /\ OutageInv /\ [CNext]_composedVars => [Step]_composedVars
  BY EscalatesBy, LongOutageDegraded
<1> QED
  BY <1>3, <1>4, CTypeCorrect, HealthAlways, PTL DEF CSpec, LongOutageNeverEscalates

-----------------------------------------------------------------------------
(* The breaker in the composition                                          *)

(* The health window decides only what CircuitBreaker leaves open: the     *)
(* composition is one of its behaviours, and its probes are as far apart   *)
(* and its quarantines as earned (get.go:474, 487).                        *)
THEOREM ComposedBreakerIsSafe == CSpec => Spec /\ ProbesSpaced /\ QuarantineEarned
<1>1. CInit => Init
  BY DEF CInit
<1>2. ComposedType /\ [CNext]_composedVars => [Next]_vars
  BY BreakerStep
<1>3. CSpec => Spec
  BY <1>1, <1>2, CTypeCorrect, PTL DEF CSpec, Spec
<1> QED
  BY <1>3, ProbesAreSpaced, QuarantineIsEarned, PTL
================================================================================
