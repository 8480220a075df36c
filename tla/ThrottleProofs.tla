--------------------------- MODULE ThrottleProofs ---------------------------
(***************************************************************************)
(* Proofs about Throttle, for every set of requests, rate, channel size    *)
(* and duration of the run.                                                *)
(***************************************************************************)
EXTENDS Throttle, FiniteSetTheorems, SequenceTheorems, WellFoundedInduction,
        TLAPS

(* The loop holds a request exactly between receiving it and accounting    *)
(* for it; a loop that returned may have one it dropped.                   *)
HandInv ==
  \A q \in Queues :
    /\ pc[q] \notin {"select", "exited"} => cur[q] \in Requests
    /\ pc[q] = "select" => cur[q] = None

TypeInv == TypeOK /\ HandInv

(* There is always an entry to trim to, the end of the window at the       *)
(* latest, and what lies before it is older than the cutoff.               *)
LEMMA FrontAtProperties ==
  ASSUME NEW w \in Seq(Int), NEW cutoff \in Int
  PROVE  LET k == FrontAt(w, cutoff) IN
         /\ k \in 1..Len(w) + 1
         /\ \A j \in 1..k - 1 : w[j] < cutoff
         /\ k <= Len(w) => w[k] >= cutoff
<1> DEFINE T == {i \in 1..Len(w) + 1 : i <= Len(w) => w[i] >= cutoff}
<1>1. Len(w) \in Nat /\ \A i \in 1..Len(w) : w[i] \in Int
  BY ElementOfSeq, LenProperties
<1>2. T # {} /\ T \subseteq Nat
  <2>1. Len(w) + 1 \in T
    BY <1>1
  <2> QED
    BY <2>1, <1>1
<1>3. PICK n \in T : \A m \in T : n <= m
  <2>1. PICK n \in T : \A m \in T : <<m, n>> \notin OpToRel(<, Nat)
    BY <1>2, NatLessThanWellFounded, WFMin
  <2> HIDE DEF T
  <2>2. \A m \in T : ~ (m < n)
    BY <1>2, <2>1 DEF OpToRel
  <2>3. n \in Nat /\ \A m \in T : m \in Nat
    BY <1>2
  <2> QED
    BY <2>2, <2>3
<1>4. \A j \in 1..n - 1 : w[j] < cutoff
  BY <1>1, <1>3
<1> QED
  BY <1>3, <1>4 DEF FrontAt

(* Trimming callWindow from the front leaves a sequence of times.          *)
LEMMA TrimType ==
  ASSUME NEW w \in Seq(Int), now \in Int, Window \in Int
  PROVE  Trim(w) \in Seq(Int)
<1> DEFINE cutoff == now - Window
<1>1. cutoff \in Int
  OBVIOUS
<1> HIDE DEF cutoff
<1>2. FrontAt(w, cutoff) \in 1..Len(w) + 1
  BY <1>1, FrontAtProperties
<1>3. Len(w) \in Nat /\ \A i \in 1..Len(w) : w[i] \in Int
  BY ElementOfSeq, LenProperties
<1>4. SubSeq(w, FrontAt(w, cutoff), Len(w)) \in Seq(Int)
  BY <1>2, <1>3, SubSeqProperties
<1> QED
  BY <1>4 DEF Trim, cutoff

-----------------------------------------------------------------------------
(* Types                                                                   *)

LEMMA InitType == Init => TypeInv
<1> SUFFICES ASSUME Init PROVE TypeInv
  OBVIOUS
<1> USE DEF Init
<1>1. /\ lately \in [Queues -> SUBSET (Nat \X Int)]
      /\ \A q \in Queues : Len(items[q]) <= BufferSize
      /\ lastCall \in Int
  BY BufferAssumption, RateAssumption
<1>2. /\ items \in [Queues -> Seq(Requests)] /\ sent \in [Queues -> Seq(Requests)]
      /\ executed \in [Queues -> Seq(Requests)] /\ callWindow \in [Queues -> Seq(Int)]
      /\ slots \in Seq(Int) /\ starts \in Seq(Int)
  BY EmptySeq
<1>3. /\ totalCalls \in [Queues -> Nat] /\ successfulCalls \in [Queues -> Nat]
      /\ failedCalls \in [Queues -> Nat] /\ http429Calls \in [Queues -> Nat]
  OBVIOUS
<1>4. /\ pc \in [Queues -> PCs] /\ cur \in [Queues -> Requests \cup {None}]
      /\ caller \in [Requests -> CallerStates] /\ owed \in [Queues -> BOOLEAN]
      /\ wakeAt \in [Queues -> Int] /\ left \in [Queues -> Int]
      /\ HandInv
  BY DEF PCs, CallerStates, HandInv
<1> QED
  BY <1>1, <1>2, <1>3, <1>4 DEF TypeInv, TypeOK

(* A step of one loop to another label, with the same request in hand.     *)
LEMMA GotoType ==
  ASSUME TypeInv, NEW q \in Queues, NEW l \in PCs, Goto(q, l), cur' = cur,
         pc[q] \notin {"select", "exited"}, l # "select"
  PROVE  pc' \in [Queues -> PCs] /\ HandInv'
  BY DEF TypeInv, TypeOK, HandInv, Goto

(* Every step keeps the types, one action at a time.                       *)
LEMMA NextType == TypeInv /\ [Next]_vars => TypeInv'
<1> SUFFICES ASSUME TypeInv, [Next]_vars PROVE TypeInv'
  OBVIOUS
<1> USE RequestsAssumption, CallsAssumption, RateAssumption, NoneAssumption
<1> USE DEF limiterVars, callerVars, statVars, counters
<1>1. CASE Tick
  <2>1. now' \in Nat /\ lately' \in [Queues -> SUBSET (Nat \X Int)]
    BY <1>1 DEF Tick, TypeInv, TypeOK
  <2> QED
    BY <1>1, <2>1 DEF Tick, TypeInv, TypeOK, HandInv
<1>2. CASE Cancel
  BY <1>2 DEF Cancel, TypeInv, TypeOK, HandInv
<1>3. ASSUME NEW r \in Requests, Enqueue(r) PROVE TypeInv'
  <2> DEFINE p == QueueOf[r]
  <2>1. /\ p \in Queues /\ items[p] \in Seq(Requests) /\ sent[p] \in Seq(Requests)
        /\ Len(items[p]) < BufferSize
    BY <1>3 DEF Enqueue, TypeInv, TypeOK
  <2>2. /\ Append(items[p], r) \in Seq(Requests) /\ Append(sent[p], r) \in Seq(Requests)
        /\ Len(Append(items[p], r)) <= BufferSize
    BY <2>1, AppendProperties, LenProperties, BufferAssumption
  <2>3. /\ items' = [items EXCEPT ![p] = Append(items[p], r)]
        /\ sent' = [sent EXCEPT ![p] = Append(sent[p], r)]
    BY <1>3 DEF Enqueue
  <2> HIDE DEF p
  <2>4. items' \in [Queues -> Seq(Requests)] /\ sent' \in [Queues -> Seq(Requests)]
    BY <2>1, <2>2, <2>3 DEF TypeInv, TypeOK
  <2>5. \A q \in Queues : Len(items'[q]) <= BufferSize
    BY <2>1, <2>2, <2>3 DEF TypeInv, TypeOK
  <2>6. caller' \in [Requests -> CallerStates]
    BY <1>3 DEF Enqueue, TypeInv, TypeOK, CallerStates
  <2> QED
    BY <1>3, <2>4, <2>5, <2>6 DEF Enqueue, TypeInv, TypeOK, HandInv
<1>4. ASSUME NEW q \in Queues, Exit(q) PROVE TypeInv'
  <2>1. pc' \in [Queues -> PCs] /\ HandInv'
    BY <1>4 DEF Exit, Goto, TypeInv, TypeOK, HandInv, PCs
  <2> QED
    BY <1>4, <2>1 DEF Exit, TypeInv, TypeOK
<1>5. ASSUME NEW q \in Queues, Receive(q) PROVE TypeInv'
  <2>1. items[q] \in Seq(Requests) /\ items[q] # << >>
    BY <1>5 DEF Receive, TypeInv, TypeOK
  <2>2. /\ Head(items[q]) \in Requests /\ Tail(items[q]) \in Seq(Requests)
        /\ Len(Tail(items[q])) = Len(items[q]) - 1
    BY <2>1, HeadTailProperties
  <2>3. items' \in [Queues -> Seq(Requests)]
    BY <1>5, <2>2 DEF Receive, TypeInv, TypeOK
  <2>4. \A p \in Queues : Len(items'[p]) <= BufferSize
    BY <1>5, <2>1, <2>2, LenProperties, BufferAssumption DEF Receive, TypeInv, TypeOK
  <2>5. /\ cur' \in [Queues -> Requests \cup {None}] /\ pc' \in [Queues -> PCs]
        /\ HandInv'
    BY <1>5, <2>2 DEF Receive, Goto, TypeInv, TypeOK, HandInv, PCs
  <2> QED
    BY <1>5, <2>3, <2>4, <2>5 DEF Receive, TypeInv, TypeOK
<1>6. ASSUME NEW q \in Queues, WaitGrant(q) PROVE TypeInv'
  <2>1. /\ lastCall' \in Int /\ slots' \in Seq(Int)
        /\ owed' \in [Queues -> BOOLEAN]
    BY <1>6 DEF WaitGrant, Reserve, TypeInv, TypeOK
  <2>2. pc' \in [Queues -> PCs] /\ HandInv'
    BY <1>6, GotoType DEF WaitGrant, PCs
  <2> QED
    BY <1>6, <2>1, <2>2 DEF WaitGrant, TypeInv, TypeOK
<1>7. ASSUME NEW q \in Queues, WaitSleep(q) PROVE TypeInv'
  <2>1. pc' \in [Queues -> PCs] /\ HandInv'
    BY <1>7, GotoType DEF WaitSleep, PCs
  <2>2. wakeAt' \in [Queues -> Int]
    BY <1>7 DEF WaitSleep, TypeInv, TypeOK
  <2> QED
    BY <1>7, <2>1, <2>2 DEF WaitSleep, TypeInv, TypeOK
<1>8. ASSUME NEW q \in Queues, Wake(q) PROVE TypeInv'
  <2>1. pc' \in [Queues -> PCs] /\ HandInv'
    BY <1>8, GotoType DEF Wake, PCs
  <2> QED
    BY <1>8, <2>1 DEF Wake, TypeInv, TypeOK
<1>9. ASSUME NEW q \in Queues, WaitCancelled(q) PROVE TypeInv'
  <2>1. pc' \in [Queues -> PCs] /\ HandInv'
    BY <1>9, GotoType DEF WaitCancelled, PCs
  <2> QED
    BY <1>9, <2>1 DEF WaitCancelled, TypeInv, TypeOK
<1>10. ASSUME NEW q \in Queues, Drop(q) PROVE TypeInv'
  <2>1. pc' \in [Queues -> PCs] /\ HandInv'
    BY <1>10, GotoType DEF Drop, PCs
  <2> QED
    BY <1>10, <2>1 DEF Drop, TypeInv, TypeOK
<1>11. ASSUME NEW q \in Queues, Execute(q) PROVE TypeInv'
  <2>1. cur[q] \in Requests
    BY <1>11 DEF Execute, TypeInv, HandInv
  <2>2. executed' \in [Queues -> Seq(Requests)] /\ left' \in [Queues -> Int]
    <3>1. Append(executed[q], cur[q]) \in Seq(Requests) /\ MaxCalls[cur[q]] \in Int
      BY <2>1 DEF TypeInv, TypeOK
    <3> QED
      BY <1>11, <3>1 DEF Execute, TypeInv, TypeOK
  <2>3. pc' \in [Queues -> PCs] /\ HandInv'
    BY <1>11, GotoType DEF Execute, PCs
  <2>4. starts' \in Seq(Int) /\ owed' \in [Queues -> BOOLEAN]
    BY <1>11 DEF Execute, TypeInv, TypeOK
  <2> QED
    BY <1>11, <2>2, <2>3, <2>4 DEF Execute, TypeInv, TypeOK
<1>12. ASSUME NEW q \in Queues, HTTPCall(q) PROVE TypeInv'
  <2>1. cur[q] \in Requests
    BY <1>12 DEF HTTPCall, Call, TypeInv, HandInv
  <2>2. left' \in [Queues -> Int]
    BY <1>12 DEF HTTPCall, Call, TypeInv, TypeOK
  <2>3. caller' \in [Requests -> CallerStates]
    BY <1>12, <2>1 DEF HTTPCall, Reply, TypeInv, TypeOK, CallerStates
  <2>4. pc' \in [Queues -> PCs] /\ HandInv'
    <3>1. CASE UNCHANGED <<pc, caller>>
      BY <1>12, <3>1 DEF HTTPCall, Call, TypeInv, TypeOK, HandInv
    <3>2. CASE \E res \in Responses \ {"429"} : Reply(q, res = "ok")
      BY <1>12, <3>2, GotoType DEF HTTPCall, Call, Reply, PCs
    <3> QED
      BY <1>12, <3>1, <3>2 DEF HTTPCall
  <2> QED
    BY <1>12, <2>2, <2>3, <2>4 DEF HTTPCall, Call, TypeInv, TypeOK
<1>13. ASSUME NEW q \in Queues, HTTP429(q) PROVE TypeInv'
  <2>1. left' \in [Queues -> Int] /\ got429' \in Nat
    BY <1>13 DEF HTTP429, Call, TypeInv, TypeOK
  <2>2. pc' \in [Queues -> PCs] /\ HandInv'
    BY <1>13, GotoType DEF HTTP429, Call, PCs
  <2> QED
    BY <1>13, <2>1, <2>2 DEF HTTP429, Call, TypeInv, TypeOK
<1>14. ASSUME NEW q \in Queues, Mark1(q) PROVE TypeInv'
  <2>1. http429Calls' \in [Queues -> Nat]
    <3>1. http429Calls \in [Queues -> Nat] /\ "request" \in Queues
      BY DEF TypeInv, TypeOK, Queues
    <3>2. http429Calls["request"] + 1 \in Nat
      BY <3>1
    <3> QED
      BY <1>14, <3>1, <3>2 DEF Mark1, Record429
  <2>2. pc' \in [Queues -> PCs] /\ HandInv'
    BY <1>14, GotoType DEF Mark1, Record429, PCs
  <2> QED
    BY <1>14, <2>1, <2>2 DEF Mark1, Record429, TypeInv, TypeOK
<1>15. ASSUME NEW q \in Queues, Mark2(q) PROVE TypeInv'
  <2>1. http429Calls' \in [Queues -> Nat]
    <3>1. http429Calls \in [Queues -> Nat] /\ "sync" \in Queues
      BY DEF TypeInv, TypeOK, Queues
    <3>2. http429Calls["sync"] + 1 \in Nat
      BY <3>1
    <3> QED
      BY <1>15, <3>1, <3>2 DEF Mark2, Record429
  <2>2. cur[q] \in Requests
    BY <1>15 DEF Mark2, TypeInv, HandInv
  <2>3. caller' \in [Requests -> CallerStates]
    BY <1>15, <2>2 DEF Mark2, Reply, TypeInv, TypeOK, CallerStates
  <2>4. pc' \in [Queues -> PCs] /\ HandInv'
    BY <1>15, GotoType DEF Mark2, Reply, Record429, PCs
  <2> QED
    BY <1>15, <2>1, <2>3, <2>4 DEF Mark2, Record429, TypeInv, TypeOK
<1>16. ASSUME NEW q \in Queues, Account(q) PROVE TypeInv'
  <2>1. /\ totalCalls' \in [Queues -> Nat] /\ successfulCalls' \in [Queues -> Nat]
        /\ failedCalls' \in [Queues -> Nat]
    <3>1. /\ totalCalls \in [Queues -> Nat] /\ successfulCalls \in [Queues -> Nat]
          /\ failedCalls \in [Queues -> Nat]
      BY DEF TypeInv, TypeOK
    <3>2. /\ totalCalls[q] + 1 \in Nat /\ successfulCalls[q] + 1 \in Nat
          /\ failedCalls[q] + 1 \in Nat
      BY <3>1
    <3>3. totalCalls' \in [Queues -> Nat]
      BY <1>16, <3>1, <3>2 DEF Account
    <3>4. successfulCalls' \in [Queues -> Nat] /\ failedCalls' \in [Queues -> Nat]
      BY <1>16, <3>1, <3>2 DEF Account
    <3> QED
      BY <3>3, <3>4
  <2>2. callWindow' \in [Queues -> Seq(Int)]
    <3>1. /\ Append(callWindow[q], now) \in Seq(Int) /\ now \in Int /\ Window \in Int
      BY TimeAssumption DEF TypeInv, TypeOK
    <3>2. Trim(Append(callWindow[q], now)) \in Seq(Int)
      BY <3>1, TrimType
    <3> QED
      BY <1>16, <3>2 DEF Account, TypeInv, TypeOK
  <2>3. lately' \in [Queues -> SUBSET (Nat \X Int)]
    <3>1. <<totalCalls[q], now>> \in Nat \X Int
      BY DEF TypeInv, TypeOK
    <3> QED
      BY <1>16, <3>1 DEF Account, TypeInv, TypeOK
  <2>4. /\ cur' \in [Queues -> Requests \cup {None}] /\ pc' \in [Queues -> PCs]
        /\ HandInv'
    BY <1>16 DEF Account, Goto, TypeInv, TypeOK, HandInv, PCs
  <2> QED
    BY <1>16, <2>1, <2>2, <2>3, <2>4 DEF Account, TypeInv, TypeOK
<1>17. CASE UserInfo
  <2>1. /\ http429Calls["request"] \in Nat /\ http429Calls["sync"] \in Nat
        /\ http429Calls \in [Queues -> Nat] /\ got429 \in Nat
        /\ "request" \in Queues /\ "sync" \in Queues
    BY DEF TypeInv, TypeOK, Queues
  <2>2. /\ http429Calls["request"] + 1 \in Nat /\ http429Calls["sync"] + 1 \in Nat
        /\ got429 + 1 \in Nat
    BY <2>1
  <2>3. http429Calls' \in [Queues -> Nat] /\ got429' \in Nat
    <3>1. CASE UserInfo429
      BY <2>1, <2>2, <3>1 DEF UserInfo429
    <3>2. CASE UserInfoMark1
      BY <2>1, <2>2, <3>2 DEF UserInfoMark1, Record429
    <3>3. CASE UserInfoMark2
      BY <2>1, <2>2, <3>3 DEF UserInfoMark2, Record429
    <3> QED
      BY <1>17, <3>1, <3>2, <3>3 DEF UserInfo
  <2>4. userInfo' \in {"asking", "mark1", "mark2", "done"}
    BY <1>17 DEF UserInfo, UserInfo429, UserInfoMark1, UserInfoMark2
  <2>5. UNCHANGED <<now, cancelled, limiterVars, callerVars, totalCalls, successfulCalls,
                    failedCalls, callWindow, lately, pc, cur, wakeAt, left, starts, executed>>
    BY <1>17 DEF UserInfo, UserInfo429, UserInfoMark1, UserInfoMark2, Record429
  <2> QED
    BY <2>3, <2>4, <2>5 DEF TypeInv, TypeOK, HandInv
<1>18. CASE UNCHANGED vars
  BY <1>18 DEF vars, TypeInv, TypeOK, HandInv
<1> QED
  BY <1>1, <1>2, <1>3, <1>4, <1>5, <1>6, <1>7, <1>8, <1>9, <1>10, <1>11,
     <1>12, <1>13, <1>14, <1>15, <1>16, <1>17, <1>18 DEF Next, Loop

(* Every reachable state has its type: in particular the channels never    *)
(* hold more than queueBufferSize requests, and a loop that enters Execute *)
(* holds a request.                                                        *)
THEOREM TypeCorrect == Spec => []TypeOK
<1>1. Spec => []TypeInv
  BY InitType, NextType, PTL DEF Spec
<1>2. TypeInv => TypeOK
  BY DEF TypeInv
<1> QED
  BY <1>1, <1>2, PTL

-----------------------------------------------------------------------------
(* Pacing                                                                  *)

(* lastCall is the last slot.  The first slot has no predecessor, so the   *)
(* value NewLimiter leaves in lastCall is not one of them.                 *)
SlotInv ==
  /\ \A i \in 1..Len(slots) : slots[i] <= now
  /\ Len(slots) > 0 => lastCall = slots[Len(slots)]
  /\ SlotSpacing

Owes(q) == IF owed[q] THEN 1 ELSE 0

(* Each loop owes at most one start; the k-th start is not earlier than    *)
(* the k-th slot and not later than the (k+2)-th.                          *)
StartInv ==
  /\ \A q \in Queues : /\ pc[q] = "slot" => owed[q] \/ cancelled
                       /\ owed[q] => pc[q] \in {"slot", "exited"}
  /\ Len(slots) = Len(starts) + Owes("request") + Owes("sync")
  /\ \A k \in 1..Len(starts) : starts[k] <= now
  /\ \A k \in 1..Len(starts) : slots[k] <= starts[k]
  /\ \A k \in 1..Len(starts) : k + 2 <= Len(slots) => starts[k] <= slots[k + 2]

PacingInv == TypeInv /\ SlotInv /\ StartInv

LEMMA Distribute ==
  ASSUME NEW a \in Int, NEW b \in Int
  PROVE  (a + 1) * b = a * b + b
  OBVIOUS

(* A slot at least one rate after the last one keeps all slots spaced.     *)
LEMMA AppendSlot ==
  ASSUME NEW s \in Seq(Int), NEW t \in Int,
         \A i, j \in 1..Len(s) : i < j => s[j] - s[i] >= (j - i) * Rate,
         Len(s) > 0 => t - s[Len(s)] >= Rate
  PROVE  \A i, j \in 1..Len(Append(s, t)) :
            i < j => Append(s, t)[j] - Append(s, t)[i] >= (j - i) * Rate
<1> DEFINE u == Append(s, t)
           n == Len(s)
<1>1. /\ n \in Nat /\ Len(u) = n + 1 /\ u[n + 1] = t
      /\ \A i \in 1..n : u[i] = s[i] /\ s[i] \in Int
  BY AppendProperties, LenProperties, ElementOfSeq
<1> SUFFICES ASSUME NEW i \in 1..Len(u), NEW j \in 1..Len(u), i < j
             PROVE  u[j] - u[i] >= (j - i) * Rate
  OBVIOUS
<1> HIDE DEF u
<1> USE RateAssumption
<1>2. CASE j <= n
  <2>1. i \in 1..n /\ j \in 1..n
    BY <1>1, <1>2
  <2>2. s[j] - s[i] >= (j - i) * Rate
    BY <2>1
  <2> QED
    BY <1>1, <2>1, <2>2
<1>3. CASE j = n + 1
  <2>1. i \in 1..n /\ n \in 1..n
    BY <1>1, <1>3
  <2>2. CASE i = n
    <3>1. (j - i) * Rate = Rate
      <4>1. j - i = 1
        BY <1>1, <1>3, <2>2
      <4> QED
        BY <4>1
    <3> QED
      BY <1>1, <1>3, <2>1, <2>2, <3>1
  <2>3. CASE i < n
    <3>1. s[n] - s[i] >= (n - i) * Rate
      BY <2>1, <2>3
    <3>2. (j - i) * Rate = (n - i) * Rate + Rate
      <4>1. j - i = (n - i) + 1 /\ n - i \in Int
        BY <1>1, <1>3, <2>1
      <4> QED
        BY <4>1, Distribute
    <3>3. (n - i) * Rate \in Int
      BY <1>1, <2>1
    <3> QED
      BY <1>1, <1>3, <2>1, <3>1, <3>2, <3>3
  <2> QED
    BY <1>1, <2>1, <2>2, <2>3
<1> QED
  BY <1>1, <1>2, <1>3

LEMMA InitPacing == Init => SlotInv /\ StartInv
<1> SUFFICES ASSUME Init PROVE SlotInv /\ StartInv
  OBVIOUS
<1>1. Len(slots) = 0 /\ Len(starts) = 0
  BY DEF Init
<1>2. ~owed["request"] /\ ~owed["sync"] /\ \A q \in Queues : pc[q] = "select" /\ ~owed[q]
  BY DEF Init, Queues
<1> QED
  BY <1>1, <1>2 DEF SlotInv, StartInv, SlotSpacing, Owes

(* Only WaitGrant appends a slot and only Execute appends a start.         *)
LEMMA NextPacing == PacingInv /\ [Next]_vars => SlotInv' /\ StartInv'
<1> SUFFICES ASSUME PacingInv, [Next]_vars PROVE SlotInv' /\ StartInv'
  OBVIOUS
<1> USE DEF limiterVars, callerVars, statVars, counters
<1>0. /\ slots \in Seq(Int) /\ starts \in Seq(Int) /\ now \in Int /\ lastCall \in Int
      /\ Len(slots) \in Nat /\ Len(starts) \in Nat
      /\ \A i \in 1..Len(slots) : slots[i] \in Int
      /\ \A i \in 1..Len(starts) : starts[i] \in Int
      /\ pc \in [Queues -> PCs] /\ owed \in [Queues -> BOOLEAN]
      /\ "request" \in Queues /\ "sync" \in Queues
      /\ Owes("request") \in 0..1 /\ Owes("sync") \in 0..1
  <2>1. /\ slots \in Seq(Int) /\ starts \in Seq(Int) /\ now \in Int /\ lastCall \in Int
        /\ pc \in [Queues -> PCs] /\ owed \in [Queues -> BOOLEAN]
    BY DEF PacingInv, TypeInv, TypeOK
  <2>2. /\ Len(slots) \in Nat /\ Len(starts) \in Nat
        /\ \A i \in 1..Len(slots) : slots[i] \in Int
        /\ \A i \in 1..Len(starts) : starts[i] \in Int
    BY <2>1, LenProperties, ElementOfSeq
  <2> QED
    BY <2>1, <2>2 DEF Queues, Owes
(* A loop that leaves "slot" or enters it without reserving.               *)
<1>A. ASSUME UNCHANGED <<now, lastCall, slots, starts>> PROVE SlotInv'
  BY <1>A DEF PacingInv, SlotInv, SlotSpacing
<1>B. ASSUME UNCHANGED <<lastCall, slots, starts, owed, now>>, cancelled' = cancelled \/ cancelled',
             \A q \in Queues : pc'[q] = "slot" => pc[q] = "slot" \/ cancelled',
             \A q \in Queues : pc[q] \in {"slot", "exited"} => pc'[q] \in {"slot", "exited"},
             cancelled => cancelled'
      PROVE  StartInv'
  <2>1. \A q \in Queues : /\ pc'[q] = "slot" => owed'[q] \/ cancelled'
                          /\ owed'[q] => pc'[q] \in {"slot", "exited"}
    BY <1>B DEF PacingInv, StartInv
  <2> QED
    BY <1>B, <2>1 DEF PacingInv, StartInv, Owes
<1>1. CASE Tick
  <2>1. now' = now + 1 /\ UNCHANGED <<lastCall, slots, starts, owed, pc, cancelled>>
    BY <1>1 DEF Tick
  <2>2. /\ \A i \in 1..Len(slots) : slots[i] <= now'
        /\ \A i \in 1..Len(starts) : starts[i] <= now'
    BY <1>0, <2>1 DEF PacingInv, SlotInv, StartInv
  <2> QED
    BY <2>1, <2>2 DEF PacingInv, SlotInv, StartInv, SlotSpacing, Owes
<1>2. CASE Cancel
  BY <1>2, <1>A, <1>B DEF Cancel
<1>3. ASSUME NEW r \in Requests, Enqueue(r) PROVE SlotInv' /\ StartInv'
  BY <1>3, <1>A, <1>B DEF Enqueue
<1>4. ASSUME NEW q \in Queues, Exit(q) PROVE SlotInv' /\ StartInv'
  BY <1>0, <1>4, <1>A, <1>B DEF Exit, Goto
<1>5. ASSUME NEW q \in Queues, Receive(q) PROVE SlotInv' /\ StartInv'
  BY <1>0, <1>5, <1>A, <1>B DEF Receive, Goto
<1>6. ASSUME NEW q \in Queues, WaitGrant(q) PROVE SlotInv' /\ StartInv'
  <2> DEFINE n == Len(slots)
  <2>1. /\ slots' = Append(slots, now) /\ lastCall' = now /\ now - lastCall >= Rate
        /\ UNCHANGED <<now, starts, cancelled>> /\ pc[q] = "wait"
        /\ owed' = [owed EXCEPT ![q] = TRUE] /\ pc' = [pc EXCEPT ![q] = "slot"]
    BY <1>6 DEF WaitGrant, Reserve, Goto
  <2>2. /\ Len(slots') = n + 1 /\ slots'[n + 1] = now
        /\ \A i \in 1..n : slots'[i] = slots[i]
    BY <1>0, <2>1, AppendProperties
  <2>3. SlotInv'
    <3>1. SlotSpacing'
      <4>1. Len(slots) > 0 => now - slots[Len(slots)] >= Rate
        BY <2>1 DEF PacingInv, SlotInv
      <4>2. \A i, j \in 1..Len(slots) : i < j => slots[j] - slots[i] >= (j - i) * Rate
        BY DEF PacingInv, SlotInv, SlotSpacing
      <4> QED
        BY <1>0, <2>1, <4>1, <4>2, AppendSlot DEF SlotSpacing
    <3>2. \A i \in 1..Len(slots') : slots'[i] <= now'
      BY <1>0, <2>1, <2>2 DEF PacingInv, SlotInv
    <3> QED
      BY <2>1, <2>2, <3>1, <3>2 DEF SlotInv
  <2>4. ~owed[q] /\ owed'[q] /\ \A p \in Queues \ {q} : owed'[p] = owed[p]
    BY <1>0, <2>1 DEF PacingInv, StartInv
  <2>5. Len(slots') = Len(starts') + Owes("request")' + Owes("sync")'
    <3>1. Len(slots) = Len(starts) + Owes("request") + Owes("sync") /\ q \in {"request", "sync"}
      BY DEF PacingInv, StartInv, Queues
    <3>2. Owes(q) = 0 /\ Owes(q)' = 1 /\ \A p \in Queues \ {q} : Owes(p)' = Owes(p)
      BY <2>4 DEF Owes
    <3>3. CASE q = "request"
      BY <1>0, <2>1, <2>2, <3>1, <3>2, <3>3
    <3>4. CASE q = "sync"
      BY <1>0, <2>1, <2>2, <3>1, <3>2, <3>4
    <3> QED
      BY <3>1, <3>3, <3>4
  <2>6. \A k \in 1..Len(starts) : /\ starts[k] <= now
                                  /\ k <= n
                                  /\ slots[k] <= starts[k]
                                  /\ k + 2 <= n => starts[k] <= slots[k + 2]
    BY <1>0 DEF PacingInv, StartInv
  <2>7. \A k \in 1..Len(starts) : /\ slots'[k] <= starts[k]
                                  /\ k + 2 <= n + 1 => starts[k] <= slots'[k + 2]
    <3> SUFFICES ASSUME NEW k \in 1..Len(starts)
                 PROVE  /\ slots'[k] <= starts[k]
                        /\ k + 2 <= n + 1 => starts[k] <= slots'[k + 2]
      OBVIOUS
    <3>1. slots'[k] <= starts[k]
      BY <1>0, <2>2, <2>6
    <3>2. CASE k + 2 <= n
      BY <1>0, <2>2, <2>6, <3>1, <3>2
    <3>3. CASE k + 2 = n + 1
      BY <1>0, <2>2, <2>6, <3>1, <3>3
    <3> QED
      BY <1>0, <3>1, <3>2, <3>3
  <2>8. \A p \in Queues : /\ pc'[p] = "slot" => owed'[p] \/ cancelled'
                          /\ owed'[p] => pc'[p] \in {"slot", "exited"}
    BY <1>0, <2>1, <2>4 DEF PacingInv, StartInv
  <2> QED
    BY <2>1, <2>2, <2>3, <2>5, <2>6, <2>7, <2>8 DEF StartInv
<1>7. ASSUME NEW q \in Queues, WaitSleep(q) PROVE SlotInv' /\ StartInv'
  BY <1>0, <1>7, <1>A, <1>B DEF WaitSleep, Goto
<1>8. ASSUME NEW q \in Queues, Wake(q) PROVE SlotInv' /\ StartInv'
  BY <1>0, <1>8, <1>A, <1>B DEF Wake, Goto
<1>9. ASSUME NEW q \in Queues, WaitCancelled(q) PROVE SlotInv' /\ StartInv'
  BY <1>0, <1>9, <1>A, <1>B DEF WaitCancelled, Goto
<1>10. ASSUME NEW q \in Queues, Drop(q) PROVE SlotInv' /\ StartInv'
  BY <1>0, <1>10, <1>A, <1>B DEF Drop, Goto
<1>11. ASSUME NEW q \in Queues, Execute(q) PROVE SlotInv' /\ StartInv'
  <2> DEFINE m == Len(starts)
  <2>1. /\ starts' = Append(starts, now) /\ UNCHANGED <<now, lastCall, slots, cancelled>>
        /\ pc[q] = "slot" /\ ~cancelled
        /\ owed' = [owed EXCEPT ![q] = FALSE] /\ pc' = [pc EXCEPT ![q] = "call"]
    BY <1>11 DEF Execute, Goto
  <2>2. SlotInv'
    BY <2>1 DEF PacingInv, SlotInv, SlotSpacing
  <2>3. Len(starts') = m + 1 /\ starts'[m + 1] = now /\ \A i \in 1..m : starts'[i] = starts[i]
    BY <1>0, <2>1, AppendProperties
  <2>4. owed[q] /\ ~owed'[q] /\ \A p \in Queues \ {q} : owed'[p] = owed[p]
    BY <1>0, <2>1 DEF PacingInv, StartInv
  <2>5. Len(slots') = Len(starts') + Owes("request")' + Owes("sync")'
    <3>1. Len(slots) = Len(starts) + Owes("request") + Owes("sync") /\ q \in {"request", "sync"}
      BY DEF PacingInv, StartInv, Queues
    <3>2. Owes(q) = 1 /\ Owes(q)' = 0 /\ \A p \in Queues \ {q} : Owes(p)' = Owes(p)
      BY <2>4 DEF Owes
    <3>3. CASE q = "request"
      BY <1>0, <2>1, <2>3, <3>1, <3>2, <3>3
    <3>4. CASE q = "sync"
      BY <1>0, <2>1, <2>3, <3>1, <3>2, <3>4
    <3> QED
      BY <3>1, <3>3, <3>4
  <2>6. Len(slots) \in m + 1 .. m + 2
    <3>1. Len(slots) = m + Owes("request") + Owes("sync") /\ q \in {"request", "sync"}
      BY DEF PacingInv, StartInv, Queues
    <3>2. Owes(q) = 1
      BY <2>4 DEF Owes
    <3> QED
      BY <1>0, <3>1, <3>2
  <2>7. \A k \in 1..m + 1 : /\ starts'[k] <= now
                            /\ slots[k] <= starts'[k]
                            /\ k + 2 <= Len(slots) => starts'[k] <= slots[k + 2]
    <3>1. \A k \in 1..m : /\ starts'[k] <= now
                          /\ slots[k] <= starts'[k]
                          /\ k + 2 <= Len(slots) => starts'[k] <= slots[k + 2]
      BY <1>0, <2>3 DEF PacingInv, StartInv
    <3>2. slots[m + 1] <= now
      BY <1>0, <2>6 DEF PacingInv, SlotInv
    <3> QED
      <4> SUFFICES ASSUME NEW k \in 1..m + 1
                   PROVE  /\ starts'[k] <= now
                          /\ slots[k] <= starts'[k]
                          /\ k + 2 <= Len(slots) => starts'[k] <= slots[k + 2]
        OBVIOUS
      <4>1. CASE k \in 1..m
        BY <3>1, <4>1
      <4>2. CASE k = m + 1
        BY <1>0, <2>3, <2>6, <3>2, <4>2
      <4> QED
        BY <1>0, <4>1, <4>2
  <2>8. \A p \in Queues : /\ pc'[p] = "slot" => owed'[p] \/ cancelled'
                          /\ owed'[p] => pc'[p] \in {"slot", "exited"}
    BY <1>0, <2>1, <2>4 DEF PacingInv, StartInv
  <2> QED
    BY <2>1, <2>2, <2>3, <2>5, <2>7, <2>8 DEF StartInv
<1>12. ASSUME NEW q \in Queues, HTTPCall(q) PROVE SlotInv' /\ StartInv'
  BY <1>0, <1>12, <1>A, <1>B DEF HTTPCall, Call, Reply, Goto
<1>13. ASSUME NEW q \in Queues, HTTP429(q) PROVE SlotInv' /\ StartInv'
  BY <1>0, <1>13, <1>A, <1>B DEF HTTP429, Call, Goto
<1>14. ASSUME NEW q \in Queues, Mark1(q) PROVE SlotInv' /\ StartInv'
  BY <1>0, <1>14, <1>A, <1>B DEF Mark1, Record429, Goto
<1>15. ASSUME NEW q \in Queues, Mark2(q) PROVE SlotInv' /\ StartInv'
  BY <1>0, <1>15, <1>A, <1>B DEF Mark2, Record429, Reply, Goto
<1>16. ASSUME NEW q \in Queues, Account(q) PROVE SlotInv' /\ StartInv'
  BY <1>0, <1>16, <1>A, <1>B DEF Account, Goto
<1>17. CASE UserInfo
  BY <1>17, <1>A, <1>B DEF UserInfo, UserInfo429, UserInfoMark1, UserInfoMark2, Record429
<1>18. CASE UNCHANGED vars
  BY <1>18, <1>A, <1>B DEF vars
<1> QED
  BY <1>1, <1>2, <1>3, <1>4, <1>5, <1>6, <1>7, <1>8, <1>9, <1>10, <1>11,
     <1>12, <1>13, <1>14, <1>15, <1>16, <1>17, <1>18 DEF Next, Loop

LEMMA PacingInvariant == Spec => []PacingInv
<1>1. Init => PacingInv
  BY InitType, InitPacing DEF PacingInv
<1>2. PacingInv /\ [Next]_vars => PacingInv'
  BY NextType, NextPacing DEF PacingInv
<1> QED
  BY <1>1, <1>2, PTL DEF Spec

(* For any rate and any traffic on both queues, the j-th slot the shared   *)
(* limiter hands out lies at least (j - i) rates after the i-th.           *)
THEOREM SlotsAreSpaced == Spec => []SlotSpacing
<1>1. PacingInv => SlotSpacing
  BY DEF PacingInv, SlotInv
<1> QED
  BY <1>1, PacingInvariant, PTL

(* Preemption between a slot and Execute costs at most two slots over any  *)
(* stretch of starts, however long.                                        *)
THEOREM StartsAreSpaced == Spec => []StartSpacing
<1>1. PacingInv => StartSpacing
  <2> SUFFICES ASSUME PacingInv, NEW i \in 1..Len(starts), NEW j \in 1..Len(starts),
                      i + 2 < j
               PROVE  starts[j] - starts[i] >= (j - i - 2) * Rate
    BY DEF StartSpacing
  <2>1. /\ slots \in Seq(Int) /\ starts \in Seq(Int)
        /\ Len(slots) \in Nat /\ Len(starts) \in Nat
        /\ \A k \in 1..Len(slots) : slots[k] \in Int
        /\ \A k \in 1..Len(starts) : starts[k] \in Int
        /\ Owes("request") \in 0..1 /\ Owes("sync") \in 0..1
    BY LenProperties, ElementOfSeq DEF PacingInv, TypeInv, TypeOK, Owes
  <2>2. Len(starts) <= Len(slots)
    BY <2>1 DEF PacingInv, StartInv
  <2>3. i + 2 \in 1..Len(slots) /\ j \in 1..Len(slots)
    BY <2>1, <2>2
  <2>4. slots[j] - slots[i + 2] >= (j - (i + 2)) * Rate
    BY <2>3 DEF PacingInv, SlotInv, SlotSpacing
  <2>5. slots[j] <= starts[j] /\ starts[i] <= slots[i + 2]
    BY <2>3 DEF PacingInv, StartInv
  <2>6. (j - (i + 2)) * Rate = (j - i - 2) * Rate /\ (j - i - 2) * Rate \in Int
    <3>1. j - (i + 2) = j - i - 2 /\ j - i - 2 \in Int
      OBVIOUS
    <3> QED
      BY <3>1, RateAssumption
  <2>7. /\ slots[j] \in Int /\ slots[i + 2] \in Int
        /\ starts[j] \in Int /\ starts[i] \in Int
    BY <2>1, <2>3
  <2> DEFINE d == (j - i - 2) * Rate
  <2>8. d \in Int /\ slots[j] - slots[i + 2] >= d
    BY <2>4, <2>6
  <2> HIDE DEF d
  <2>9. starts[j] - starts[i] >= d
    BY <2>5, <2>7, <2>8
  <2> QED
    BY <2>9 DEF d
<1> QED
  BY <1>1, PacingInvariant, PTL

-----------------------------------------------------------------------------
(* Order                                                                   *)

OrderInv(q) == executed[q] \o InHand(q) \o items[q] = sent[q]

(* What a loop has in hand is a sequence of one request or none.           *)
LEMMA InHandType ==
  ASSUME TypeInv, NEW q \in Queues
  PROVE  /\ InHand(q) \in Seq(Requests)
         /\ executed[q] \in Seq(Requests) /\ items[q] \in Seq(Requests)
<1>1. cur[q] \in Requests => <<cur[q]>> \in Seq(Requests)
  OBVIOUS
<1>2. << >> \in Seq(Requests)
  BY EmptySeq
<1>3. /\ pc[q] \in {"wait", "sleep", "slot"} => cur[q] \in Requests
      /\ cur[q] # None => cur[q] \in Requests
  BY DEF TypeInv, TypeOK, HandInv
<1> QED
  BY <1>1, <1>2, <1>3 DEF InHand, TypeInv, TypeOK

(* Three ways in which a request moves on; the sequence of all stays.      *)
LEMMA OrderAppends ==
  ASSUME NEW e \in Seq(Requests), NEW i \in Seq(Requests), NEW h \in Seq(Requests),
         NEW r \in Requests
  PROVE  e \o h \o Append(i, r) = Append(e \o h \o i, r)
<1>1. e \o h \in Seq(Requests) /\ (e \o h) \o i \in Seq(Requests) /\ <<r>> \in Seq(Requests)
  BY ConcatProperties
<1>2. Append(i, r) = i \o <<r>> /\ Append(e \o h \o i, r) = ((e \o h) \o i) \o <<r>>
  BY <1>1, AppendIsConcat
<1> QED
  BY <1>1, <1>2, ConcatAssociative

LEMMA OrderReceives ==
  ASSUME NEW e \in Seq(Requests), NEW i \in Seq(Requests), i # << >>
  PROVE  e \o <<Head(i)>> \o Tail(i) = e \o << >> \o i
<1>1. Head(i) \in Requests /\ Tail(i) \in Seq(Requests) /\ <<Head(i)>> \in Seq(Requests)
  BY HeadTailProperties
<1>2. <<Head(i)>> \o Tail(i) = i
  <2> DEFINE j == <<Head(i)>> \o Tail(i)
  <2>1. Len(i) \in Nat \ {0} /\ i[1] = Head(i)
    BY EmptySeq
  <2>2. /\ j \in Seq(Requests) /\ Len(j) = 1 + Len(Tail(i)) /\ Len(Tail(i)) = Len(i) - 1
        /\ \A k \in 1..1 + Len(Tail(i)) :
             j[k] = IF k <= 1 THEN <<Head(i)>>[k] ELSE Tail(i)[k - 1]
        /\ \A k \in 1..Len(Tail(i)) : Tail(i)[k] = i[k + 1]
    BY <1>1, ConcatProperties, HeadTailProperties
  <2> HIDE DEF j
  <2>3. Len(j) = Len(i)
    BY <2>1, <2>2
  <2>4. ASSUME NEW k \in 1..Len(j) PROVE j[k] = i[k]
    <3>1. CASE k = 1
      <4>1. 1 \in 1..1 + Len(Tail(i)) /\ <<Head(i)>>[1] = Head(i)
        BY <2>1, <2>2
      <4>2. j[1] = <<Head(i)>>[1]
        BY <2>2, <4>1
      <4> QED
        BY <2>1, <3>1, <4>1, <4>2
    <3>2. CASE k > 1
      <4>1. k - 1 \in 1..Len(Tail(i)) /\ k \in 1..1 + Len(Tail(i))
        BY <2>1, <2>2, <2>3, <3>2
      <4>2. j[k] = Tail(i)[k - 1]
        BY <2>2, <3>2, <4>1
      <4>3. Tail(i)[k - 1] = i[(k - 1) + 1]
        BY <2>2, <4>1
      <4>4. (k - 1) + 1 = k
        BY <2>1, <2>3
      <4> QED
        BY <4>2, <4>3, <4>4
    <3> QED
      BY <3>1, <3>2
  <2>5. j = i
    BY <2>2, <2>3, <2>4, SeqEqual
  <2> QED
    BY <2>5 DEF j
<1>3. e \o << >> = e
  BY ConcatEmptySeq
<1> QED
  BY <1>1, <1>2, <1>3, ConcatAssociative

LEMMA OrderExecutes ==
  ASSUME NEW e \in Seq(Requests), NEW i \in Seq(Requests), NEW r \in Requests
  PROVE  Append(e, r) \o << >> \o i = e \o <<r>> \o i
<1>1. Append(e, r) \in Seq(Requests) /\ Append(e, r) = e \o <<r>>
  BY AppendProperties, AppendIsConcat
<1> QED
  BY <1>1, ConcatEmptySeq

LEMMA NextOrder == TypeInv /\ ExecutedInOrder /\ [Next]_vars => ExecutedInOrder'
<1> SUFFICES ASSUME TypeInv, ExecutedInOrder, [Next]_vars PROVE ExecutedInOrder'
  OBVIOUS
<1> USE DEF limiterVars, callerVars, statVars, counters
<1>0. /\ pc \in [Queues -> PCs] /\ cur \in [Queues -> Requests \cup {None}]
      /\ items \in [Queues -> Seq(Requests)] /\ executed \in [Queues -> Seq(Requests)]
      /\ sent \in [Queues -> Seq(Requests)]
      /\ \A q \in Queues : OrderInv(q)
  BY DEF TypeInv, TypeOK, ExecutedInOrder, OrderInv
<1>A. ASSUME UNCHANGED <<executed, items, sent, cur>>,
             \A q \in Queues : InHand(q)' = InHand(q)
      PROVE  ExecutedInOrder'
  BY <1>0, <1>A DEF ExecutedInOrder, OrderInv
<1>B. ASSUME NEW q \in Queues, OrderInv(q)',
             \A p \in Queues \ {q} :
               /\ executed'[p] = executed[p] /\ items'[p] = items[p] /\ sent'[p] = sent[p]
               /\ InHand(p)' = InHand(p)
      PROVE  ExecutedInOrder'
  BY <1>0, <1>B DEF ExecutedInOrder, OrderInv
<1>1. CASE Tick
  BY <1>1, <1>A DEF Tick, InHand
<1>2. CASE Cancel
  BY <1>2, <1>A DEF Cancel, InHand
<1>3. ASSUME NEW r \in Requests, Enqueue(r) PROVE ExecutedInOrder'
  <2> DEFINE p == QueueOf[r]
  <2>1. p \in Queues
    BY RequestsAssumption
  <2>2. /\ items' = [items EXCEPT ![p] = Append(items[p], r)]
        /\ sent' = [sent EXCEPT ![p] = Append(sent[p], r)]
        /\ UNCHANGED <<executed, pc, cur>>
    BY <1>3 DEF Enqueue
  <2> HIDE DEF p
  <2>3. OrderInv(p)'
    <3>1. items'[p] = Append(items[p], r) /\ sent'[p] = Append(sent[p], r)
      BY <1>0, <2>1, <2>2
    <3>2. /\ InHand(p) \in Seq(Requests)
          /\ executed[p] \in Seq(Requests) /\ items[p] \in Seq(Requests)
      BY <1>0, <2>1, InHandType
    <3>3. executed[p] \o InHand(p) \o items[p] = sent[p]
      BY <1>0, <2>1 DEF OrderInv
    <3>4. executed[p] \o InHand(p) \o Append(items[p], r)
            = Append(executed[p] \o InHand(p) \o items[p], r)
      BY <3>2, OrderAppends
    <3>5. executed'[p] \o InHand(p)' \o items'[p] = executed[p] \o InHand(p) \o Append(items[p], r)
      BY <2>2, <3>1 DEF InHand
    <3> QED
      BY Zenon, <3>1, <3>3, <3>4, <3>5 DEF OrderInv
  <2> QED
    BY <1>0, <1>B, <2>1, <2>2, <2>3 DEF InHand
<1>4. ASSUME NEW q \in Queues, Exit(q) PROVE ExecutedInOrder'
  BY <1>0, <1>4, <1>A DEF Exit, Goto, InHand, TypeInv, HandInv
<1>5. ASSUME NEW q \in Queues, Receive(q) PROVE ExecutedInOrder'
  <2>1. /\ items[q] # << >> /\ pc[q] = "select" /\ cur[q] = None
        /\ items' = [items EXCEPT ![q] = Tail(items[q])]
        /\ cur' = [cur EXCEPT ![q] = Head(items[q])] /\ pc' = [pc EXCEPT ![q] = "wait"]
        /\ UNCHANGED <<executed, sent>>
    BY <1>5 DEF Receive, Goto, TypeInv, HandInv
  <2>2. InHand(q) = << >> /\ InHand(q)' = <<Head(items[q])>>
    BY <1>0, <2>1 DEF InHand
  <2>3. OrderInv(q)'
    <3>1. items'[q] = Tail(items[q])
      BY <1>0, <2>1
    <3>2. executed[q] \o << >> \o items[q] = sent[q]
      BY <1>0, <2>2 DEF OrderInv
    <3>3. executed[q] \o <<Head(items[q])>> \o Tail(items[q]) = sent[q]
      BY <1>0, <2>1, <3>2, OrderReceives
    <3> QED
      BY <2>1, <2>2, <3>1, <3>3 DEF OrderInv
  <2> QED
    BY <1>0, <1>B, <2>1, <2>3 DEF InHand
<1>6. ASSUME NEW q \in Queues, WaitGrant(q) \/ WaitSleep(q) \/ Wake(q) \/ WaitCancelled(q)
      PROVE  ExecutedInOrder'
  BY <1>0, <1>6, <1>A DEF WaitGrant, WaitSleep, Wake, WaitCancelled, Goto, InHand
<1>7. ASSUME NEW q \in Queues, Drop(q) PROVE ExecutedInOrder'
  BY <1>0, <1>7, <1>A, NoneAssumption DEF Drop, Goto, InHand, TypeInv, HandInv
<1>8. ASSUME NEW q \in Queues, Execute(q) PROVE ExecutedInOrder'
  <2>1. /\ pc[q] = "slot" /\ cur[q] \in Requests
        /\ executed' = [executed EXCEPT ![q] = Append(executed[q], cur[q])]
        /\ pc' = [pc EXCEPT ![q] = "call"]
        /\ UNCHANGED <<items, sent, cur>>
    BY <1>8 DEF Execute, Goto, TypeInv, HandInv
  <2>2. InHand(q) = <<cur[q]>> /\ InHand(q)' = << >>
    BY <1>0, <2>1 DEF InHand
  <2>3. OrderInv(q)'
    <3>1. executed'[q] = Append(executed[q], cur[q])
      BY <1>0, <2>1
    <3>2. executed[q] \o <<cur[q]>> \o items[q] = sent[q]
      BY <1>0, <2>2 DEF OrderInv
    <3>3. Append(executed[q], cur[q]) \o << >> \o items[q] = sent[q]
      BY <1>0, <2>1, <3>2, OrderExecutes
    <3> QED
      BY <2>1, <2>2, <3>1, <3>3 DEF OrderInv
  <2> QED
    BY <1>0, <1>B, <2>1, <2>3 DEF InHand
<1>9. ASSUME NEW q \in Queues, HTTPCall(q) \/ HTTP429(q) \/ Mark1(q) \/ Mark2(q)
      PROVE  ExecutedInOrder'
  BY <1>0, <1>9, <1>A DEF HTTPCall, HTTP429, Mark1, Mark2, Call, Record429, Reply, Goto, InHand
<1>10. ASSUME NEW q \in Queues, Account(q) PROVE ExecutedInOrder'
  <2>1. InHand(q) = << >> /\ InHand(q)' = << >>
    BY <1>0, <1>10 DEF Account, Goto, InHand
  <2>2. \A p \in Queues \ {q} : InHand(p)' = InHand(p)
    BY <1>0, <1>10 DEF Account, Goto, InHand
  <2> QED
    BY <1>0, <1>10, <1>B, <2>1, <2>2 DEF Account, OrderInv
<1>11. CASE UserInfo
  BY <1>11, <1>A
  DEF UserInfo, UserInfo429, UserInfoMark1, UserInfoMark2, Record429, InHand
<1>12. CASE UNCHANGED vars
  BY <1>12, <1>A DEF vars, InHand
<1> QED
  BY <1>1, <1>2, <1>3, <1>4, <1>5, <1>6, <1>7, <1>8, <1>9, <1>10, <1>11, <1>12 DEF Next, Loop

(* Requests are executed once each and in the order of the channel, and    *)
(* those not executed are in hand, in the channel or were dropped on       *)
(* cancellation, whatever the other queue does.                            *)
THEOREM RequestsInOrder == Spec => []ExecutedInOrder
<1>1. Init => ExecutedInOrder
  <2> SUFFICES ASSUME Init, NEW q \in Queues PROVE OrderInv(q)
    BY DEF ExecutedInOrder, OrderInv
  <2>1. executed[q] = << >> /\ InHand(q) = << >> /\ items[q] = << >> /\ sent[q] = << >>
    BY DEF Init, InHand
  <2> QED
    BY <2>1, EmptySeq, ConcatEmptySeq DEF OrderInv
<1>2. Spec => []TypeInv
  BY InitType, NextType, PTL DEF Spec
<1> QED
  BY <1>1, <1>2, NextOrder, PTL DEF Spec

-----------------------------------------------------------------------------
(* The 429 counters                                                        *)

(* Whether the loop of q stands at a label, as a number.                   *)
At(q, label) == IF pc[q] = label THEN 1 ELSE 0

InfoAt(label) == IF userInfo = label THEN 1 ELSE 0

(* A 429 is on the request queue's counter once its callback passed        *)
(* "mark1" and on the sync queue's once it passed "mark2".                 *)
Count429Inv ==
  LET unmarked == At("request", "mark1") + At("sync", "mark1") + InfoAt("mark1") IN
  /\ http429Calls["request"] = got429 - unmarked
  /\ http429Calls["sync"] =
       got429 - unmarked - At("request", "mark2") - At("sync", "mark2") - InfoAt("mark2")

LEMMA MarkingCount ==
  Cardinality({q \in Queues : pc[q] = "mark1"}) = At("request", "mark1") + At("sync", "mark1")
<1> DEFINE S == {q \in Queues : pc[q] = "mark1"}
<1>1. CASE pc["request"] # "mark1" /\ pc["sync"] # "mark1"
  <2>1. S = {}
    BY <1>1 DEF Queues
  <2> QED
    BY <1>1, <2>1, FS_EmptySet DEF At
<1>2. CASE pc["request"] = "mark1" /\ pc["sync"] # "mark1"
  <2>1. S = {"request"}
    BY <1>2 DEF Queues
  <2>2. Cardinality({"request"}) = 1
    BY FS_Singleton
  <2> HIDE DEF S
  <2>3. Cardinality(S) = At("request", "mark1") + At("sync", "mark1")
    BY <1>2, <2>1, <2>2 DEF At
  <2> QED
    BY <2>3 DEF S
<1>3. CASE pc["request"] # "mark1" /\ pc["sync"] = "mark1"
  <2>1. S = {"sync"}
    BY <1>3 DEF Queues
  <2>2. Cardinality({"sync"}) = 1
    BY FS_Singleton
  <2> HIDE DEF S
  <2>3. Cardinality(S) = At("request", "mark1") + At("sync", "mark1")
    BY <1>3, <2>1, <2>2 DEF At
  <2> QED
    BY <2>3 DEF S
<1>4. CASE pc["request"] = "mark1" /\ pc["sync"] = "mark1"
  <2>1. S = {"request"} \cup {"sync"} /\ "sync" \notin {"request"}
    BY <1>4 DEF Queues
  <2>2. IsFiniteSet({"request"}) /\ Cardinality({"request"}) = 1
    BY FS_Singleton
  <2>3. Cardinality({"request"} \cup {"sync"}) = Cardinality({"request"}) + 1
    BY <2>1, <2>2, FS_AddElement
  <2> QED
    BY <1>4, <2>1, <2>2, <2>3 DEF At
<1> QED
  BY <1>1, <1>2, <1>3, <1>4

LEMMA NextCount429 == TypeInv /\ Count429Inv /\ [Next]_vars => Count429Inv'
<1> SUFFICES ASSUME TypeInv, Count429Inv, [Next]_vars PROVE Count429Inv'
  OBVIOUS
<1> USE DEF limiterVars, callerVars, statVars, counters, Count429Inv, At, InfoAt
<1>0. /\ pc \in [Queues -> PCs] /\ http429Calls \in [Queues -> Nat] /\ got429 \in Nat
      /\ "request" \in Queues /\ "sync" \in Queues
      /\ \A q \in Queues : q = "request" \/ q = "sync"
  BY DEF TypeInv, TypeOK, Queues
<1>1. ASSUME UNCHANGED <<http429Calls, got429, userInfo, pc>> PROVE Count429Inv'
  BY <1>1
<1>2. ASSUME NEW q \in Queues, NEW l \in PCs \ {"mark1", "mark2"}, Goto(q, l),
             pc[q] \notin {"mark1", "mark2"}, UNCHANGED <<http429Calls, got429, userInfo>>
      PROVE  Count429Inv'
  BY <1>0, <1>2 DEF Goto
<1>3. CASE Tick \/ Cancel \/ \E r \in Requests : Enqueue(r)
  BY <1>1, <1>3 DEF Tick, Cancel, Enqueue
<1>4. ASSUME NEW q \in Queues,
             \/ Exit(q) \/ Receive(q) \/ WaitGrant(q) \/ WaitSleep(q) \/ Wake(q)
             \/ WaitCancelled(q) \/ Drop(q) \/ Execute(q) \/ Account(q)
      PROVE  Count429Inv'
  <2>1. PICK l \in PCs \ {"mark1", "mark2"} : Goto(q, l)
    BY <1>4 DEF Exit, Receive, WaitGrant, WaitSleep, Wake, WaitCancelled, Drop, Execute,
                Account, PCs
  <2>2. pc[q] \notin {"mark1", "mark2"} /\ UNCHANGED <<http429Calls, got429, userInfo>>
    BY <1>4 DEF Exit, Receive, WaitGrant, WaitSleep, Wake, WaitCancelled, Drop, Execute,
                Account
  <2> QED
    BY <1>2, <2>1, <2>2
<1>5. ASSUME NEW q \in Queues, HTTPCall(q) PROVE Count429Inv'
  <2>1. pc[q] = "call" /\ UNCHANGED <<http429Calls, got429, userInfo>>
    BY <1>5 DEF HTTPCall, Call
  <2>2. Goto(q, "account") \/ UNCHANGED pc
    BY <1>5 DEF HTTPCall, Reply
  <2> QED
    BY <1>1, <1>2, <2>1, <2>2 DEF PCs
<1>6. ASSUME NEW q \in Queues, HTTP429(q) PROVE Count429Inv'
  BY <1>0, <1>6 DEF HTTP429, Call, Goto
<1>7. ASSUME NEW q \in Queues, Mark1(q) PROVE Count429Inv'
  BY <1>0, <1>7 DEF Mark1, Record429, Goto
<1>8. ASSUME NEW q \in Queues, Mark2(q) PROVE Count429Inv'
  <2>1. Goto(q, "call") \/ Goto(q, "account")
    BY <1>8 DEF Mark2, Reply
  <2> QED
    BY <1>0, <1>8, <2>1 DEF Mark2, Record429, Goto
<1>9. CASE UserInfo
  <2>1. UNCHANGED pc
    BY <1>9 DEF UserInfo, UserInfo429, UserInfoMark1, UserInfoMark2
  <2>2. CASE UserInfo429
    BY <1>0, <2>1, <2>2 DEF UserInfo429
  <2>3. CASE UserInfoMark1
    BY <1>0, <2>1, <2>3 DEF UserInfoMark1, Record429
  <2>4. CASE UserInfoMark2
    BY <1>0, <2>1, <2>4 DEF UserInfoMark2, Record429
  <2> QED
    BY <1>9, <2>2, <2>3, <2>4 DEF UserInfo
<1>10. CASE UNCHANGED vars
  BY <1>1, <1>10 DEF vars
<1> QED
  BY <1>3, <1>4, <1>5, <1>6, <1>7, <1>8, <1>9, <1>10 DEF Next, Loop

(* The landing page's 429 count never double-counts a response and never   *)
(* loses one: it lags by the responses whose callback has not reached the  *)
(* first queue, however the callbacks of the two loops and of main         *)
(* interleave.                                                             *)
THEOREM Landing429Exact == Spec => []Stats429Exact
<1>1. Init => Count429Inv
  <2> SUFFICES ASSUME Init PROVE Count429Inv
    OBVIOUS
  <2>1. /\ http429Calls["request"] = 0 /\ http429Calls["sync"] = 0 /\ got429 = 0
        /\ pc["request"] = "select" /\ pc["sync"] = "select" /\ userInfo = "asking"
    BY DEF Init, Queues
  <2> QED
    BY <2>1 DEF Count429Inv, At, InfoAt
<1>2. Spec => []TypeInv
  BY InitType, NextType, PTL DEF Spec
<1>3. Spec => []Count429Inv
  BY <1>1, <1>2, NextCount429, PTL DEF Spec
<1>4. TypeInv /\ Count429Inv => Stats429Exact
  <2> SUFFICES ASSUME TypeInv, Count429Inv PROVE Stats429Exact
    OBVIOUS
  <2>1. /\ http429Calls["request"] \in Nat /\ http429Calls["sync"] \in Nat /\ got429 \in Nat
    BY DEF TypeInv, TypeOK, Queues
  <2>2. Stats429 = got429 - (At("request", "mark1") + At("sync", "mark1")) - InfoAt("mark1")
    BY <2>1 DEF Stats429, Count429Inv, At, InfoAt
  <2> QED
    BY <2>2, MarkingCount DEF Stats429Exact, InfoAt
<1> QED
  BY <1>2, <1>3, <1>4, PTL

-----------------------------------------------------------------------------
(* The call window                                                         *)

(* Completion number n of a queue at time t is in the window's history     *)
(* exactly when callWindow has t at the index that number n has now.       *)
Position(q, n) == n - totalCalls[q] + Len(callWindow[q]) + 1

WindowInv ==
  \A q \in Queues :
    /\ Len(callWindow[q]) <= totalCalls[q]
    /\ \A n \in Nat, t \in Int :
         <<n, t>> \in lately[q] <=>
           /\ Position(q, n) \in 1..Len(callWindow[q])
           /\ callWindow[q][Position(q, n)] = t
           /\ t > now - Window

(* Account appends the completion and trims only what has left the window. *)
LEMMA AccountWindow ==
  ASSUME TypeInv, WindowInv, NEW q \in Queues, Account(q)
  PROVE  WindowInv'
<1> DEFINE w == callWindow[q]
           a == Append(w, now)
           k == FrontAt(a, now - Window)
           v == SubSeq(a, k, Len(a))
           m == totalCalls[q]
<1>1. /\ now \in Nat /\ Window \in Nat \ {0} /\ w \in Seq(Int) /\ m \in Nat
      /\ totalCalls \in [Queues -> Nat] /\ callWindow \in [Queues -> Seq(Int)]
      /\ lately \in [Queues -> SUBSET (Nat \X Int)]
  BY TimeAssumption DEF TypeInv, TypeOK
<1>2. /\ totalCalls' = [totalCalls EXCEPT ![q] = m + 1]
      /\ callWindow' = [callWindow EXCEPT ![q] = v]
      /\ lately' = [lately EXCEPT ![q] = lately[q] \cup {<<m, now>>}]
      /\ now' = now
  BY <1>1 DEF Account, Trim
<1>3. /\ a \in Seq(Int) /\ Len(w) \in Nat /\ Len(a) = Len(w) + 1
      /\ \A i \in 1..Len(w) : a[i] = w[i] /\ w[i] \in Int
      /\ a[Len(w) + 1] = now
  BY <1>1, AppendProperties, LenProperties, ElementOfSeq
<1> HIDE DEF a
<1>4. k \in 1..Len(w) + 1 /\ \A j \in 1..k - 1 : a[j] < now - Window
  <2>1. now - Window \in Int
    BY <1>1
  <2>2. k \in 1..Len(a) + 1 /\ \A j \in 1..k - 1 : a[j] < now - Window
    BY <1>3, <2>1, FrontAtProperties
  <2> HIDE DEF k
  <2>3. k # Len(w) + 2
    BY <1>1, <1>3, <2>2
  <2> QED
    BY <1>3, <2>2, <2>3
<1> HIDE DEF k
<1>5. Len(v) = Len(w) + 2 - k /\ \A i \in 1..Len(w) + 2 - k : v[i] = a[k + i - 1]
  <2>1. /\ \A i \in k..Len(a) : a[i] \in Int
        /\ k \in Int /\ Len(a) \in Int /\ k <= Len(a)
    BY <1>1, <1>3, <1>4
  <2>2. /\ Len(v) = IF k <= Len(a) THEN Len(a) - k + 1 ELSE 0
        /\ \A i \in 1..Len(a) - k + 1 : v[i] = a[k + i - 1]
    BY <1>3, <2>1, SubSeqProperties
  <2> QED
    BY <1>3, <2>1, <2>2
<1> HIDE DEF v, w, m
<1>6. ASSUME NEW p \in Queues \ {q}
      PROVE  /\ callWindow'[p] = callWindow[p] /\ totalCalls'[p] = totalCalls[p]
             /\ lately'[p] = lately[p]
  BY <1>1, <1>2
<1>7. callWindow'[q] = v /\ totalCalls'[q] = m + 1 /\ lately'[q] = lately[q] \cup {<<m, now>>}
  BY <1>1, <1>2
<1>8. Len(v) <= m + 1
  <2>1. Len(w) <= m
    BY DEF WindowInv, w, m
  <2> QED
    BY <1>1, <1>3, <1>4, <1>5, <2>1
<1>9. ASSUME NEW n \in Nat, NEW t \in Int
      PROVE  <<n, t>> \in lately[q] \cup {<<m, now>>} <=>
               /\ n - (m + 1) + Len(v) + 1 \in 1..Len(v)
               /\ v[n - (m + 1) + Len(v) + 1] = t
               /\ t > now - Window
  <2> DEFINE i == n - m + Len(w) + 1
  <2>1. <<n, t>> \in lately[q] <=> i \in 1..Len(w) /\ w[i] = t /\ t > now - Window
    BY DEF WindowInv, Position, w, m
  <2>2. n - (m + 1) + Len(v) + 1 = i - k + 1 /\ i \in Int /\ k \in Int
    BY <1>1, <1>3, <1>4, <1>5
  <2>3. <<n, t>> = <<m, now>> <=> i = Len(w) + 1 /\ t = now
    <3>1. /\ <<n, t>>[1] = n /\ <<n, t>>[2] = t
          /\ <<m, now>>[1] = m /\ <<m, now>>[2] = now
      OBVIOUS
    <3>2. n = m <=> i = Len(w) + 1
      <4>1. m \in Int /\ Len(w) \in Int
        BY <1>1, <1>3
      <4> QED
        BY <4>1
    <3>3. <<n, t>> = <<m, now>> => n = m /\ t = now
      BY <3>1
    <3>4. n = m /\ t = now => <<n, t>> = <<m, now>>
      OBVIOUS
    <3> QED
      BY <3>2, <3>3, <3>4
  <2>4. i - k + 1 \in 1..Len(v) <=> i \in k..Len(w) + 1
    <3>1. /\ Len(v) = Len(w) + 2 - k /\ Len(w) \in Int /\ i \in Int /\ k \in Int
      BY <1>3, <1>5, <2>2
    <3> HIDE DEF i
    <3>2. i - k + 1 \in 1..Len(w) + 2 - k <=> i \in k..Len(w) + 1
      BY <3>1
    <3> QED
      BY <3>1, <3>2
  <2>5. i \in k..Len(w) + 1 => v[i - k + 1] = a[i]
    <3> DEFINE x == i - k + 1
    <3>1. x \in Int /\ k + x - 1 = i
      BY <2>2
    <3>2. i \in k..Len(w) + 1 => x \in 1..Len(w) + 2 - k
      <4>1. Len(w) \in Int /\ k \in Int /\ i \in Int
        BY <1>3, <2>2
      <4> HIDE DEF i
      <4> QED
        BY <4>1
    <3> HIDE DEF x
    <3>3. x \in 1..Len(w) + 2 - k => v[x] = a[k + x - 1]
      BY <1>5
    <3>4. i \in k..Len(w) + 1 => v[x] = a[i]
      BY <3>1, <3>2, <3>3
    <3> QED
      BY <3>4 DEF x
  <2> HIDE DEF i
  <2>6. i \in 1..k - 1 => a[i] < now - Window
    BY <1>4
  <2>7. now > now - Window /\ now - Window \in Int
    BY <1>1
  <2>8. CASE i \in 1..Len(w)
    <3>1. a[i] = w[i] /\ i # Len(w) + 1 /\ w[i] \in Int
      BY <1>3, <2>2, <2>8
    <3>2. <<n, t>> \in lately[q] \cup {<<m, now>>} <=> a[i] = t /\ t > now - Window
      BY <2>1, <2>3, <2>8, <3>1
    <3>3. CASE i \in k..Len(w) + 1
      BY <2>2, <2>4, <2>5, <3>2, <3>3
    <3>4. CASE i \in 1..k - 1
      BY <2>2, <2>4, <2>6, <2>7, <3>1, <3>2, <3>4
    <3> QED
      BY <1>3, <1>4, <2>2, <2>8, <3>3, <3>4
  <2>9. CASE i = Len(w) + 1
    <3>1. i \in k..Len(w) + 1 /\ i \notin 1..Len(w)
      BY <1>3, <1>4, <2>9
    <3>2. <<n, t>> \in lately[q] \cup {<<m, now>>} <=> t = now
      BY <2>1, <2>3, <2>9, <3>1
    <3>3. v[i - k + 1] = now
      BY <1>3, <2>5, <2>9, <3>1
    <3> QED
      BY <2>2, <2>4, <2>7, <3>1, <3>2, <3>3
  <2>10. CASE i \notin 1..Len(w) + 1
    <3>1. i \notin k..Len(w) + 1 /\ i \notin 1..Len(w) /\ i # Len(w) + 1
      BY <1>3, <1>4, <2>2, <2>10
    <3> QED
      BY <2>1, <2>2, <2>3, <2>4, <3>1
  <2> QED
    BY <1>3, <2>2, <2>8, <2>9, <2>10
<1>10. ASSUME NEW p \in Queues, NEW n \in Nat, NEW t \in Int
       PROVE  /\ Len(callWindow'[p]) <= totalCalls'[p]
              /\ <<n, t>> \in lately'[p] <=>
                   /\ n - totalCalls'[p] + Len(callWindow'[p]) + 1 \in 1..Len(callWindow'[p])
                   /\ callWindow'[p][n - totalCalls'[p] + Len(callWindow'[p]) + 1] = t
                   /\ t > now - Window
  <2>1. CASE p = q
    BY <1>7, <1>8, <1>9, <2>1
  <2>2. CASE p # q
    BY <1>6, <2>2 DEF WindowInv, Position
  <2> QED
    BY <2>1, <2>2
<1> SUFFICES ASSUME NEW p \in Queues
             PROVE  /\ Len(callWindow'[p]) <= totalCalls'[p]
                    /\ \A n \in Nat, t \in Int :
                         <<n, t>> \in lately'[p] <=>
                           /\ Position(p, n)' \in 1..Len(callWindow'[p])
                           /\ callWindow'[p][Position(p, n)'] = t
                           /\ t > now' - Window
  BY DEF WindowInv
<1>11. Len(callWindow'[p]) <= totalCalls'[p]
  <2>1. 0 \in Nat /\ 0 \in Int
    OBVIOUS
  <2> QED
    BY <1>10, <2>1
<1> QED
  BY <1>2, <1>10, <1>11 DEF Position

LEMMA NextWindow == TypeInv /\ WindowInv /\ [Next]_vars => WindowInv'
<1> SUFFICES ASSUME TypeInv, WindowInv, [Next]_vars PROVE WindowInv'
  OBVIOUS
<1> USE DEF limiterVars, callerVars, statVars, counters
<1>1. ASSUME UNCHANGED <<totalCalls, callWindow, lately, now>> PROVE WindowInv'
  BY <1>1 DEF WindowInv, Position
<1>2. CASE Tick
  <2>1. /\ UNCHANGED <<totalCalls, callWindow>> /\ now' = now + 1
        /\ \A q \in Queues : lately'[q] = {c \in lately[q] : c[2] > now + 1 - Window}
    BY <1>2 DEF Tick
  <2>2. now \in Nat /\ Window \in Nat
    BY TimeAssumption DEF TypeInv, TypeOK
  <2>3. ASSUME NEW q \in Queues, NEW n \in Nat, NEW t \in Int
        PROVE  <<n, t>> \in lately'[q] <=> <<n, t>> \in lately[q] /\ t > now + 1 - Window
    <3> DEFINE c == <<n, t>>
    <3>1. c[2] = t
      OBVIOUS
    <3> HIDE DEF c
    <3>2. lately'[q] = {d \in lately[q] : d[2] > now + 1 - Window}
      BY <2>1
    <3>3. c \in lately'[q] <=> c \in lately[q] /\ t > now + 1 - Window
      BY <3>1, <3>2
    <3> QED
      BY <3>3 DEF c
  <2>4. \A t \in Int : t > now + 1 - Window => t > now - Window
    BY <2>1, <2>2
  <2>5. \A q \in Queues, n \in Nat : Position(q, n)' = Position(q, n)
    BY <2>1 DEF Position
  <2>6. ASSUME NEW q \in Queues, NEW n \in Nat, NEW t \in Int
        PROVE  <<n, t>> \in lately'[q] <=>
                 /\ Position(q, n) \in 1..Len(callWindow[q])
                 /\ callWindow[q][Position(q, n)] = t
                 /\ t > now + 1 - Window
    <3>1. <<n, t>> \in lately[q] <=>
            /\ Position(q, n) \in 1..Len(callWindow[q])
            /\ callWindow[q][Position(q, n)] = t
            /\ t > now - Window
      BY DEF WindowInv
    <3> QED
      BY <2>3, <2>4, <3>1
  <2>7. \A q \in Queues : Len(callWindow[q]) <= totalCalls[q]
    BY DEF WindowInv
  <2>8. now' - Window = now + 1 - Window
    <3>1. now' = now + 1
      BY <2>1
    <3> QED
      BY <2>2, <3>1
  <2>9. ASSUME NEW q \in Queues, NEW n \in Nat, NEW t \in Int
        PROVE  <<n, t>> \in lately'[q] <=>
                 /\ Position(q, n)' \in 1..Len(callWindow'[q])
                 /\ callWindow'[q][Position(q, n)'] = t
                 /\ t > now' - Window
    <3>1. Position(q, n)' = Position(q, n) /\ callWindow' = callWindow
      BY <2>1, <2>5
    <3> QED
      BY <2>6, <2>8, <3>1
  <2>10. \A q \in Queues : Len(callWindow'[q]) <= totalCalls'[q]
    BY <2>1, <2>7
  <2> QED
    BY <2>9, <2>10 DEF WindowInv
<1>3. CASE Cancel \/ \E r \in Requests : Enqueue(r)
  BY <1>1, <1>3 DEF Cancel, Enqueue
<1>4. ASSUME NEW q \in Queues,
             \/ Exit(q) \/ Receive(q) \/ WaitGrant(q) \/ WaitSleep(q) \/ Wake(q)
             \/ WaitCancelled(q) \/ Drop(q) \/ Execute(q) \/ HTTPCall(q) \/ HTTP429(q)
             \/ Mark1(q) \/ Mark2(q)
      PROVE  WindowInv'
  BY <1>1, <1>4 DEF Exit, Receive, WaitGrant, WaitSleep, Wake, WaitCancelled, Drop, Execute,
                    HTTPCall, HTTP429, Mark1, Mark2, Call, Record429
<1>5. ASSUME NEW q \in Queues, Account(q) PROVE WindowInv'
  BY <1>5, AccountWindow
<1>6. CASE UserInfo
  BY <1>1, <1>6 DEF UserInfo, UserInfo429, UserInfoMark1, UserInfoMark2, Record429
<1>7. CASE UNCHANGED vars
  BY <1>1, <1>7 DEF vars
<1> QED
  BY <1>2, <1>3, <1>4, <1>5, <1>6, <1>7 DEF Next, Loop

(* The entries that Stats counts and the completions within the window     *)
(* correspond one to one.                                                  *)
LEMMA WindowCount ==
  ASSUME TypeInv, WindowInv, NEW q \in Queues
  PROVE  CallsLastMinute(q) = Cardinality(lately[q])
<1> DEFINE w == callWindow[q]
           m == totalCalls[q]
           S == {i \in 1..Len(w) : w[i] > now - Window}
           f == [i \in S |-> <<m - Len(w) + i - 1, w[i]>>]
<1>1. /\ Len(w) \in Nat /\ m \in Nat /\ Len(w) <= m /\ \A i \in 1..Len(w) : w[i] \in Int
      /\ lately[q] \subseteq Nat \X Int
  BY LenProperties, ElementOfSeq DEF TypeInv, TypeOK, WindowInv
<1>2. \A n \in Nat, t \in Int :
        <<n, t>> \in lately[q] <=>
          n - m + Len(w) + 1 \in 1..Len(w) /\ w[n - m + Len(w) + 1] = t /\ t > now - Window
  BY DEF WindowInv, Position
<1> HIDE DEF w, m
<1>3. \A i \in S : m - Len(w) + i - 1 \in Nat /\ (m - Len(w) + i - 1) - m + Len(w) + 1 = i
  BY <1>1
<1>4. ASSUME NEW i \in S PROVE f[i] \in lately[q]
  BY <1>1, <1>2, <1>3
<1>5. ASSUME NEW i \in S, NEW j \in S, f[i] = f[j] PROVE i = j
  <2>1. m - Len(w) + i - 1 = m - Len(w) + j - 1
    BY <1>5
  <2> QED
    BY <1>1, <2>1
<1>6. ASSUME NEW c \in lately[q] PROVE \E i \in S : f[i] = c
  <2>1. PICK n \in Nat, t \in Int : c = <<n, t>>
    BY <1>1
  <2> DEFINE i == n - m + Len(w) + 1
  <2>2. i \in S /\ w[i] = t
    BY <1>2, <2>1
  <2>3. m - Len(w) + i - 1 = n
    BY <1>1
  <2> QED
    BY <2>1, <2>2, <2>3
<1>7. IsFiniteSet(S)
  <2>1. IsFiniteSet(1..Len(w)) /\ S \in SUBSET (1..Len(w))
    BY <1>1, FS_Interval
  <2> QED
    BY <2>1, FS_Subset
<1>8. f \in Bijection(S, lately[q])
  <2>1. f \in [S -> lately[q]]
    BY <1>4
  <2> QED
    BY <1>5, <1>6, <2>1 DEF Bijection, Injection, IsInjective, Surjection
<1>9. Cardinality(lately[q]) = Cardinality(S)
  BY <1>7, <1>8, FS_Bijection DEF ExistsBijection
<1> QED
  BY <1>9 DEF CallsLastMinute, w

(* Queue.Stats is exact although the window is trimmed only when a call    *)
(* completes: neither an idle queue nor a burst makes it count a call      *)
(* twice, lose one, or keep one that is older than the window.             *)
THEOREM CallsLastMinuteExact == Spec => []StatsWindowExact
<1>1. Init => WindowInv
  <2> SUFFICES ASSUME Init PROVE WindowInv
    OBVIOUS
  <2>1. \A q \in Queues : callWindow[q] = << >> /\ totalCalls[q] = 0 /\ lately[q] = {}
    BY DEF Init
  <2> QED
    BY <2>1, EmptySeq DEF WindowInv
<1>2. Spec => []TypeInv
  BY InitType, NextType, PTL DEF Spec
<1>3. Spec => []WindowInv
  BY <1>1, <1>2, NextWindow, PTL DEF Spec
<1>4. TypeInv /\ WindowInv => StatsWindowExact
  BY WindowCount DEF StatsWindowExact
<1> QED
  BY <1>2, <1>3, <1>4, PTL
=============================================================================
