------------------------------ MODULE Throttle ------------------------------
(***************************************************************************)
(* internal/throttle/queue.go as cmd/warpbox/main.go wires it: two queues, *)
(* one for playback (requestdl) and one for the metadata sync, each with a *)
(* bounded channel and a processLoop goroutine of its own, and ONE Limiter *)
(* that both loops call before they execute a request.                     *)
(*                                                                         *)
(* Time is a clock of ticks; Rate is Limiter.rate in ticks.  The clock may *)
(* advance between any two steps, so a goroutine can be preempted for as   *)
(* long as the bound allows between winning a start slot and using it.     *)
(***************************************************************************)
EXTENDS Integers, Sequences, FiniteSets

CONSTANTS
  Requests,    \* throttle.Request values, one per Enqueue call
  QueueOf,     \* [Requests -> Queues]: the queue a request is put on
  MaxCalls,    \* [Requests -> Nat]: HTTP calls its Execute makes at most
  Responses,   \* what the API may answer: a subset of AllResponses
  Rate,        \* Limiter.rate
  BufferSize,  \* queueBufferSize
  Window,      \* the 60 s of Queue.callWindow
  IdleTime     \* bound: the clock passes it only to wake a sleeping loop

Queues == {"request", "sync"}
AllResponses == {"ok", "error", "429"}

ASSUME RequestsAssumption == QueueOf \in [Requests -> Queues]
ASSUME CallsAssumption    == MaxCalls \in [Requests -> Nat \ {0}]
ASSUME ResponseAssumption == Responses \subseteq AllResponses
ASSUME RateAssumption     == Rate \in Nat \ {0}
ASSUME BufferAssumption   == BufferSize \in Nat \ {0}
ASSUME TimeAssumption     == Window \in Nat \ {0} /\ IdleTime \in Nat

None == "none"   \* no request in hand
ASSUME NoneAssumption == None \notin Requests

VARIABLES
  now,         \* time.Now()
  cancelled,   \* ctx.Err() # nil: SIGINT or SIGTERM arrived
  lastCall,    \* Limiter.lastCall
  items,       \* [Queues -> Seq(Requests)]: the channel of each queue
  pc,          \* where each processLoop stands
  cur,         \* the request each loop holds
  wakeAt,      \* when its time.After fires
  left,        \* HTTP calls the running Execute may still make
  caller,      \* where the goroutine that owns each request stands
  totalCalls, successfulCalls, failedCalls, http429Calls,  \* Queue counters
  callWindow,  \* completion times each queue remembers
  userInfo,    \* where main's GetUserInfo stands
  \* History, read by the properties only.
  slots,       \* times at which start slots were reserved
  owed,        \* [Queues -> BOOLEAN]: a slot is reserved and not yet used
  starts,      \* times at which Execute was entered
  sent,        \* [Queues -> Seq(Requests)]: requests in channel order
  executed,    \* [Queues -> Seq(Requests)]: requests in Execute order
  lately,      \* completions of each queue that lie within the window
  got429       \* 429 responses received

limiterVars == <<lastCall, slots, owed>>
callerVars  == <<items, sent, caller>>
counters    == <<totalCalls, successfulCalls, failedCalls, http429Calls>>
statVars    == <<counters, callWindow, lately, got429, userInfo>>
vars == <<now, cancelled, lastCall, items, pc, cur, wakeAt, left, caller,
          totalCalls, successfulCalls, failedCalls, http429Calls, callWindow,
          userInfo, slots, owed, starts, sent, executed, lately, got429>>

PCs == {"select", "wait", "sleep", "slot", "call", "mark1", "mark2",
        "account", "exited"}
CallerStates == {"sending", "waiting", "served", "failed"}

(***************************************************************************)
(* NewLimiter and NewQueueWithLimiter.  The zero time.Time of lastCall is  *)
(* more than one rate ago, so the first Wait never sleeps.                 *)
(***************************************************************************)
Init ==
  /\ now = 0 /\ cancelled = FALSE
  /\ lastCall = 0 - Rate
  /\ items = [q \in Queues |-> <<>>]
  /\ pc = [q \in Queues |-> "select"]
  /\ cur = [q \in Queues |-> None]
  /\ wakeAt = [q \in Queues |-> 0]
  /\ left = [q \in Queues |-> 0]
  /\ caller = [r \in Requests |-> "sending"]
  /\ totalCalls = [q \in Queues |-> 0]
  /\ successfulCalls = [q \in Queues |-> 0]
  /\ failedCalls = [q \in Queues |-> 0]
  /\ http429Calls = [q \in Queues |-> 0]
  /\ callWindow = [q \in Queues |-> <<>>]
  /\ slots = <<>> /\ starts = <<>>
  /\ owed = [q \in Queues |-> FALSE]
  /\ sent = [q \in Queues |-> <<>>]
  /\ executed = [q \in Queues |-> <<>>]
  /\ lately = [q \in Queues |-> {}]
  /\ got429 = 0
  /\ userInfo = "asking"

Goto(q, label) == pc' = [pc EXCEPT ![q] = label]

-----------------------------------------------------------------------------
(* The environment: the clock, the signal and the calling goroutines.      *)

Asleep(q) == pc[q] = "sleep" /\ now < wakeAt[q]

Tick ==
  /\ now < IdleTime \/ \E q \in Queues : Asleep(q)
  /\ now' = now + 1
  /\ lately' = [q \in Queues |-> {c \in lately[q] : c[2] > now + 1 - Window}]
  /\ UNCHANGED <<cancelled, limiterVars, callerVars, counters, callWindow, got429,
                 userInfo, pc, cur, wakeAt, left, starts, executed>>

Cancel ==
  /\ ~cancelled
  /\ cancelled' = TRUE
  /\ UNCHANGED <<now, limiterVars, callerVars, statVars, pc, cur, wakeAt,
                 left, starts, executed>>

(* Enqueue: the send blocks while the channel is full; the caller then     *)
(* waits on its result channel.  A goroutine comes to its Enqueue at any   *)
(* time.  The mutants give up on a full channel, or never block.           *)
FailFastEnqueue(r) ==
  LET q == QueueOf[r] IN
  /\ caller[r] = "sending"
  /\ caller' = [caller EXCEPT ![r] = "waiting"]
  /\ IF Len(items[q]) < BufferSize
     THEN /\ items' = [items EXCEPT ![q] = Append(@, r)]
          /\ sent' = [sent EXCEPT ![q] = Append(@, r)]
     ELSE UNCHANGED <<items, sent>>
  /\ UNCHANGED <<now, cancelled, limiterVars, statVars, pc, cur, wakeAt, left,
                 starts, executed>>

UnboundedEnqueue(r) ==
  LET q == QueueOf[r] IN
  /\ caller[r] = "sending"
  /\ items' = [items EXCEPT ![q] = Append(@, r)]
  /\ sent' = [sent EXCEPT ![q] = Append(@, r)]
  /\ caller' = [caller EXCEPT ![r] = "waiting"]
  /\ UNCHANGED <<now, cancelled, limiterVars, statVars, pc, cur, wakeAt, left,
                 starts, executed>>

Enqueue(r) ==
  LET q == QueueOf[r] IN
  /\ caller[r] = "sending"
  /\ Len(items[q]) < BufferSize
  /\ items' = [items EXCEPT ![q] = Append(@, r)]
  /\ sent' = [sent EXCEPT ![q] = Append(@, r)]
  /\ caller' = [caller EXCEPT ![r] = "waiting"]
  /\ UNCHANGED <<now, cancelled, limiterVars, statVars, pc, cur, wakeAt, left,
                 starts, executed>>

-----------------------------------------------------------------------------
(* processLoop: the select.  When both cases are ready Go picks either.    *)

Exit(q) ==
  /\ pc[q] = "select" /\ cancelled
  /\ Goto(q, "exited")
  /\ UNCHANGED <<now, cancelled, limiterVars, callerVars, statVars, cur,
                 wakeAt, left, starts, executed>>

(* The mutant of Receive forgets limiter.Wait.                             *)
ReceiveUnpaced(q) ==
  /\ pc[q] = "select" /\ items[q] # <<>>
  /\ cur' = [cur EXCEPT ![q] = Head(items[q])]
  /\ items' = [items EXCEPT ![q] = Tail(@)]
  /\ Goto(q, "slot")
  /\ UNCHANGED <<now, cancelled, limiterVars, caller, sent, statVars, wakeAt,
                 left, starts, executed>>

Receive(q) ==
  /\ pc[q] = "select" /\ items[q] # <<>>
  /\ cur' = [cur EXCEPT ![q] = Head(items[q])]
  /\ items' = [items EXCEPT ![q] = Tail(@)]
  /\ Goto(q, "wait")
  /\ UNCHANGED <<now, cancelled, limiterVars, caller, sent, statVars, wakeAt,
                 left, starts, executed>>

(* Limiter.Wait: the critical section under l.mu, once per iteration.      *)

Reserve(q) ==
  /\ lastCall' = now
  /\ slots' = Append(slots, now)
  /\ owed' = [owed EXCEPT ![q] = TRUE]

WaitGrant(q) ==
  /\ pc[q] = "wait" /\ now - lastCall >= Rate
  /\ Reserve(q)
  /\ Goto(q, "slot")
  /\ UNCHANGED <<now, cancelled, callerVars, statVars, cur, wakeAt, left,
                 starts, executed>>

WaitSleep(q) ==
  /\ pc[q] = "wait" /\ now - lastCall < Rate
  /\ wakeAt' = [wakeAt EXCEPT ![q] = lastCall + Rate]
  /\ Goto(q, "sleep")
  /\ UNCHANGED <<now, cancelled, limiterVars, callerVars, statVars, cur, left,
                 starts, executed>>

(* The timer fires and the loop re-reads lastCall: the other queue may     *)
(* have taken the slot meanwhile.  The mutant trusts the first reading.    *)
WakeTrusting(q) ==
  /\ pc[q] = "sleep" /\ now >= wakeAt[q]
  /\ Reserve(q)
  /\ Goto(q, "slot")
  /\ UNCHANGED <<now, cancelled, callerVars, statVars, cur, wakeAt, left,
                 starts, executed>>

Wake(q) ==
  /\ pc[q] = "sleep" /\ now >= wakeAt[q]
  /\ Goto(q, "wait")
  /\ UNCHANGED <<now, cancelled, limiterVars, callerVars, statVars, cur,
                 wakeAt, left, starts, executed>>

(* <-ctx.Done() in Wait: it returns without having reserved a slot.        *)
WaitCancelled(q) ==
  /\ pc[q] = "sleep" /\ cancelled
  /\ Goto(q, "slot")
  /\ UNCHANGED <<now, cancelled, limiterVars, callerVars, statVars, cur,
                 wakeAt, left, starts, executed>>

-----------------------------------------------------------------------------
(* processLoop after Wait returned.                                        *)

(* ctx.Err() # nil: the loop returns and the request in hand is dropped.   *)
(* The mutant drops it and goes on with the next one.                      *)
DropAndContinue(q) ==
  /\ pc[q] = "slot" /\ cancelled
  /\ Goto(q, "select")
  /\ cur' = [cur EXCEPT ![q] = None]
  /\ UNCHANGED <<now, cancelled, limiterVars, callerVars, statVars, wakeAt,
                 left, starts, executed>>

Drop(q) ==
  /\ pc[q] = "slot" /\ cancelled
  /\ Goto(q, "exited")
  /\ UNCHANGED <<now, cancelled, limiterVars, callerVars, statVars, cur,
                 wakeAt, left, starts, executed>>

(* r.Execute(ctx) is entered.                                              *)
Execute(q) ==
  /\ pc[q] = "slot" /\ ~cancelled
  /\ Goto(q, "call")
  /\ left' = [left EXCEPT ![q] = MaxCalls[cur[q]]]
  /\ starts' = Append(starts, now)
  /\ executed' = [executed EXCEPT ![q] = Append(@, cur[q])]
  /\ owed' = [owed EXCEPT ![q] = FALSE]
  /\ UNCHANGED <<now, cancelled, lastCall, slots, callerVars, statVars, cur,
                 wakeAt>>

(* Execute returns err after it sent the result on resCh (capacity 1, so   *)
(* the send never blocks): the caller continues before the accounting.     *)
Reply(q, ok) ==
  /\ caller' = [caller EXCEPT ![cur[q]] = IF ok THEN "served" ELSE "failed"]
  /\ Goto(q, "account")

(* Client.do sends one HTTP request.  requestdl needs one; a mylist        *)
(* listing needs one per page and per page retry, all under one slot.      *)
Call(q) ==
  /\ pc[q] = "call"
  /\ left' = [left EXCEPT ![q] = @ - 1]
  /\ UNCHANGED <<now, cancelled, limiterVars, items, sent, counters, callWindow,
                 userInfo, lately, cur, wakeAt, starts, executed>>

(* Any response but 429: the listing goes on with another page or retry    *)
(* while it may, or Execute ends with success or an error.                 *)
HTTPCall(q) ==
  /\ Call(q)
  /\ UNCHANGED got429
  /\ \/ left[q] > 1 /\ UNCHANGED <<pc, caller>>
     \/ \E res \in Responses \ {"429"} : Reply(q, res = "ok")

(* A 429: HTTP429Callback calls Record429 on the request queue and then on *)
(* the sync queue, each under its own mutex.                               *)
HTTP429(q) ==
  /\ "429" \in Responses
  /\ Call(q)
  /\ got429' = got429 + 1
  /\ Goto(q, "mark1")
  /\ UNCHANGED caller

Record429(q) ==
  /\ http429Calls' = [http429Calls EXCEPT ![q] = @ + 1]
  /\ UNCHANGED <<now, cancelled, limiterVars, items, sent, totalCalls,
                 successfulCalls, failedCalls, callWindow, lately, got429, cur,
                 wakeAt, left, starts, executed>>

Mark1(q) ==
  /\ pc[q] = "mark1"
  /\ Record429("request")
  /\ Goto(q, "mark2")
  /\ UNCHANGED <<userInfo, caller>>

Mark2(q) ==
  /\ pc[q] = "mark2"
  /\ Record429("sync")
  /\ UNCHANGED userInfo
  /\ \/ left[q] > 0 /\ Goto(q, "call") /\ UNCHANGED caller
     \/ Reply(q, FALSE)

(* main asks for the account's data once, at startup and past the queues:  *)
(* a 429 to that calls the same callback.                                  *)
UserInfo429 ==
  /\ "429" \in Responses /\ userInfo = "asking"
  /\ userInfo' = "mark1"
  /\ got429' = got429 + 1
  /\ UNCHANGED <<now, cancelled, limiterVars, callerVars, counters, callWindow,
                 lately, pc, cur, wakeAt, left, starts, executed>>

UserInfoMark1 ==
  /\ userInfo = "mark1" /\ userInfo' = "mark2"
  /\ Record429("request")
  /\ UNCHANGED <<pc, caller>>

UserInfoMark2 ==
  /\ userInfo = "mark2" /\ userInfo' = "done"
  /\ Record429("sync")
  /\ UNCHANGED <<pc, caller>>

UserInfo == UserInfo429 \/ UserInfoMark1 \/ UserInfoMark2

(* The block under q.mu after Execute: counters, then callWindow appended  *)
(* and trimmed from the front of what lies before the cutoff.              *)
FrontAt(w, cutoff) ==
  CHOOSE i \in 1..Len(w) + 1 :
    /\ \A j \in 1..i - 1 : w[j] < cutoff
    /\ i <= Len(w) => w[i] >= cutoff

TrimTooMuch(w) == SubSeq(w, FrontAt(w, now - Window + 2), Len(w))
Trim(w) == SubSeq(w, FrontAt(w, now - Window), Len(w))

Account(q) ==
  /\ pc[q] = "account"
  /\ totalCalls' = [totalCalls EXCEPT ![q] = @ + 1]
  /\ IF caller[cur[q]] = "failed"
     THEN /\ failedCalls' = [failedCalls EXCEPT ![q] = @ + 1]
          /\ UNCHANGED successfulCalls
     ELSE /\ successfulCalls' = [successfulCalls EXCEPT ![q] = @ + 1]
          /\ UNCHANGED failedCalls
  /\ callWindow' = [callWindow EXCEPT ![q] = Trim(Append(@, now))]
  /\ lately' = [lately EXCEPT ![q] = @ \cup {<<totalCalls[q], now>>}]
  /\ cur' = [cur EXCEPT ![q] = None]
  /\ Goto(q, "select")
  /\ UNCHANGED <<now, cancelled, limiterVars, callerVars, http429Calls, got429,
                 userInfo, wakeAt, left, starts, executed>>

-----------------------------------------------------------------------------
Loop(q) ==
  \/ Exit(q) \/ Receive(q)
  \/ WaitGrant(q) \/ WaitSleep(q) \/ Wake(q) \/ WaitCancelled(q)
  \/ Drop(q) \/ Execute(q) \/ HTTPCall(q) \/ HTTP429(q)
  \/ Mark1(q) \/ Mark2(q) \/ Account(q)

Next ==
  \/ Tick \/ Cancel
  \/ \E r \in Requests : Enqueue(r)
  \/ \E q \in Queues : Loop(q)
  \/ UserInfo

Spec == Init /\ [][Next]_vars

(* Goroutines are scheduled and time passes; nobody has to send a request  *)
(* or a signal.                                                            *)
Fairness ==
  /\ WF_vars(Tick)
  /\ \A r \in Requests : WF_vars(Enqueue(r))
  /\ \A q \in Queues : WF_vars(Loop(q))

FairSpec == Spec /\ Fairness

-----------------------------------------------------------------------------
(* throttleStats in server.go: what the landing page shows of both queues. *)
SummedStats429 == http429Calls["request"] + http429Calls["sync"]
Stats429 ==
  IF http429Calls["sync"] > http429Calls["request"]
  THEN http429Calls["sync"] ELSE http429Calls["request"]

(* Queue.Stats: the calls of the last minute.                              *)
CallsLastMinute(q) ==
  Cardinality({i \in 1..Len(callWindow[q]) : callWindow[q][i] > now - Window})

-----------------------------------------------------------------------------
(* Properties                                                              *)

(* Every variable has its type: among others, the channels never hold more *)
(* than queueBufferSize requests.                                          *)
TypeOK ==
  /\ now \in Nat /\ cancelled \in BOOLEAN /\ lastCall \in Int
  /\ items \in [Queues -> Seq(Requests)]
  /\ \A q \in Queues : Len(items[q]) <= BufferSize
  /\ pc \in [Queues -> PCs]
  /\ cur \in [Queues -> Requests \cup {None}]
  /\ wakeAt \in [Queues -> Int]
  /\ left \in [Queues -> Int]
  /\ caller \in [Requests -> CallerStates]
  /\ totalCalls \in [Queues -> Nat]
  /\ successfulCalls \in [Queues -> Nat]
  /\ failedCalls \in [Queues -> Nat]
  /\ http429Calls \in [Queues -> Nat]
  /\ callWindow \in [Queues -> Seq(Int)]
  /\ slots \in Seq(Int) /\ starts \in Seq(Int)
  /\ owed \in [Queues -> BOOLEAN]
  /\ sent \in [Queues -> Seq(Requests)]
  /\ executed \in [Queues -> Seq(Requests)]
  /\ lately \in [Queues -> SUBSET (Nat \X Int)]
  /\ got429 \in Nat
  /\ userInfo \in {"asking", "mark1", "mark2", "done"}

(* The promise of Limiter ("the aggregate call start rate across all of    *)
(* them never exceeds requestsPerMinute"): between the i-th and the j-th   *)
(* reserved slot, whichever loops reserved them, lie j - i rates, although *)
(* a loop sleeps outside the mutex on a value the other loop overwrites.   *)
SlotSpacing ==
  \A i, j \in 1..Len(slots) : i < j => slots[j] - slots[i] >= (j - i) * Rate

(* What the API sees of it: a loop can be preempted between its slot and   *)
(* Execute, so two neighbouring starts may coincide, but each loop owes at *)
(* most one start and the excess never accumulates: over any stretch of    *)
(* starts the rate holds up to the two slots that may have been held back. *)
StartSpacing ==
  \A i, j \in 1..Len(starts) :
     i + 2 < j => starts[j] - starts[i] >= (j - i - 2) * Rate

(* Requests are executed once each, in the order of the channel; those not *)
(* executed are in the loop's hand, in the channel, or were in the hand of *)
(* a loop that returned on cancellation.  Nothing is skipped.              *)
InHand(q) ==
  IF pc[q] \in {"wait", "sleep", "slot"} \/ (pc[q] = "exited" /\ cur[q] # None)
  THEN <<cur[q]>> ELSE <<>>

ExecutedInOrder ==
  \A q \in Queues : executed[q] \o InHand(q) \o items[q] = sent[q]

(* Stats counts exactly the calls that completed within the window,        *)
(* although callWindow is trimmed only when a call completes.              *)
StatsWindowExact ==
  \A q \in Queues :
    CallsLastMinute(q) = Cardinality(lately[q])

(* The landing page's 429 count: every 429 response is on both queues'     *)
(* counters, so the maximum counts each one once.  It lags only by the     *)
(* responses whose callback has not started yet.                           *)
Stats429Exact ==
  Stats429 = got429 - Cardinality({q \in Queues : pc[q] = "mark1"})
                    - (IF userInfo = "mark1" THEN 1 ELSE 0)

(* Warpbox never fails fast: unless the process is told to stop, a request *)
(* that reached Enqueue is eventually answered, also when the channel was  *)
(* full and the other queue competes for slots.                            *)
EveryRequestAnswered ==
  \A r \in Requests :
    caller[r] = "sending" ~> (caller[r] \in {"served", "failed"} \/ cancelled)
=============================================================================
