------------------------------ MODULE SyncLoop ------------------------------
(***************************************************************************)
(* The life cycle of the periodic sync in internal/metadata/sync.go: Start *)
(* and Restart create a loop, Stop cancels it and waits for its end for    *)
(* 90 s at most, SyncNow runs one sync beside it.  All share syncing,      *)
(* cancel and loopDone of the SyncWorker; what a sync does is SyncWorker's *)
(* concern.  Every critical section under w.mu is one step.                *)
(*                                                                         *)
(* Loops are numbered in the order of their creation; a context is the     *)
(* number of the loop that runs under it, a channel the number of the loop *)
(* that closes it.                                                         *)
(***************************************************************************)
EXTENDS Integers, FiniteSets

CONSTANTS
  Restarters,  \* goroutines of POST /actions/restart-sync
  Resyncers,   \* goroutines of POST /actions/resync
  MaxLoops     \* bound: loops created

ASSUME LoopsAssumption == MaxLoops \in Nat \ {0}
ASSUME FiniteAssumption == IsFiniteSet(Restarters)

Loops == 1..MaxLoops
Nobody == 0   \* a nil cancel function or channel

VARIABLES
  shutdown,   \* the process's context is done
  started,    \* parentCtx # nil
  cancel,     \* SyncWorker.cancel: the loop it cancels
  loopDone,   \* SyncWorker.loopDone: the loop that closes it
  made,       \* loops created so far
  stopped,    \* [Loops -> BOOLEAN]: the loop's own context is cancelled
  syncing,    \* SyncWorker.syncing
  lpc,        \* [Loops -> where runLoop stands]
  rpc, rwait, \* [Restarters -> where Restart stands, the channel it waits for]
  npc,        \* [Resyncers -> where SyncNow stands]
  overlapped  \* History: a Restart began, or Start ran, during a Restart

workerVars == <<shutdown, started, cancel, loopDone, made>>
vars == <<workerVars, stopped, syncing, lpc, rpc, rwait, npc, overlapped>>

LoopLabels == {"none", "due", "sync", "wait", "ended"}

Init ==
  /\ shutdown = FALSE /\ started = FALSE
  /\ cancel = Nobody /\ loopDone = Nobody /\ made = 0
  /\ stopped = [l \in Loops |-> FALSE]
  /\ syncing = FALSE
  /\ lpc = [l \in Loops |-> "none"]
  /\ rpc = [r \in Restarters |-> "idle"]
  /\ rwait = [r \in Restarters |-> Nobody]
  /\ npc = [n \in Resyncers |-> "idle"]
  /\ overlapped = FALSE

Restarting == {r \in Restarters : rpc[r] # "idle"}

(* SIGINT or SIGTERM.                                                      *)
Shutdown ==
  /\ ~shutdown /\ shutdown' = TRUE
  /\ UNCHANGED <<started, cancel, loopDone, made, stopped, syncing, lpc, rpc, rwait,
                 npc, overlapped>>

-----------------------------------------------------------------------------
(* A new loop under a context of its own; the worker remembers its cancel  *)
(* function and its channel.                                               *)
Launch ==
  /\ made' = made + 1
  /\ cancel' = made + 1
  /\ loopDone' = made + 1
  /\ lpc' = [lpc EXCEPT ![made + 1] = "due"]

(* main starts the worker's goroutine before the server; it need not have  *)
(* run when the first request arrives.                                     *)
Start ==
  /\ ~started
  /\ started' = TRUE
  /\ Launch
  /\ overlapped' = (overlapped \/ Restarting # {})
  /\ UNCHANGED <<shutdown, stopped, syncing, rpc, rwait, npc>>

-----------------------------------------------------------------------------
(* runLoop: a sync at once, then one for every tick, until the select sees *)
(* that the context is done.  syncOnce returns at once when another caller *)
(* is in it.  The mutants: a syncOnce without that guard, and a runLoop    *)
(* that was given the process's context for its own.                       *)

AlwaysFree == TRUE
Free == ~syncing

LoopEnters(l) ==
  /\ lpc[l] = "due" /\ Free
  /\ syncing' = TRUE
  /\ lpc' = [lpc EXCEPT ![l] = "sync"]
  /\ UNCHANGED <<workerVars, stopped, rpc, rwait, npc, overlapped>>

LoopSkips(l) ==
  /\ lpc[l] = "due" /\ ~Free
  /\ lpc' = [lpc EXCEPT ![l] = "wait"]
  /\ UNCHANGED <<workerVars, stopped, syncing, rpc, rwait, npc, overlapped>>

LoopLeaves(l) ==
  /\ lpc[l] = "sync"
  /\ syncing' = FALSE
  /\ lpc' = [lpc EXCEPT ![l] = "wait"]
  /\ UNCHANGED <<workerVars, stopped, rpc, rwait, npc, overlapped>>

TickerFires(l) ==
  /\ lpc[l] = "wait"
  /\ lpc' = [lpc EXCEPT ![l] = "due"]
  /\ UNCHANGED <<workerVars, stopped, syncing, rpc, rwait, npc, overlapped>>

DoneForProcess(l) == shutdown
Done(l) == shutdown \/ stopped[l]

LoopExits(l) ==
  /\ lpc[l] = "wait" /\ Done(l)
  /\ lpc' = [lpc EXCEPT ![l] = "ended"]
  /\ UNCHANGED <<workerVars, stopped, syncing, rpc, rwait, npc, overlapped>>

LoopStep(l) == LoopEnters(l) \/ LoopSkips(l) \/ LoopLeaves(l) \/ TickerFires(l) \/ LoopExits(l)

-----------------------------------------------------------------------------
(* SyncNow: one syncOnce in the goroutine of the request.                  *)

Resync(n) ==
  /\ npc[n] = "idle" /\ Free
  /\ syncing' = TRUE
  /\ npc' = [npc EXCEPT ![n] = "sync"]
  /\ UNCHANGED <<workerVars, stopped, lpc, rpc, rwait, overlapped>>

ResyncLeaves(n) ==
  /\ npc[n] = "sync"
  /\ syncing' = FALSE
  /\ npc' = [npc EXCEPT ![n] = "idle"]
  /\ UNCHANGED <<workerVars, stopped, lpc, rpc, rwait, overlapped>>

-----------------------------------------------------------------------------
(* Restart.  Stop cancels the loop and takes its channel under w.mu; the   *)
(* mutant takes the cancel function without calling it.                    *)

GotoR(r, label) == rpc' = [rpc EXCEPT ![r] = label]

LoopsLeft ==
  made + Cardinality(Restarting) + (IF started THEN 0 ELSE 1) < MaxLoops

CancelForgotten == stopped' = stopped
Cancel == stopped' = [l \in Loops |-> stopped[l] \/ l = cancel]

Stop(r) ==
  /\ rpc[r] = "idle" /\ LoopsLeft
  /\ Cancel
  /\ cancel' = Nobody
  /\ rwait' = [rwait EXCEPT ![r] = loopDone]
  /\ GotoR(r, "waiting")
  /\ overlapped' = (overlapped \/ Restarting # {})
  /\ UNCHANGED <<shutdown, started, loopDone, made, syncing, lpc, npc>>

(* The channel is closed, there is none, or 90 s have passed.              *)
Closed == {Nobody} \cup {l \in Loops : lpc[l] = "ended"}

Waited(r) ==
  /\ GotoR(r, "install")
  /\ rwait' = [rwait EXCEPT ![r] = Nobody]
  /\ UNCHANGED <<workerVars, stopped, syncing, lpc, npc, overlapped>>

StopReturns(r) ==
  /\ rpc[r] = "waiting"
  /\ rwait[r] \in Closed
  /\ Waited(r)

StopTimesOut(r) ==
  /\ rpc[r] = "waiting"
  /\ rwait[r] \notin Closed
  /\ Waited(r)

(* The new loop; its mutant derives the context from the cancelled one.    *)
Fresh(r) ==
  /\ rpc[r] = "install" /\ started
  /\ Launch
  /\ GotoR(r, "idle")
  /\ UNCHANGED <<shutdown, started, syncing, rwait, npc, overlapped>>

InstallStillborn(r) == Fresh(r) /\ stopped' = [stopped EXCEPT ![made + 1] = TRUE]
Install(r) == Fresh(r) /\ UNCHANGED stopped

(* parentCtx is nil: the worker was never started.  The mutant does not    *)
(* ask.                                                                    *)
SkipInstallNever(r) ==
  /\ rpc[r] = "install" /\ ~started
  /\ Launch
  /\ GotoR(r, "idle")
  /\ UNCHANGED <<shutdown, started, stopped, syncing, rwait, npc, overlapped>>

SkipInstall(r) ==
  /\ rpc[r] = "install" /\ ~started
  /\ GotoR(r, "idle")
  /\ UNCHANGED <<workerVars, stopped, syncing, lpc, rwait, npc, overlapped>>

RestartStep(r) == StopReturns(r) \/ StopTimesOut(r) \/ Install(r) \/ SkipInstall(r)

-----------------------------------------------------------------------------
Next ==
  \/ Shutdown \/ Start
  \/ \E l \in Loops : LoopStep(l)
  \/ \E n \in Resyncers : Resync(n) \/ ResyncLeaves(n)
  \/ \E r \in Restarters : Stop(r) \/ RestartStep(r)

Spec == Init /\ [][Next]_vars

(* Goroutines are scheduled, and until the shutdown a sync ends, if only   *)
(* by the timeouts of its requests.  A select with two ready cases picks   *)
(* one at random, so a context that stays done is seen.                    *)
Fairness ==
  /\ WF_vars(Start)
  /\ \A l \in Loops :
       WF_vars(~shutdown /\ LoopStep(l)) /\ SF_vars(~shutdown /\ LoopExits(l))
  /\ \A n \in Resyncers : WF_vars(~shutdown /\ ResyncLeaves(n))
  /\ \A r \in Restarters : WF_vars(RestartStep(r))

FairSpec == Spec /\ Fairness

-----------------------------------------------------------------------------
(* Properties                                                              *)

(* Types; loops exist as far as they were made, and none before Start.     *)
TypeOK ==
  /\ shutdown \in BOOLEAN /\ started \in BOOLEAN /\ syncing \in BOOLEAN
  /\ overlapped \in BOOLEAN
  /\ made \in 0..MaxLoops /\ cancel \in 0..made /\ loopDone \in 0..made
  /\ stopped \in [Loops -> BOOLEAN]
  /\ lpc \in [Loops -> LoopLabels]
  /\ \A l \in Loops : lpc[l] = "none" <=> l > made
  /\ started <=> made > 0
  /\ rpc \in [Restarters -> {"idle", "waiting", "install"}]
  /\ rwait \in [Restarters -> 0..made]
  /\ npc \in [Resyncers -> {"idle", "sync"}]

(* Periodic loops, old ones that outlived the 90 s included, and manual    *)
(* resyncs never sync at the same time, and the guard is set exactly while *)
(* one of them does.                                                       *)
LoopsInside == {l \in Loops : lpc[l] = "sync"}
ResyncsInside == {n \in Resyncers : npc[n] = "sync"}
OneSync ==
  Cardinality(LoopsInside) + Cardinality(ResyncsInside) = IF syncing THEN 1 ELSE 0

(* A loop that nobody cancelled is the one that the worker can cancel, so  *)
(* there is one at most and the next Restart stops it, provided that       *)
(* restarts did not overlap.                                               *)
Live == {l \in Loops : lpc[l] \notin {"none", "ended"} /\ ~Done(l)}
LiveLoopIsCurrent == overlapped \/ \A l \in Live : cancel = l

(* "Restart stops the current sync loop and starts a fresh one": of the    *)
(* loops that restarts launched (all but the first) never more than one    *)
(* goes on without having been told to stop.                               *)
RestartReplaces == \A l, m \in Live \ {1} : l = m

(* A loop that was told to stop ends, however long its sync takes.         *)
StoppedLoopsEnd == \A l \in Loops : stopped[l] ~> (lpc[l] = "ended" \/ shutdown)

(* Whatever is restarted when, the library goes on being synced.           *)
SyncsGoOn == []<>(syncing \/ shutdown)
=============================================================================
