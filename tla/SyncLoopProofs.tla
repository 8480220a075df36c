---------------------------- MODULE SyncLoopProofs ----------------------------
(***************************************************************************)
(* Proofs about SyncLoop, for every finite set of restarting goroutines,   *)
(* every set of resyncing ones and any number of loops.                    *)
(***************************************************************************)
EXTENDS SyncLoop, FiniteSetTheorems, TLAPS

(* Every Restart that is under way, and Start, has a loop left to create.  *)
BudgetInv ==
  /\ made \in Nat
  /\ made + Cardinality(Restarting) + (IF started THEN 0 ELSE 1) <= MaxLoops

TypeInv == TypeOK /\ BudgetInv

-----------------------------------------------------------------------------
(* How a step moves the set of the restarts that are under way.            *)

LEMMA RestartingFinite == IsFiniteSet(Restarting) /\ Cardinality(Restarting) \in Nat
<1>1. Restarting \subseteq Restarters
  BY DEF Restarting
<1> QED
  BY <1>1, FiniteAssumption, FS_Subset, FS_CardinalityType

LEMMA RestartBegins ==
  ASSUME TypeOK, NEW r \in Restarters, rpc[r] = "idle", GotoR(r, "waiting")
  PROVE  /\ Restarting' = Restarting \cup {r}
         /\ Cardinality(Restarting') = Cardinality(Restarting) + 1
<1>1. Restarting' = Restarting \cup {r}
  BY DEF TypeOK, GotoR, Restarting
<1>2. r \notin Restarting
  BY DEF Restarting
<1> QED
  BY <1>1, <1>2, RestartingFinite, FS_AddElement

LEMMA RestartGoesOn ==
  ASSUME TypeOK, NEW r \in Restarters, rpc[r] = "waiting", GotoR(r, "install")
  PROVE  Restarting' = Restarting
BY DEF TypeOK, GotoR, Restarting

LEMMA RestartFinishes ==
  ASSUME TypeOK, NEW r \in Restarters, rpc[r] = "install", GotoR(r, "idle")
  PROVE  /\ r \in Restarting
         /\ Restarting' = Restarting \ {r}
         /\ Cardinality(Restarting') = Cardinality(Restarting) - 1
<1>1. Restarting' = Restarting \ {r} /\ r \in Restarting
  BY DEF TypeOK, GotoR, Restarting
<1> QED
  BY <1>1, RestartingFinite, FS_RemoveElement

-----------------------------------------------------------------------------
(* Types                                                                   *)

LEMMA InitType == Init => TypeInv
<1> SUFFICES ASSUME Init PROVE TypeInv
  OBVIOUS
<1> USE DEF Init
<1>1. TypeOK
  <2>1. \A l \in Loops : lpc[l] = "none" /\ l > made
    BY LoopsAssumption DEF Loops
  <2>2. made \in 0..MaxLoops /\ cancel \in 0..made /\ loopDone \in 0..made
    BY LoopsAssumption DEF Nobody
  <2>3. rwait \in [Restarters -> 0..made] /\ lpc \in [Loops -> LoopLabels]
    BY DEF Nobody, LoopLabels
  <2>4. /\ stopped \in [Loops -> BOOLEAN]
        /\ rpc \in [Restarters -> {"idle", "waiting", "install"}]
        /\ npc \in [Resyncers -> {"idle", "sync"}]
    OBVIOUS
  <2>5. ~started /\ made = 0 /\ ~(made > 0)
    OBVIOUS
  <2> QED
    BY <2>1, <2>2, <2>3, <2>4, <2>5 DEF TypeOK
<1>2. Restarting = {}
  BY DEF Restarting
<1>3. BudgetInv
  BY <1>2, FS_EmptySet, LoopsAssumption DEF BudgetInv
<1> QED
  BY <1>1, <1>3 DEF TypeInv

(* A new loop has a number of its own.                                     *)
LEMMA LaunchType ==
  ASSUME TypeOK, made < MaxLoops, Launch
  PROVE  /\ made' \in 0..MaxLoops /\ cancel' \in 0..made' /\ loopDone' \in 0..made'
         /\ lpc' \in [Loops -> LoopLabels]
         /\ \A l \in Loops : lpc'[l] = "none" <=> l > made'
         /\ made + 1 \in Loops /\ made' = made + 1 /\ made' > 0
BY LoopsAssumption DEF TypeOK, Launch, Loops, LoopLabels

(* The steps of the loops and of SyncNow touch no more than the guard and  *)
(* a label.                                                                *)
LEMMA SyncingType ==
  ASSUME TypeInv,
         (\E l \in Loops : LoopStep(l)) \/ (\E n \in Resyncers : Resync(n) \/ ResyncLeaves(n))
  PROVE  TypeInv'
<1>1. CASE \E l \in Loops : LoopStep(l)
  <2> PICK l \in Loops : LoopStep(l)
    BY <1>1
  <2>1. /\ lpc' \in [Loops -> LoopLabels] /\ syncing' \in BOOLEAN
        /\ \A m \in Loops : lpc'[m] = "none" <=> lpc[m] = "none"
        /\ UNCHANGED <<workerVars, stopped, rpc, rwait, npc, overlapped>>
    BY DEF TypeInv, TypeOK, LoopStep, LoopEnters, LoopSkips, LoopLeaves, TickerFires,
           LoopExits, LoopLabels, workerVars
  <2>2. Restarting' = Restarting
    BY <2>1 DEF Restarting
  <2> QED
    BY <2>1, <2>2 DEF TypeInv, TypeOK, BudgetInv, workerVars
<1>2. CASE \E n \in Resyncers : Resync(n) \/ ResyncLeaves(n)
  <2> PICK n \in Resyncers : Resync(n) \/ ResyncLeaves(n)
    BY <1>2
  <2>1. /\ npc' \in [Resyncers -> {"idle", "sync"}] /\ syncing' \in BOOLEAN
        /\ UNCHANGED <<workerVars, stopped, lpc, rpc, rwait, overlapped>>
    BY DEF TypeInv, TypeOK, Resync, ResyncLeaves, workerVars
  <2>2. Restarting' = Restarting
    BY <2>1 DEF Restarting
  <2> QED
    BY <2>1, <2>2 DEF TypeInv, TypeOK, BudgetInv, workerVars
<1> QED
  BY <1>1, <1>2

LEMMA StepType == TypeInv /\ [Next]_vars => TypeInv'
<1> SUFFICES ASSUME TypeInv, [Next]_vars PROVE TypeInv'
  OBVIOUS
<1> USE DEF TypeInv
<1>1. CASE Shutdown
  <2>1. Restarting' = Restarting
    BY <1>1 DEF Shutdown, Restarting
  <2> QED
    BY <1>1, <2>1 DEF Shutdown, TypeOK, BudgetInv
<1>2. CASE Start
  <2>1. Restarting' = Restarting
    BY <1>2 DEF Start, Restarting
  <2>2. made < MaxLoops
    BY <1>2, RestartingFinite, LoopsAssumption DEF Start, BudgetInv
  <2>3. Launch
    BY <1>2 DEF Start
  <2>4. BudgetInv'
    BY <1>2, <2>1, <2>3, RestartingFinite, LoopsAssumption DEF Start, Launch, BudgetInv
  <2>5. rwait' \in [Restarters -> 0..made']
    BY <1>2, <2>3 DEF Start, Launch, TypeOK
  <2>6. overlapped' \in BOOLEAN
    BY <1>2 DEF Start, TypeOK
  <2>7. TypeOK'
    BY <1>2, <2>2, <2>3, <2>5, <2>6, LaunchType DEF Start, TypeOK
  <2> QED
    BY <2>4, <2>7
<1>3. CASE \E l \in Loops : LoopStep(l)
  BY <1>3, SyncingType
<1>4. CASE \E n \in Resyncers : Resync(n) \/ ResyncLeaves(n)
  BY <1>4, SyncingType
<1>5. CASE \E r \in Restarters : Stop(r)
  <2> PICK r \in Restarters : Stop(r)
    BY <1>5
  <2>1. Cardinality(Restarting') = Cardinality(Restarting) + 1
    BY RestartBegins DEF Stop
  <2>2. BudgetInv'
    BY <2>1, RestartingFinite, LoopsAssumption DEF Stop, LoopsLeft, BudgetInv
  <2>3. overlapped' \in BOOLEAN
    BY DEF Stop, TypeOK
  <2>4. /\ stopped' \in [Loops -> BOOLEAN]
        /\ rpc' \in [Restarters -> {"idle", "waiting", "install"}]
        /\ rwait' \in [Restarters -> 0..made']
        /\ cancel' \in 0..made'
    <3>1. stopped' \in [Loops -> BOOLEAN]
      BY Zenon DEF Stop, Cancel, TypeOK
    <3> QED
      BY <3>1 DEF Stop, GotoR, Nobody, BudgetInv, TypeOK
  <2> QED
    BY <2>2, <2>3, <2>4 DEF Stop, TypeOK
<1>6. CASE \E r \in Restarters : StopReturns(r) \/ StopTimesOut(r)
  <2> PICK r \in Restarters : rpc[r] = "waiting" /\ Waited(r)
    BY <1>6 DEF StopReturns, StopTimesOut
  <2>1. Restarting' = Restarting
    BY RestartGoesOn DEF Waited
  <2> QED
    BY <2>1 DEF Waited, GotoR, workerVars, Nobody, BudgetInv, TypeOK
<1>7. CASE \E r \in Restarters : Install(r)
  <2> PICK r \in Restarters : Install(r)
    BY <1>7
  <2> USE DEF Install, Fresh
  <2>1. r \in Restarting /\ Cardinality(Restarting') = Cardinality(Restarting) - 1
    BY RestartFinishes
  <2>2. made < MaxLoops
    <3>1. Cardinality(Restarting) # 0
      BY <2>1, RestartingFinite, FS_EmptySet
    <3> QED
      BY <3>1, RestartingFinite, LoopsAssumption DEF BudgetInv
  <2>3. Launch
    OBVIOUS
  <2>4. BudgetInv'
    BY <2>1, <2>3, RestartingFinite, LoopsAssumption DEF Launch, BudgetInv
  <2>5. /\ rpc' \in [Restarters -> {"idle", "waiting", "install"}]
        /\ rwait' \in [Restarters -> 0..made']
    BY <2>3 DEF Launch, GotoR, TypeOK
  <2>6. TypeOK'
    BY <2>2, <2>3, <2>5, LaunchType DEF TypeOK
  <2> QED
    BY <2>4, <2>6
<1>8. CASE \E r \in Restarters : SkipInstall(r)
  <2> PICK r \in Restarters : SkipInstall(r)
    BY <1>8
  <2>1. Cardinality(Restarting') = Cardinality(Restarting) - 1
    BY RestartFinishes DEF SkipInstall
  <2>2. BudgetInv'
    BY <2>1, RestartingFinite, LoopsAssumption DEF SkipInstall, workerVars, BudgetInv
  <2> QED
    BY <2>2 DEF SkipInstall, GotoR, workerVars, TypeOK
<1>9. CASE UNCHANGED vars
  <2>1. Restarting' = Restarting
    BY <1>9 DEF vars, Restarting
  <2> QED
    BY <1>9, <2>1 DEF vars, workerVars, TypeOK, BudgetInv
<1> QED
  BY <1>1, <1>2, <1>3, <1>4, <1>5, <1>6, <1>7, <1>8, <1>9 DEF Next, RestartStep

THEOREM TypeInvariant == Spec => []TypeInv
BY InitType, StepType, PTL DEF Spec

(* TypeOK: the worker's cancel function and channel always name a loop     *)
(* that was made, and every loop has a number of its own.                  *)
THEOREM TypeCorrect == Spec => []TypeOK
<1>1. TypeInv => TypeOK
  BY DEF TypeInv
<1> QED
  BY <1>1, TypeInvariant, PTL

-----------------------------------------------------------------------------
(* One sync at a time                                                      *)

(* The guard, with who it is that is inside.                               *)
GuardInv ==
  \/ /\ syncing
     /\ \/ ResyncsInside = {} /\ \E l \in Loops : LoopsInside = {l}
        \/ LoopsInside = {} /\ \E n \in Resyncers : ResyncsInside = {n}
  \/ ~syncing /\ LoopsInside = {} /\ ResyncsInside = {}

(* Nobody but the loops and SyncNow goes in or out.                        *)
LEMMA GuardUndisturbed ==
  ASSUME GuardInv, UNCHANGED <<syncing, npc>>,
         \A l \in Loops : lpc'[l] = "sync" <=> lpc[l] = "sync"
  PROVE  GuardInv'
BY DEF GuardInv, LoopsInside, ResyncsInside

LEMMA GuardStep == TypeInv /\ GuardInv /\ [Next]_vars => GuardInv'
<1> SUFFICES ASSUME TypeInv, GuardInv, [Next]_vars PROVE GuardInv'
  OBVIOUS
<1> USE DEF TypeInv
<1>1. CASE \E l \in Loops : LoopEnters(l)
  <2> PICK l \in Loops : LoopEnters(l)
    BY <1>1
  <2>1. LoopsInside' = {l} /\ ResyncsInside' = {} /\ syncing'
    BY DEF LoopEnters, Free, GuardInv, LoopsInside, ResyncsInside, TypeOK
  <2> QED
    BY <2>1 DEF GuardInv
<1>2. CASE \E l \in Loops : LoopLeaves(l)
  <2> PICK l \in Loops : LoopLeaves(l)
    BY <1>2
  <2>1. LoopsInside = {l} /\ ResyncsInside = {}
    BY DEF LoopLeaves, GuardInv, LoopsInside
  <2>2. LoopsInside' = {} /\ ResyncsInside' = {} /\ ~syncing'
    BY <2>1 DEF LoopLeaves, LoopsInside, ResyncsInside, TypeOK
  <2> QED
    BY <2>2 DEF GuardInv
<1>3. CASE \E l \in Loops : LoopSkips(l) \/ TickerFires(l) \/ LoopExits(l)
  BY <1>3, GuardUndisturbed DEF LoopSkips, TickerFires, LoopExits, TypeOK
<1>4. CASE \E n \in Resyncers : Resync(n)
  <2> PICK n \in Resyncers : Resync(n)
    BY <1>4
  <2>1. LoopsInside' = {} /\ ResyncsInside' = {n} /\ syncing'
    BY DEF Resync, Free, GuardInv, LoopsInside, ResyncsInside, TypeOK
  <2> QED
    BY <2>1 DEF GuardInv
<1>5. CASE \E n \in Resyncers : ResyncLeaves(n)
  <2> PICK n \in Resyncers : ResyncLeaves(n)
    BY <1>5
  <2>1. ResyncsInside = {n} /\ LoopsInside = {}
    BY DEF ResyncLeaves, GuardInv, ResyncsInside
  <2>2. LoopsInside' = {} /\ ResyncsInside' = {} /\ ~syncing'
    BY <2>1 DEF ResyncLeaves, LoopsInside, ResyncsInside, TypeOK
  <2> QED
    BY <2>2 DEF GuardInv
<1>6. CASE Launch /\ made < MaxLoops /\ UNCHANGED <<syncing, npc>>
  <2>1. \A l \in Loops : lpc'[l] = "sync" <=> lpc[l] = "sync"
    BY <1>6, LaunchType DEF Launch, TypeOK
  <2> QED
    BY <1>6, <2>1, GuardUndisturbed
<1>7. CASE UNCHANGED <<syncing, npc, lpc>>
  BY <1>7, GuardUndisturbed
<1>8. CASE Start
  BY <1>6, <1>8, RestartingFinite, LoopsAssumption DEF Start, BudgetInv
<1>9. CASE \E r \in Restarters : Stop(r) \/ RestartStep(r)
  <2> PICK r \in Restarters : Stop(r) \/ RestartStep(r)
    BY <1>9
  <2>1. CASE Install(r)
    <3>1. Cardinality(Restarting) # 0
      BY <2>1, RestartFinishes, RestartingFinite, FS_EmptySet DEF Install, Fresh
    <3>2. made < MaxLoops
      BY <3>1, RestartingFinite, LoopsAssumption DEF BudgetInv
    <3> QED
      BY <1>6, <2>1, <3>2 DEF Install, Fresh
  <2> QED
    BY <1>7, <2>1 DEF Stop, RestartStep, StopReturns, StopTimesOut, Waited, SkipInstall
<1>10. CASE Shutdown \/ UNCHANGED vars
  BY <1>7, <1>10 DEF Shutdown, vars
<1> QED
  BY <1>1, <1>2, <1>3, <1>4, <1>5, <1>8, <1>9, <1>10 DEF Next, LoopStep

(* Whatever is started, restarted, timed out and resynced, two syncs never *)
(* run at the same time, and the guard is set exactly during one.          *)
THEOREM SyncsExclude == Spec => []OneSync
<1>1. Init => GuardInv
  BY DEF Init, GuardInv, LoopsInside, ResyncsInside
<1>2. Spec => []GuardInv
  BY <1>1, GuardStep, TypeInvariant, PTL DEF Spec
<1>3. GuardInv => OneSync
  <2> SUFFICES ASSUME GuardInv PROVE OneSync
    OBVIOUS
  <2>1. Cardinality({}) = 0
    BY FS_EmptySet
  <2>2. \A x : Cardinality({x}) = 1
    BY FS_Singleton
  <2>3. CASE syncing
    <3>1. \/ Cardinality(LoopsInside) = 1 /\ Cardinality(ResyncsInside) = 0
          \/ Cardinality(LoopsInside) = 0 /\ Cardinality(ResyncsInside) = 1
      BY <2>1, <2>2, <2>3 DEF GuardInv
    <3> QED
      BY <2>3, <3>1 DEF OneSync
  <2>4. CASE ~syncing
    <3>1. Cardinality(LoopsInside) = 0 /\ Cardinality(ResyncsInside) = 0
      BY <2>1, <2>4 DEF GuardInv
    <3> QED
      BY <2>4, <3>1 DEF OneSync
  <2> QED
    BY <2>3, <2>4
<1> QED
  BY <1>2, <1>3, PTL

-----------------------------------------------------------------------------
(* One loop goes on                                                        *)

(* Unless restarts overlapped: one is under way at most, and while it is   *)
(* every loop has been told to stop; a loop that was not is the worker's.  *)
LifeInv ==
  \/ overlapped
  \/ /\ \A r, s \in Restarting : r = s
     /\ Restarting # {} => Live = {}
     /\ \A l \in Live : cancel = l

LEMMA LifeUndisturbed ==
  ASSUME LifeInv, UNCHANGED <<overlapped, cancel, rpc>>, Live' \subseteq Live
  PROVE  LifeInv'
<1>1. Restarting' = Restarting
  BY DEF Restarting
<1> QED
  BY <1>1 DEF LifeInv

(* Only the new loop joins those that go on.                               *)
LEMMA LaunchLive ==
  ASSUME TypeOK, Launch, UNCHANGED <<shutdown, stopped>>
  PROVE  Live' \subseteq Live \cup {made + 1} /\ cancel' = made + 1
BY DEF TypeOK, Launch, Live, Done

LEMMA LifeStep == TypeInv /\ LifeInv /\ [Next]_vars => LifeInv'
<1> SUFFICES ASSUME TypeInv, LifeInv, [Next]_vars, ~overlapped' PROVE LifeInv'
  BY DEF LifeInv
<1> USE DEF TypeInv
<1>1. CASE Shutdown
  BY <1>1, LifeUndisturbed DEF Shutdown, Live, Done
<1>2. CASE Start
  <2>1. Restarting = {} /\ Restarting' = {}
    BY <1>2 DEF Start, Restarting
  <2>2. Live = {}
    <3>1. made = 0
      BY <1>2 DEF Start, TypeOK, BudgetInv
    <3>2. \A l \in Loops : l > made
      BY <3>1, LoopsAssumption DEF Loops
    <3> QED
      BY <3>2 DEF Live, TypeOK
  <2>3. Live' \subseteq {made + 1} /\ cancel' = made + 1
    BY <1>2, <2>2, LaunchLive DEF Start
  <2> QED
    BY <2>1, <2>3 DEF LifeInv
<1>3. CASE \E l \in Loops : LoopStep(l)
  <2>1. Live' \subseteq Live
    BY <1>3 DEF LoopStep, LoopEnters, LoopSkips, LoopLeaves, TickerFires, LoopExits,
                workerVars, Live, Done, TypeOK
  <2> QED
    BY <1>3, <2>1, LifeUndisturbed DEF LoopStep, LoopEnters, LoopSkips, LoopLeaves,
                                       TickerFires, LoopExits, workerVars
<1>4. CASE \E n \in Resyncers : Resync(n) \/ ResyncLeaves(n)
  BY <1>4, LifeUndisturbed DEF Resync, ResyncLeaves, workerVars, Live, Done
<1>5. CASE \E r \in Restarters : Stop(r)
  <2> PICK r \in Restarters : Stop(r)
    BY <1>5
  <2>1. ~overlapped /\ Restarting = {}
    BY DEF Stop
  <2>2. Restarting' = {r}
    BY <2>1, RestartBegins DEF Stop
  <2>3. Live' = {}
    <3>1. \A l \in Live : cancel = l
      BY <2>1 DEF LifeInv
    <3>2. \A l \in Loops : stopped'[l] = (stopped[l] \/ l = cancel)
      BY DEF Stop, Cancel
    <3> QED
      BY <3>1, <3>2 DEF Stop, Live, Done
  <2> QED
    BY <2>2, <2>3 DEF LifeInv
<1>6. CASE \E r \in Restarters : StopReturns(r) \/ StopTimesOut(r)
  <2> PICK r \in Restarters : rpc[r] = "waiting" /\ Waited(r)
    BY <1>6 DEF StopReturns, StopTimesOut
  <2>1. Restarting' = Restarting
    BY RestartGoesOn DEF Waited
  <2>2. Live' = Live /\ UNCHANGED <<overlapped, cancel>>
    BY DEF Waited, workerVars, Live, Done
  <2> QED
    BY <2>1, <2>2 DEF LifeInv
<1>7. CASE \E r \in Restarters : Install(r)
  <2> PICK r \in Restarters : Install(r)
    BY <1>7
  <2>1. r \in Restarting /\ Restarting' = Restarting \ {r}
    BY RestartFinishes DEF Install, Fresh
  <2>2. ~overlapped
    BY DEF Install, Fresh
  <2>3. Restarting' = {} /\ Live = {}
    BY <2>1, <2>2 DEF LifeInv
  <2>4. Live' \subseteq {made + 1} /\ cancel' = made + 1
    BY <2>3, LaunchLive DEF Install, Fresh
  <2> QED
    BY <2>3, <2>4 DEF LifeInv
<1>8. CASE \E r \in Restarters : SkipInstall(r)
  <2> PICK r \in Restarters : SkipInstall(r)
    BY <1>8
  <2>1. Restarting' \subseteq Restarting
    BY RestartFinishes DEF SkipInstall
  <2>2. Live' = Live /\ UNCHANGED <<overlapped, cancel>>
    BY DEF SkipInstall, workerVars, Live, Done
  <2> QED
    BY <2>1, <2>2 DEF LifeInv
<1>9. CASE UNCHANGED vars
  BY <1>9, LifeUndisturbed DEF vars, workerVars, Live, Done
<1> QED
  BY <1>1, <1>2, <1>3, <1>4, <1>5, <1>6, <1>7, <1>8, <1>9 DEF Next, RestartStep

(* As long as restarts do not overlap, with each other or with Start, a    *)
(* loop that was not told to stop is the one the worker can cancel.  With  *)
(* the run that lets them overlap this says that the overlap is the only   *)
(* way to a loop nobody can stop.                                          *)
THEOREM LiveLoopsAreCurrent == Spec => []LiveLoopIsCurrent
<1>1. Init => LifeInv
  BY DEF Init, LifeInv, Restarting, Live
<1>2. Spec => []LifeInv
  BY <1>1, LifeStep, TypeInvariant, PTL DEF Spec
<1>3. LifeInv => LiveLoopIsCurrent
  BY DEF LifeInv, LiveLoopIsCurrent
<1> QED
  BY <1>2, <1>3, PTL
=============================================================================
