------------------------------- MODULE MCParts -------------------------------
(***************************************************************************)
(* An instance of Parts for TLC, with one more part beside its five: the   *)
(* throttle with four requests that are answered at once, for the spacing  *)
(* of their starts.                                                        *)
(***************************************************************************)
EXTENDS Parts

CONSTANTS p1, p2, y1, y2

(* Two playback requests compete with two syncs.                           *)
Queued == {p1, p2, y1, y2}
QueueOf == [r \in Queued |-> IF r \in {p1, p2} THEN "request" ELSE "sync"]
OneCall == [r \in Queued |-> 1]

VARIABLES
  pacing,  \* the throttle takes the steps, and no part of Parts does
  now, cancelled, lastCall, items, pc, cur, wakeAt, left, caller, totalCalls,
  successfulCalls, failedCalls, http429Calls, callWindow, userInfo, slots, owed,
  starts, sent, executed, lately, got429

throttleVars ==
  <<now, cancelled, lastCall, items, pc, cur, wakeAt, left, caller, totalCalls,
    successfulCalls, failedCalls, http429Calls, callWindow, userInfo, slots, owed,
    starts, sent, executed, lately, got429>>

Pacing == INSTANCE Throttle
  WITH Requests <- Queued, MaxCalls <- OneCall, Responses <- {"ok"},
       Rate <- 2, BufferSize <- 2, Window <- 3, IdleTime <- 2

PInit == Init /\ Pacing!Init /\ pacing \in BOOLEAN /\ (pacing => part = "buffer")

PNext ==
  \/ ~pacing /\ Next /\ UNCHANGED <<pacing, throttleVars>>
  \/ pacing /\ Pacing!Next /\ UNCHANGED <<pacing, vars>>

PSpec == PInit /\ [][PNext]_<<pacing, vars, throttleVars>>

SlotSpacing == Pacing!SlotSpacing
StartSpacing == Pacing!StartSpacing

(* Two folders, one with a subfolder, and a file at the top.  "show 2"     *)
(* begins like "show", and LIKE takes it for "show_2" too.                 *)
ShowPaths ==
  {<<"show", "b">>, <<"show", "s2", "c">>, <<"show", "s2", "d">>,
   <<"show 2", "b">>, <<"show_2", "a">>, <<"x">>}
ShowRank == [n \in {"a", "b", "c", "d", "x"} |->
  CASE n = "a" -> 1 [] n = "b" -> 2 [] n = "c" -> 3 [] OTHER -> 4]
ShowRest == [nm \in {<<"show", "show 2">>, <<"show", "show_2">>} |->
  IF nm[2] = "show 2" THEN " 2" ELSE "_2"]
ShowAlike == {<<"show_2", "show 2">>}

ShowFilter == [m \in {"big", "movies"} |->
  [dirs |-> {"show", "x"} \cup (IF m = "movies" THEN {"show_2"} ELSE {"show 2"}),
   files |-> {<<"a">>, <<"b">>, <<"s2", "c">>, <<"x">>}
             \cup (IF m = "movies" THEN {<<"s2", "d">>} ELSE {}),
   min |-> IF m = "big" THEN 2 ELSE 0,
   max |-> IF m = "big" THEN 0 ELSE 2,
   largest |-> m = "movies"]]

(* The names are such that the theorems about listings hold.               *)
ASSUME ShowNames ==
  /\ NoFileIsDirectory
  /\ \A d \in Tree!Dirs \cup Paths : SameKind(d) /\ LeavesApart(d)
  /\ \A d \in Tree!Dirs : StraysApart(d) /\ \A m \in Mounts : RanksApart(m, d)
=============================================================================
