------------------------------ MODULE LogBuffer ------------------------------
(***************************************************************************)
(* ringBufferHandler: the last lines logged, for the /logs page.  Handle   *)
(* and Lines hold the mutex throughout, so each is one step; the wrapped   *)
(* handler gets the record after the mutex is released.                    *)
(***************************************************************************)
EXTENDS Integers, SequencesExt

CONSTANTS
  Writers,   \* goroutines that log
  Messages,  \* what they log
  Capacity   \* ringBufferCapacity, positive

NoLine == "no line"

VARIABLES
  buf, pos, full,
  pending,  \* [Writers -> a record that the wrapped handler has yet to get, or NoLine]
  \* History
  latest    \* the last Capacity lines stored, newest first

vars == <<buf, pos, full, pending, latest>>

Init ==
  /\ buf = [i \in 0..Capacity - 1 |-> NoLine]
  /\ pos = 0 /\ full = FALSE
  /\ pending = [w \in Writers |-> NoLine]
  /\ latest = <<>>

(* What follows storing a line at pos.  The mutant notices that the buffer *)
(* is full one line late.                                                  *)
FullLate(next) == full \/ (next = 1 /\ buf[0] # NoLine)
Full(next) == full \/ next = 0

NextPos == (pos + 1) % Capacity

Handle(w, m) ==
  /\ pending[w] = NoLine
  /\ buf' = [buf EXCEPT ![pos] = m]
  /\ pos' = NextPos
  /\ full' = Full(NextPos)
  /\ pending' = [pending EXCEPT ![w] = m]
  /\ latest' = SubSeq(<<m>> \o latest, 1, IF Len(latest) < Capacity THEN Len(latest) + 1 ELSE Capacity)

Delegate(w) ==
  /\ pending[w] # NoLine
  /\ pending' = [pending EXCEPT ![w] = NoLine]
  /\ UNCHANGED <<buf, pos, full, latest>>

(* Lines(n): all of them unless n is one of 1..Capacity.                   *)
Lines(n) ==
  LET asked == IF n <= 0 \/ n > Capacity THEN Capacity ELSE n
      count == IF full THEN Capacity ELSE pos
      m     == IF asked > count THEN count ELSE asked
  IN  [i \in 1..m |-> buf[(pos - i + Capacity) % Capacity]]

Next == \E w \in Writers : Delegate(w) \/ \E m \in Messages : Handle(w, m)

Spec == Init /\ [][Next]_vars

-----------------------------------------------------------------------------
(* Properties                                                              *)
TypeOK ==
  /\ buf \in [0..Capacity - 1 -> Messages \cup {NoLine}]
  /\ pos \in 0..Capacity - 1 /\ full \in BOOLEAN
  /\ pending \in [Writers -> Messages \cup {NoLine}]

(* /logs shows the newest lines, newest first, as many as were asked for   *)
(* and are there, whether the buffer has wrapped or not (logs.go:80-105).  *)
LinesExact ==
  \A n \in -1..Capacity + 1 :
    Lines(n) = IF n \in 1..Len(latest) THEN SubSeq(latest, 1, n) ELSE latest
=============================================================================
