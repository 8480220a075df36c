------------------------------ MODULE ApiHealth ------------------------------
(***************************************************************************)
(* The API health window of internal/server: the outcomes of the calls to  *)
(* TorBox and its CDN that the last healthWindow() saw, behind one mutex,  *)
(* and the two verdicts drawn from them, globalDegraded for the breaker    *)
(* and requestdlHealth for the landing page and the statistics.            *)
(*                                                                         *)
(* An outcome keeps the ticks until it leaves the window; it stays in the  *)
(* slice, at 0, until the next outcome is recorded.                        *)
(***************************************************************************)
EXTENDS Integers, Sequences, FiniteSetsExt

CONSTANTS
  HealthWindow,  \* APIHealthWindowSeconds
  MinSamples     \* globalHealthMinSamples

ASSUME HealthAssumption == HealthWindow \in Nat \ {0} /\ MinSamples \in Nat \ {0}

VARIABLES
  outcomes,   \* requestdlOutcomes, oldest first
  \* History
  recent      \* [ticks ago -> how much was recorded then]

healthVars == <<outcomes, recent>>

Outcome == [left : 0..HealthWindow, ok : BOOLEAN]
Ages == 0..HealthWindow - 1
Nothing == [ok |-> 0, bad |-> 0]

HealthInit ==
  /\ outcomes = <<>>
  /\ recent = [a \in Ages |-> Nothing]

(* Whether an outcome is After(cutoff).  The mutant counts those that      *)
(* left the window since the last one was recorded.                        *)
InWindowKept(o) == o.left >= 0
InWindow(o) == o.left > 0

(* recordOutcome: append, then drop what is older than the window.  The    *)
(* time is taken behind the mutex, so what is older comes first.           *)
Older(s) ==
  CHOOSE n \in 0..Len(s) :
    (\A i \in 1..n : ~InWindow(s[i])) /\ (n < Len(s) => InWindow(s[n + 1]))

RecordOutcome(ok) ==
  LET all == Append(outcomes, [left |-> HealthWindow, ok |-> ok])
  IN  outcomes' = SubSeq(all, Older(all) + 1, Len(all))

(* The readers pass over the rest.                                         *)
Window == {i \in 1..Len(outcomes) : InWindow(outcomes[i])}
Samples == Cardinality(Window)
CountOk == Cardinality({i \in Window : outcomes[i].ok})

(* Four failures in five, and enough of them to tell.  The mutant takes a  *)
(* window without a single success for no evidence.                        *)
RatioOfMixed(fails, total) == fails < total /\ total >= MinSamples /\ 5 * fails >= 4 * total
Ratio(fails, total) == total >= MinSamples /\ 5 * fails >= 4 * total
GlobalDegraded == Ratio(Samples - CountOk, Samples)

(* requestdlHealth.  The last success and failure are those of the window, *)
(* as the ticks they have left there, 0 for a zero time.                   *)
LastOf(ok) == Max({0} \cup {outcomes[i].left : i \in {j \in Window : outcomes[j].ok = ok}})

RequestdlHealth ==
  [samples     |-> Samples,
   successes   |-> CountOk,
   lastSuccess |-> LastOf(TRUE),
   lastFailure |-> LastOf(FALSE),
   tooFew      |-> Samples < MinSamples,
   degraded    |-> GlobalDegraded]

HealthTick ==
  /\ outcomes' = [i \in DOMAIN outcomes |->
       [outcomes[i] EXCEPT !.left = IF @ > 0 THEN @ - 1 ELSE 0]]
  /\ recent' = [a \in Ages |-> IF a = 0 THEN Nothing ELSE recent[a - 1]]

(* History: an outcome is recorded, or none.                               *)
Log(ok, bad) ==
  recent' = [recent EXCEPT ![0] = [ok |-> @.ok + ok, bad |-> @.bad + bad]]

-----------------------------------------------------------------------------
(* The same figures from the full account of the last HealthWindow ticks.  *)
Oks == Cardinality(UNION {{a} \X (1..recent[a].ok) : a \in Ages})
Bads == Cardinality(UNION {{a} \X (1..recent[a].bad) : a \in Ages})
NewestAge(S) == IF S = {} THEN 0 ELSE HealthWindow - Min(S)

TrueHealth ==
  [samples     |-> Oks + Bads,
   successes   |-> Oks,
   lastSuccess |-> NewestAge({a \in Ages : recent[a].ok > 0}),
   lastFailure |-> NewestAge({a \in Ages : recent[a].bad > 0}),
   tooFew      |-> Oks + Bads < MinSamples,
   degraded    |-> Ratio(Bads, Oks + Bads)]
=============================================================================
