------------------------------- MODULE Paging -------------------------------
(***************************************************************************)
(* One source's listing as internal/torbox/client.go makes it: page by     *)
(* page with an offset, each page retried in place, against a library that *)
(* changes between the pages.  SyncWorker takes a listing for one step;    *)
(* here it is taken apart.                                                 *)
(*                                                                         *)
(* TorBox lists the newest items first.  Items are numbered as they are    *)
(* created.                                                                *)
(***************************************************************************)
EXTENDS Integers, Sequences, FiniteSets, Functions

CONSTANTS
  PageSize,       \* ListFilesParams.PageSize, positive
  Cap,            \* what TorBox returns at most in one response, PageSize or more
  RetryAttempts,  \* ListFilesParams.RetryAttempts
  AtFirst,        \* items in the library at first
  MaxAdds,        \* bound: items added
  MaxRemovals,    \* bound: items removed
  MaxFailures     \* bound: pages that fail

VARIABLES
  library,    \* the items upstream
  created,    \* the number of the newest
  pc, offset, attempt, all,  \* listGeneric
  failures,   \* pages that have failed
  \* History
  stayed,     \* the items that have been upstream since the listing began
  seen,       \* those that have been there at some time since
  adds, removals,         \* changes so far
  addsFrom, removalsFrom  \* and when the listing began

upstream == <<library, created, adds, removals, stayed, seen>>
client == <<pc, offset, attempt, all, failures, addsFrom, removalsFrom>>
vars == <<upstream, client>>

Init ==
  /\ library = 1..AtFirst /\ created = AtFirst
  /\ pc = "idle" /\ offset = 0 /\ attempt = 0 /\ all = <<>>
  /\ failures = 0
  /\ stayed = library /\ seen = library
  /\ adds = 0 /\ removals = 0 /\ addsFrom = 0 /\ removalsFrom = 0

-----------------------------------------------------------------------------
(* TorBox                                                                  *)
Arrive ==
  /\ adds < MaxAdds
  /\ created' = created + 1
  /\ library' = library \cup {created'}
  /\ adds' = adds + 1
  /\ seen' = seen \cup {created'}
  /\ UNCHANGED <<client, removals, stayed>>

Leave ==
  /\ removals < MaxRemovals
  /\ \E i \in library : library' = library \ {i} /\ stayed' = stayed \ {i}
  /\ removals' = removals + 1
  /\ UNCHANGED <<client, created, adds, seen>>

(* The i-th item is the one with i - 1 newer ones.                         *)
NewestFirst(S) ==
  [i \in 1..Cardinality(S) |->
     CHOOSE x \in S : Cardinality({y \in S : y > x}) = i - 1]

(* A response's data: limit items from offset on, if there are so many.    *)
Response(S, from, limit) ==
  LET n == IF limit < Cap THEN limit ELSE Cap
      last == IF from + n < Cardinality(S) THEN from + n ELSE Cardinality(S)
  IN  SubSeq(NewestFirst(S), from + 1, last)

-----------------------------------------------------------------------------
(* listGeneric                                                             *)
Begin ==
  /\ pc = "idle"
  /\ pc' = "request"
  /\ offset' = 0 /\ attempt' = 0 /\ all' = <<>>
  /\ stayed' = library /\ seen' = library
  /\ addsFrom' = adds /\ removalsFrom' = removals
  /\ UNCHANGED <<library, created, adds, removals, failures>>

(* A page is appended; a short one is the end of the list.                *)
Page ==
  /\ pc = "request"
  /\ LET page == Response(library, offset, PageSize) IN
     /\ all' = all \o page
     /\ IF Len(page) < PageSize
        THEN pc' = "listed" /\ UNCHANGED offset
        ELSE pc' = "request" /\ offset' = offset + Len(page)
  /\ attempt' = 0
  /\ UNCHANGED <<upstream, failures, addsFrom, removalsFrom>>

(* IsRetryable: 429, 5xx, time-outs, refused connections.  The same page   *)
(* is asked for again.                                                     *)
PageRetried ==
  /\ pc = "request" /\ failures < MaxFailures
  /\ attempt < RetryAttempts
  /\ failures' = failures + 1
  /\ attempt' = attempt + 1
  /\ pc' = "backoff"
  /\ UNCHANGED <<upstream, offset, all, addsFrom, removalsFrom>>

BackoffEnds ==
  /\ pc = "backoff"
  /\ pc' = "request"
  /\ UNCHANGED <<upstream, offset, attempt, all, failures, addsFrom, removalsFrom>>

(* The retries are used up, or the answer is an error of another kind, a   *)
(* body that does not decode, an error in the envelope; or the context is  *)
(* done.  The pages so far are dropped.  The mutant returns them.          *)
GiveUpWith(label) ==
  /\ pc \in {"request", "backoff"} /\ failures < MaxFailures
  /\ failures' = failures + 1
  /\ pc' = label
  /\ UNCHANGED <<upstream, offset, attempt, all, addsFrom, removalsFrom>>

GiveUpPartial == GiveUpWith("listed")
GiveUp == GiveUpWith("failed")

(* The sync has the list, or the error.                                    *)
Return ==
  /\ pc \in {"listed", "failed"}
  /\ pc' = "idle" /\ all' = <<>> /\ offset' = 0
  /\ attempt' = 0
  /\ UNCHANGED <<upstream, failures, addsFrom, removalsFrom>>

List == Begin \/ Page \/ PageRetried \/ BackoffEnds \/ GiveUp \/ Return

Next == Arrive \/ Leave \/ List

Spec == Init /\ [][Next]_vars

-----------------------------------------------------------------------------
(* Properties                                                              *)
Numbers == 1..AtFirst + MaxAdds

(* Types, and the offset is where the pages so far end.                    *)
TypeOK ==
  /\ library \subseteq Numbers /\ created \in 0..AtFirst + MaxAdds
  /\ pc \in {"idle", "request", "backoff", "listed", "failed"}
  /\ attempt \in 0..RetryAttempts /\ all \in Seq(Numbers)
  /\ offset \in 0..Len(all)
  /\ pc \in {"request", "backoff"} => offset = Len(all)
  /\ failures \in 0..MaxFailures
  /\ stayed \subseteq library /\ library \subseteq Numbers /\ seen \subseteq Numbers
  /\ adds \in 0..MaxAdds /\ removals \in 0..MaxRemovals
  /\ addsFrom \in 0..adds /\ removalsFrom \in 0..removals

(* Every removal while a listing is under way can hide one item from it,   *)
(* and every addition can show one twice, but no more than that: retries   *)
(* and page boundaries lose and repeat nothing, and nothing is listed that *)
(* was not there (client.go:181-260).                                      *)
ListingErrsByChanges ==
  pc = "listed" =>
    /\ Cardinality(stayed \ Range(all)) <= removals - removalsFrom
    /\ Len(all) - Cardinality(Range(all)) <= adds - addsFrom
    /\ Range(all) \subseteq seen
=============================================================================
