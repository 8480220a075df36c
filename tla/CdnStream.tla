------------------------------ MODULE CdnStream ------------------------------
(***************************************************************************)
(* The GET handlers of internal/server/get.go from the resolved file to    *)
(* the end of the response: streamFileContent with its repair loop,        *)
(* handleGetCDNHang with its poll loop, and the semaphore of CDN           *)
(* connections that all of them share.                                     *)
(*                                                                         *)
(* A CDN URL is either cached for a file or not; what fetchCDNURL and      *)
(* tryCDNFallback answer is left to the environment, but for the negative  *)
(* cache (CircuitBreaker has the rest).  So are the CDN's answers and the  *)
(* moment a client leaves.  Poll intervals and the outcomes recorded for   *)
(* the API health page are left out.                                       *)
(***************************************************************************)
EXTENDS Integers, FiniteSets

CONSTANTS
  Handlers,       \* goroutines serving a GET
  Files,          \* rows of the files table
  Alternatives,   \* the files that share their path with another item
  MaxConns,       \* max_cdn_connections
  RepairRetries,  \* cdn_url_repair_retries
  AutoRepair,     \* cdn_url_auto_repair
  CacheURLs       \* CDNTtlMinutes > 0

ASSUME ConnsAssumption  == MaxConns \in Nat \ {0}
ASSUME RepairAssumption == RepairRetries \in Nat /\ AutoRepair \in BOOLEAN
ASSUME CacheAssumption  == CacheURLs \in BOOLEAN /\ Alternatives \subseteq Files
ASSUME FilesAssumption  == Files # {}
ASSUME FiniteAssumption == IsFiniteSet(Handlers)

(* What the CDN may answer; "gone" is a request that fails, for instance   *)
(* because its client has left, "text" a text body with a 2xx status (in   *)
(* the hang mode with any status), "other" any other refusal.              *)
Answers == {"gone", "forbidden", "transient", "unsatisfiable", "other", "text", "media"}
Statuses == {"none", "success", "redirect", "416", "502", "500"}

VARIABLES
  slots,     \* tokens in cdnSem
  cached,    \* [Files -> BOOLEAN]: an unexpired cdn_url is stored
  negative,  \* [Files -> BOOLEAN]: a live entry in the negative cache
  pc, file, attempt,  \* each handler
  badRange,  \* [Handlers -> BOOLEAN]: parseRange will refuse the Range header
  status,    \* [Handlers -> the status line written for this response]
  body,      \* [Handlers -> what was copied to the client]
  left       \* [Handlers -> BOOLEAN]: r.Context() is done

handlerVars == <<pc, file, badRange, attempt, left>>
replyVars   == <<status, body>>
fileVars    == <<cached, negative>>
vars == <<slots, handlerVars, replyVars, fileVars>>

Holding == {"upstream", "hang upstream", "streaming"}
Labels == Holding \cup
  {"idle", "resolve", "store", "range", "request", "acquire", "repair", "repair store",
   "hang", "poll", "hang store", "hang acquire", "sleep", "done"}

NoFile == CHOOSE f \in Files : TRUE

Init ==
  /\ slots = MaxConns
  /\ cached \in [Files -> BOOLEAN]
  /\ negative = [f \in Files |-> FALSE]
  /\ pc = [h \in Handlers |-> "idle"]
  /\ file = [h \in Handlers |-> NoFile]
  /\ badRange = [h \in Handlers |-> FALSE]
  /\ attempt = [h \in Handlers |-> 0]
  /\ status = [h \in Handlers |-> "none"]
  /\ body = [h \in Handlers |-> "empty"]
  /\ left = [h \in Handlers |-> FALSE]

Goto(h, label) == pc' = [pc EXCEPT ![h] = label]
Write(h, s) == status' = [status EXCEPT ![h] = s]

(* http.Error or a redirect, and the handler returns.                      *)
Respond(h, s) == Write(h, s) /\ Goto(h, "done") /\ UNCHANGED body

-----------------------------------------------------------------------------
(* Clients and time.                                                       *)

(* handleGet: a stored file is asked for; without a Range a WebDAV client  *)
(* is redirected to a cached URL (one that runs out meanwhile is not seen  *)
(* by the handler), all others are proxied.                                *)
Request(h) ==
  /\ pc[h] = "idle"
  /\ \E f \in Files :
       /\ file' = [file EXCEPT ![h] = f]
       /\ \/ /\ cached[f]
             /\ Respond(h, "redirect")
             /\ UNCHANGED badRange
          \/ /\ \E bad \in BOOLEAN : badRange' = [badRange EXCEPT ![h] = bad]
             /\ Goto(h, "resolve")
             /\ UNCHANGED replyVars
  /\ UNCHANGED <<slots, attempt, left, fileVars>>

Leave(h) ==
  /\ pc[h] # "idle" /\ ~left[h]
  /\ left' = [left EXCEPT ![h] = TRUE]
  /\ UNCHANGED <<slots, pc, file, badRange, attempt, replyVars, fileVars>>

(* The handler has returned.                                               *)
Done(h) ==
  /\ pc[h] = "done"
  /\ Goto(h, "idle")
  /\ file' = [file EXCEPT ![h] = NoFile]
  /\ badRange' = [badRange EXCEPT ![h] = FALSE]
  /\ attempt' = [attempt EXCEPT ![h] = 0]
  /\ left' = [left EXCEPT ![h] = FALSE]
  /\ status' = [status EXCEPT ![h] = "none"]
  /\ body' = [body EXCEPT ![h] = "empty"]
  /\ UNCHANGED <<slots, fileVars>>

ExpireNegative(f) ==
  /\ negative[f]
  /\ negative' = [negative EXCEPT ![f] = FALSE]
  /\ UNCHANGED <<slots, cached, handlerVars, replyVars>>

ExpireURL(f) ==
  /\ cached[f]
  /\ cached' = [cached EXCEPT ![f] = FALSE]
  /\ UNCHANGED <<slots, handlerVars, replyVars, negative>>

-----------------------------------------------------------------------------
(* The calls the handlers make.                                            *)

(* fetchCDNURL, then tryCDNFallback: a URL or an error.  The negative      *)
(* cache answers for the file while its entry lives; an API failure makes  *)
(* a new entry, a refusal by the circuit breaker does not.                 *)
FetchSucceeds(f) == (~negative[f] \/ f \in Alternatives) /\ UNCHANGED fileVars
FetchFails(f) ==
  /\ negative' = [negative EXCEPT ![f] = TRUE] \/ UNCHANGED negative
  /\ UNCHANGED cached

(* SetCDNURL with the fetched URL; a database error is only logged.        *)
StoreURL(f) ==
  \/ CacheURLs /\ cached' = [cached EXCEPT ![f] = TRUE]
  \/ UNCHANGED cached

(* SetCDNURL with no URL, also without effect on a database error.         *)
Invalidate(f) ==
  \/ CacheURLs /\ cached' = [cached EXCEPT ![f] = FALSE]
  \/ UNCHANGED cached

(* AcquireCDNConn blocks until there is a token; ReleaseCDNConn.           *)
Acquire(h, from, to) ==
  /\ pc[h] = from /\ slots > 0
  /\ slots' = slots - 1
  /\ Goto(h, to)
  /\ UNCHANGED <<file, badRange, attempt, left, replyVars, fileVars>>

Release == slots' = slots + 1

(* A 416 with a size in Content-Range that is not the stored one corrects  *)
(* the row, drops the URL and makes a negative entry.                      *)
CorrectSize(f) ==
  \/ UNCHANGED fileVars
  \/ /\ Invalidate(f)
     /\ negative' = [negative EXCEPT ![f] = TRUE]

-----------------------------------------------------------------------------
(* streamFileContent                                                       *)

ResolveCached(h) ==
  /\ pc[h] = "resolve" /\ cached[file[h]]
  /\ Goto(h, "range")
  /\ UNCHANGED <<slots, file, badRange, attempt, left, replyVars, fileVars>>

ResolveFails(h) ==
  /\ pc[h] = "resolve"
  /\ Respond(h, "500")
  /\ UNCHANGED <<slots, file, badRange, attempt, left, fileVars>>

ResolveFetch(h) ==
  /\ pc[h] = "resolve" /\ ~cached[file[h]]
  /\ \/ FetchSucceeds(file[h]) /\ Goto(h, "store")
     \/ FetchFails(file[h]) /\ Goto(h, "hang")
  /\ UNCHANGED <<slots, file, badRange, attempt, left, replyVars>>

Store(h, from, to) ==
  /\ pc[h] = from
  /\ StoreURL(file[h])
  /\ Goto(h, to)
  /\ UNCHANGED <<slots, file, badRange, attempt, left, replyVars, negative>>

ParseRange(h) ==
  /\ pc[h] = "range"
  /\ IF badRange[h] THEN Respond(h, "416") ELSE Goto(h, "request") /\ UNCHANGED replyVars
  /\ UNCHANGED <<slots, file, badRange, attempt, left, fileVars>>

(* One round of the repair loop begins: the URL may not parse.             *)
NewRequest(h) ==
  /\ pc[h] = "request"
  /\ (Goto(h, "acquire") /\ UNCHANGED replyVars) \/ Respond(h, "500")
  /\ UNCHANGED <<slots, file, badRange, attempt, left, fileVars>>

(* The CDN's answer to one attempt, with a slot held.                      *)
LastAttemptLate(h) == attempt[h] > RepairRetries
LastAttempt(h) == attempt[h] = RepairRetries
Repairs(h) == AutoRepair /\ ~LastAttempt(h)

ProxyFails(h, answer) ==
  /\ answer = "gone" \/ answer = "other" \/ (answer = "forbidden" /\ ~Repairs(h))
  /\ Release
  /\ Respond(h, "502")
  /\ IF answer = "forbidden" /\ LastAttempt(h)
     THEN /\ negative' = [negative EXCEPT ![file[h]] = TRUE]
          /\ UNCHANGED cached
     ELSE UNCHANGED fileVars

(* The mutant keeps the slot.                                              *)
ProxyRepairLeaking(h, answer) ==
  /\ answer = "forbidden" /\ Repairs(h)
  /\ Goto(h, "repair")
  /\ UNCHANGED <<slots, replyVars, fileVars>>

ProxyRepair(h, answer) ==
  /\ answer = "forbidden" /\ Repairs(h)
  /\ Release
  /\ Goto(h, "repair")
  /\ UNCHANGED <<replyVars, fileVars>>

ProxyHangs(h, answer) ==
  /\ answer \in {"transient", "text"}
  /\ Release
  /\ Invalidate(file[h])
  /\ Goto(h, "hang")
  /\ UNCHANGED <<replyVars, negative>>

ProxyUnsatisfiable(h, answer) ==
  /\ answer = "unsatisfiable"
  /\ Release
  /\ CorrectSize(file[h])
  /\ Respond(h, "416")

(* The slot is given back by a deferred call when the copy has ended.      *)
ProxyStreams(h, answer) ==
  /\ answer = "media"
  /\ Write(h, "success")
  /\ body' = [body EXCEPT ![h] = "media"]
  /\ Goto(h, "streaming")
  /\ UNCHANGED <<slots, fileVars>>

Proxy(h) ==
  /\ pc[h] = "upstream"
  /\ \E answer \in Answers :
       /\ left[h] => answer = "gone"
       /\ \/ ProxyFails(h, answer) \/ ProxyRepair(h, answer)
          \/ ProxyHangs(h, answer) \/ ProxyUnsatisfiable(h, answer)
          \/ ProxyStreams(h, answer)
  /\ UNCHANGED <<file, badRange, attempt, left>>

(* A 403 or 404 is repaired with a URL fetched afresh.                     *)
Repair(h) ==
  /\ pc[h] = "repair"
  /\ \/ /\ FetchSucceeds(file[h])
        /\ attempt' = [attempt EXCEPT ![h] = @ + 1]
        /\ Goto(h, "repair store")
        /\ UNCHANGED replyVars
     \/ /\ FetchFails(file[h])
        /\ Respond(h, "502")
        /\ UNCHANGED attempt
  /\ UNCHANGED <<slots, file, badRange, left>>

(* io.Copy ends: the body is complete, the CDN breaks off or the client.   *)
Copied(h) ==
  /\ pc[h] = "streaming"
  /\ Release
  /\ Goto(h, "done")
  /\ UNCHANGED <<file, badRange, attempt, left, replyVars, fileVars>>

-----------------------------------------------------------------------------
(* handleGetCDNHang                                                        *)

HangStarts(h) ==
  /\ pc[h] = "hang"
  /\ IF badRange[h]
     THEN Respond(h, "416")
     ELSE Write(h, "success") /\ Goto(h, "poll") /\ UNCHANGED body
  /\ UNCHANGED <<slots, file, badRange, attempt, left, fileVars>>

HangFetch(h) ==
  /\ pc[h] = "poll"
  /\ \/ FetchSucceeds(file[h]) /\ Goto(h, "hang store")
     \/ FetchFails(file[h]) /\ Goto(h, "sleep")
  /\ UNCHANGED <<slots, file, badRange, attempt, left, replyVars>>

(* The select: r.Context().Done() or the timer.  (A client that leaves     *)
(* just as the timer fires counts as leaving after it.)  The mutant is a   *)
(* plain sleep.                                                            *)
SleepDeaf(h) ==
  /\ pc[h] = "sleep"
  /\ Goto(h, "poll")
  /\ UNCHANGED <<slots, file, badRange, attempt, left, replyVars, fileVars>>

Sleep(h) ==
  /\ pc[h] = "sleep"
  /\ Goto(h, IF left[h] THEN "done" ELSE "poll")
  /\ UNCHANGED <<slots, file, badRange, attempt, left, replyVars, fileVars>>

HangRetries(h, answer) ==
  /\ answer \in {"gone", "transient", "text"}
  /\ Release
  /\ Goto(h, "sleep")
  /\ IF answer = "gone" THEN UNCHANGED cached ELSE Invalidate(file[h])
  /\ UNCHANGED <<replyVars, negative>>

(* The status is out: the response just ends, without data.  The mutant    *)
(* writes an error all the same.                                           *)
HangRefusesLate(h, answer) ==
  /\ answer \in {"unsatisfiable", "forbidden", "other"}
  /\ Release
  /\ Respond(h, "502")
  /\ IF answer = "unsatisfiable" THEN CorrectSize(file[h]) ELSE UNCHANGED fileVars

HangRefuses(h, answer) ==
  /\ answer \in {"unsatisfiable", "forbidden", "other"}
  /\ Release
  /\ Goto(h, "done")
  /\ IF answer = "unsatisfiable" THEN CorrectSize(file[h]) ELSE UNCHANGED fileVars
  /\ UNCHANGED replyVars

(* The mutant copies whatever comes with a 200.                            *)
HangStreamsText(h, answer) ==
  /\ answer \in {"media", "text"}
  /\ body' = [body EXCEPT ![h] = answer]
  /\ Goto(h, "streaming")
  /\ UNCHANGED <<slots, status, fileVars>>

HangStreams(h, answer) ==
  /\ answer = "media"
  /\ body' = [body EXCEPT ![h] = answer]
  /\ Goto(h, "streaming")
  /\ UNCHANGED <<slots, status, fileVars>>

HangProxy(h) ==
  /\ pc[h] = "hang upstream"
  /\ \E answer \in Answers :
       /\ left[h] => answer = "gone"
       /\ HangRetries(h, answer) \/ HangRefuses(h, answer) \/ HangStreams(h, answer)
  /\ UNCHANGED <<file, badRange, attempt, left>>

-----------------------------------------------------------------------------
GetsSlot(h) ==
  Acquire(h, "acquire", "upstream") \/ Acquire(h, "hang acquire", "hang upstream")

Handle(h) ==
  \/ ResolveCached(h) \/ ResolveFails(h) \/ ResolveFetch(h)
  \/ Store(h, "store", "range") \/ ParseRange(h) \/ NewRequest(h)
  \/ Proxy(h) \/ Repair(h) \/ Store(h, "repair store", "request") \/ Copied(h)
  \/ HangStarts(h) \/ HangFetch(h) \/ Store(h, "hang store", "hang acquire")
  \/ Sleep(h) \/ HangProxy(h) \/ Done(h)

Next ==
  \/ \E h \in Handlers : Request(h) \/ Leave(h) \/ GetsSlot(h) \/ Handle(h)
  \/ \E f \in Files : ExpireNegative(f) \/ ExpireURL(f)

Spec == Init /\ [][Next]_vars

(* Handlers are scheduled, every HTTP exchange ends by its timeout, and a  *)
(* channel hands its tokens out first come, first served: a handler that   *)
(* waits for one gets one if there is one again and again.                 *)
FairSpec ==
  Spec /\ \A h \in Handlers : WF_vars(Handle(h)) /\ SF_vars(GetsSlot(h))

-----------------------------------------------------------------------------
(* Properties                                                              *)

TypeOK ==
  /\ slots \in 0..MaxConns
  /\ cached \in [Files -> BOOLEAN] /\ negative \in [Files -> BOOLEAN]
  /\ pc \in [Handlers -> Labels] /\ file \in [Handlers -> Files]
  /\ badRange \in [Handlers -> BOOLEAN] /\ attempt \in [Handlers -> 0..RepairRetries]
  /\ status \in [Handlers -> Statuses]
  /\ body \in [Handlers -> {"empty", "media", "text"}]
  /\ left \in [Handlers -> BOOLEAN]

(* Every slot is in the semaphore or with a handler that talks to the CDN: *)
(* no path out of the two loops loses one or gives one back twice, and a   *)
(* handler that sleeps, fetches a URL or waits for a slot holds none.      *)
SlotsConserved == slots + Cardinality({h \in Handlers : pc[h] \in Holding}) = MaxConns

(* A response has one status line: once the hang mode has promised success *)
(* no later failure writes another.                                        *)
OneStatus ==
  [][\A h \in Handlers :
       status[h] # "none" => status'[h] = status[h] \/ pc'[h] = "idle"]_vars

(* Error pages of the CDN are never passed on as the file's data, which    *)
(* rclone would keep in its cache, and data only follows a success.        *)
OnlyMedia ==
  \A h \in Handlers : body[h] # "empty" => body[h] = "media" /\ status[h] = "success"

(* A handler whose client has left comes to its end, although it may be    *)
(* waiting for a slot, asleep or hanging, so that it frees what it holds.  *)
LeaversEnd == \A h \in Handlers : left[h] ~> pc[h] = "idle"

(* Nobody waits for a slot for ever while clients come and go.             *)
SlotsServed ==
  \A h \in Handlers :
    pc[h] \in {"acquire", "hang acquire"} ~> pc[h] \notin {"acquire", "hang acquire"}

=============================================================================
