----------------------------- MODULE SyncWorker -----------------------------
(***************************************************************************)
(* One metadata store, the goroutines that run SyncWorker.syncOnce on it   *)
(* (the periodic loop and SyncNow of the resync button), the GET handlers  *)
(* that cache CDN URLs in the same rows, and TorBox, whose content changes *)
(* on its own.                                                             *)
(*                                                                         *)
(* Each database statement is one atomic step, as SQLite makes it; between *)
(* two statements every other goroutine may run and the process may crash. *)
(* A listing is taken as one atomic reading of its source (its pages are   *)
(* the client's concern).                                                  *)
(***************************************************************************)
EXTENDS MetadataStore

CONSTANTS
  Syncers,        \* goroutines that may call syncOnce
  Handlers,       \* goroutines serving a GET
  BatchSize,      \* rows one DELETE of PruneBySyncTag removes at most
  UpsertMayFail,  \* BOOLEAN: whether UpsertFile may find the database locked
  MaxSyncs, MaxChanges, MaxFailures, MaxCrashes  \* bounds

ASSUME BatchAssumption == BatchSize \in Nat \ {0}
ASSUME LockAssumption  == UpsertMayFail \in BOOLEAN
ASSUME BoundAssumption ==
  /\ MaxSyncs \in Nat /\ MaxChanges \in Nat
  /\ MaxFailures \in Nat /\ MaxCrashes \in Nat

Failed == {"fetch failed"}  \* in place of a listing

VARIABLES
  upstream,   \* the files TorBox has, cached or present, with a file list
  syncing,    \* SyncWorker.syncing
  spc,        \* [Syncers -> where syncOnce stands]
  oldItems,   \* [Syncers -> the snapshot for change detection]
  fetched,    \* [Syncers -> [Sources -> listing or Failed]]
  syncTag,    \* [Syncers -> the tag reserved by this sync]
  todo,       \* [Syncers -> listed files not yet upserted]
  lastError,  \* SyncWorker.lastError # nil
  removed,    \* [Syncers -> what this sync passed to OnItemsRemoved]
  hpc, hfile, hurl,       \* each handler: step, row's file, URL in hand
  hid,                    \* [Handlers -> file.ID it read]
  changes, failures, crashes, \* how much of each bound is used
  \* History
  sound,      \* [Syncers -> BOOLEAN]: no statement of this sync failed so far
  answered,   \* [Sources -> SUBSET Files]: latest successful listing
  stable      \* files that stayed upstream since a listing showed them

syncVars    == <<syncing, spc, oldItems, fetched, syncTag, todo, lastError, removed, sound>>
handlerVars == <<hpc, hfile, hurl, hid>>
budget      == <<changes, failures, crashes>>
history     == <<answered, stable>>
vars == <<storeVars, upstream, syncVars, handlerVars, budget, history>>

Nothing == [src \in Sources |-> {}]

Init ==
  /\ StoreInit
  /\ upstream \in SUBSET Files
  /\ syncing = FALSE
  /\ spc = [s \in Syncers |-> "idle"]
  /\ oldItems = [s \in Syncers |-> {}]
  /\ fetched = [s \in Syncers |-> Nothing]
  /\ syncTag = [s \in Syncers |-> 0]
  /\ todo = [s \in Syncers |-> {}]
  /\ lastError = FALSE
  /\ removed = [s \in Syncers |-> {}]
  /\ hpc = [h \in Handlers |-> "idle"]
  /\ hfile = [h \in Handlers |-> NoURL]
  /\ hurl = [h \in Handlers |-> NoURL]
  /\ hid = [h \in Handlers |-> 0]
  /\ changes = 0 /\ failures = 0 /\ crashes = 0
  /\ sound = [s \in Syncers |-> TRUE]
  /\ answered = Nothing
  /\ stable = {}

GotoS(s, label) == spc' = [spc EXCEPT ![s] = label]

Fail ==
  /\ failures < MaxFailures
  /\ failures' = failures + 1
  /\ UNCHANGED <<changes, crashes>>

-----------------------------------------------------------------------------
(* TorBox: a file appears, or disappears (deleted, or no longer cached).   *)

Change(f) ==
  /\ changes < MaxChanges
  /\ changes' = changes + 1
  /\ upstream' = IF f \in upstream THEN upstream \ {f} ELSE upstream \cup {f}
  /\ stable' = stable \ {f}
  /\ UNCHANGED <<storeVars, syncVars, handlerVars, failures, crashes, answered>>

-----------------------------------------------------------------------------
(* syncOnce, statement by statement.                                       *)

Enter(s) ==
  /\ spc[s] = "idle" /\ metaTag < MaxSyncs
  /\ syncing' = TRUE
  /\ removed' = [removed EXCEPT ![s] = {}]
  /\ sound' = [sound EXCEPT ![s] = TRUE]
  /\ GotoS(s, "snapshot")
  /\ UNCHANGED <<storeVars, upstream, oldItems, fetched, syncTag, todo, lastError,
                 handlerVars, budget, history>>

(* CompareAndSwap on syncing: a caller that finds it set returns at once,  *)
(* which changes nothing.  The mutant is syncOnce without the guard.       *)
StartUnguarded(s) == Enter(s)
Start(s) == ~syncing /\ Enter(s)

(* ListItemDirs before the sync; on an error oldItems stays nil.           *)
Snapshot(s) ==
  /\ spc[s] = "snapshot"
  /\ \/ /\ oldItems' = [oldItems EXCEPT ![s] = ItemDirs]
        /\ UNCHANGED budget
     \/ /\ oldItems' = [oldItems EXCEPT ![s] = {}]
        /\ Fail
  /\ GotoS(s, "torrent")
  /\ UNCHANGED <<storeVars, upstream, syncing, fetched, syncTag, todo, lastError,
                 removed, sound, handlerVars, history>>

(* ListTorrents, then ListUsenet, through the sync queue (FIFO, one loop). *)
(* A listing fails on an API error, after its retries, or on cancellation. *)
Fetch(s, src, next) ==
  /\ spc[s] = src
  /\ LET answer == {f \in upstream : SourceOf[f] = src} IN
     \/ /\ fetched' = [fetched EXCEPT ![s][src] = answer]
        /\ answered' = [answered EXCEPT ![src] = answer]
        /\ stable' = stable \cup answer
        /\ UNCHANGED budget
     \/ /\ fetched' = [fetched EXCEPT ![s][src] = Failed]
        /\ Fail
        /\ UNCHANGED history
  /\ GotoS(s, next)
  /\ UNCHANGED <<storeVars, upstream, syncing, oldItems, syncTag, todo, lastError,
                 removed, sound, handlerVars>>

(* The end of syncOnce, by whichever return: the deferred Store(false).    *)
(* The mutant of the early return forgets it.                              *)
Leave(s) ==
  /\ syncing' = FALSE
  /\ GotoS(s, "idle")

Listing(s, src) == IF fetched[s][src] = Failed THEN {} ELSE fetched[s][src]

(* GetNextSyncTag; an error ends the sync with nothing else done, not even *)
(* the status.                                                             *)
ReserveTag(s) ==
  /\ spc[s] = "tag"
  /\ GetNextSyncTag
  /\ syncTag' = [syncTag EXCEPT ![s] = metaTag + 1]
  /\ todo' = [todo EXCEPT ![s] = UNION {Listing(s, src) : src \in Sources}]
  /\ GotoS(s, "upsert")
  /\ UNCHANGED <<upstream, syncing, oldItems, fetched, lastError, removed,
                 sound, handlerVars, budget, history>>

ReserveTagFailsLeaking(s) ==
  /\ spc[s] = "tag"
  /\ Fail
  /\ GotoS(s, "idle")
  /\ UNCHANGED <<storeVars, upstream, syncing, oldItems, fetched, syncTag, todo,
                 lastError, removed, sound, handlerVars, history>>

ReserveTagFails(s) ==
  /\ spc[s] = "tag"
  /\ Fail
  /\ Leave(s)
  /\ UNCHANGED <<storeVars, upstream, oldItems, fetched, syncTag, todo, lastError,
                 removed, sound, handlerVars, history>>

(* The two loops over the listings: torrents first; an upsert that fails   *)
(* is logged and skipped.                                                  *)
Upsert(s, f) ==
  /\ spc[s] = "upsert" /\ f \in todo[s]
  /\ SourceOf[f] = "usenet" => \A g \in todo[s] : SourceOf[g] = "usenet"
  /\ todo' = [todo EXCEPT ![s] = @ \ {f}]
  /\ \/ UpsertFile(f, syncTag[s]) /\ UNCHANGED <<sound, budget>>
     \/ /\ UpsertMayFail /\ Fail
        /\ sound' = [sound EXCEPT ![s] = FALSE]
        /\ UNCHANGED storeVars
  /\ UNCHANGED <<upstream, syncing, spc, oldItems, fetched, syncTag, lastError,
                 removed, handlerVars, history>>

Status(s) ==
  /\ spc[s] = "upsert" /\ todo[s] = {}
  /\ lastError' = \E src \in Sources : fetched[s][src] = Failed
  /\ GotoS(s, "prune torrent")
  /\ UNCHANGED <<storeVars, upstream, syncing, oldItems, fetched, syncTag, todo,
                 removed, sound, handlerVars, budget, history>>

(* PruneBySyncTag, one DELETE of at most BatchSize rows at a time, until   *)
(* one deletes nothing; on an error the rest stays for the next sync.  The *)
(* mutants prune a source that did not answer, or stop after one batch.    *)
PruneBatch(s, src, here) ==
  /\ spc[s] = here
  /\ \E batch \in SUBSET Prunable(syncTag[s], src) :
        /\ batch # {} /\ Cardinality(batch) <= BatchSize
        /\ \A f \in Prunable(syncTag[s], src) \ batch : Cardinality(batch) = BatchSize
        /\ Delete(batch)
  /\ UNCHANGED <<upstream, syncVars, handlerVars, budget, history>>

PruneBatchAlways(s, src, here) == PruneBatch(s, src, here)
PruneSource(s, src, here) == fetched[s][src] # Failed /\ PruneBatch(s, src, here)

PruneEndsEarly(s, src, here, next) ==
  /\ spc[s] = here
  /\ GotoS(s, next)
  /\ UNCHANGED <<storeVars, upstream, syncing, oldItems, fetched, syncTag, todo,
                 lastError, removed, sound, handlerVars, budget, history>>

PruneEnds(s, src, here, next) ==
  /\ spc[s] = here
  /\ \/ /\ fetched[s][src] = Failed \/ Prunable(syncTag[s], src) = {}
        /\ UNCHANGED <<sound, budget>>
     \/ Fail /\ sound' = [sound EXCEPT ![s] = FALSE]
  /\ GotoS(s, next)
  /\ UNCHANGED <<storeVars, upstream, syncing, oldItems, fetched, syncTag, todo,
                 lastError, removed, handlerVars, history>>

(* fireChangeHooks, when both lists are there to compare, then OnSyncDone; *)
(* without its list of items neither is called.                            *)
Hooks(s) ==
  /\ spc[s] = "hooks"
  /\ \/ /\ removed' = [removed EXCEPT ![s] =
             IF oldItems[s] # {} /\ ItemDirs # {} THEN oldItems[s] \ ItemDirs ELSE {}]
        /\ UNCHANGED budget
     \/ /\ removed' = [removed EXCEPT ![s] = {}]
        /\ Fail
  /\ GotoS(s, "done")
  /\ UNCHANGED <<storeVars, upstream, syncing, oldItems, fetched, syncTag, todo,
                 lastError, sound, handlerVars, history>>

Finish(s) ==
  /\ spc[s] = "done"
  /\ Leave(s)
  /\ UNCHANGED <<storeVars, upstream, oldItems, fetched, syncTag, todo, lastError,
                 removed, sound, handlerVars, budget, history>>

SyncStep(s) ==
  \/ Snapshot(s)
  \/ Fetch(s, "torrent", "usenet") \/ Fetch(s, "usenet", "tag")
  \/ ReserveTag(s) \/ ReserveTagFails(s)
  \/ \E f \in Files : Upsert(s, f)
  \/ Status(s)
  \/ PruneSource(s, "torrent", "prune torrent")
  \/ PruneEnds(s, "torrent", "prune torrent", "prune usenet")
  \/ PruneSource(s, "usenet", "prune usenet")
  \/ PruneEnds(s, "usenet", "prune usenet", "hooks")
  \/ Hooks(s) \/ Finish(s)

-----------------------------------------------------------------------------
(* A GET handler: GetFileByPath, a URL from TorBox for that file or for an *)
(* alternative at the same path, and SetCDNURL on the id read first.       *)

GotoH(h, label) == hpc' = [hpc EXCEPT ![h] = label]

Lookup(h) ==
  /\ hpc[h] = "idle"
  /\ \E path \in {PathOf[f] : f \in Rows} : \E f \in Primary(path) :
        /\ hfile' = [hfile EXCEPT ![h] = f]
        /\ hid' = [hid EXCEPT ![h] = id[f]]
  /\ GotoH(h, "fetch")
  /\ UNCHANGED <<storeVars, upstream, syncVars, hurl, budget, history>>

(* GetCDNURL finds an unexpired URL in the row.                            *)
CachedURL(h) ==
  /\ hpc[h] = "fetch" /\ hurl[h] = NoURL
  /\ \E f \in Rows : id[f] = hid[h] /\ url[f] # NoURL /\ hurl' = [hurl EXCEPT ![h] = url[f]]
  /\ GotoH(h, "proxy")
  /\ UNCHANGED <<storeVars, upstream, syncVars, hfile, hid, budget, history>>

(* fetchCDNURL for the file itself, else tryCDNFallback, which reads the   *)
(* rows of that path as they are now; a deleted file has no URL.  When     *)
(* neither answers the handler hangs and asks again.                       *)
FetchURL(h) ==
  /\ hpc[h] = "fetch"
  /\ \E f \in ({hfile[h]} \cup Alternatives(PathOf[hfile[h]])) \cap upstream :
        hurl' = [hurl EXCEPT ![h] = f]
  /\ GotoH(h, "cache")
  /\ UNCHANGED <<storeVars, upstream, syncVars, hfile, hid, budget, history>>

(* The request ends: the handler's locals are gone.                        *)
Return(h) ==
  /\ hid' = [hid EXCEPT ![h] = 0]
  /\ hfile' = [hfile EXCEPT ![h] = NoURL]
  /\ hurl' = [hurl EXCEPT ![h] = NoURL]
  /\ GotoH(h, "idle")

(* The client goes away, or a repair has found no URL.                     *)
GiveUp(h) ==
  /\ hpc[h] = "fetch"
  /\ Return(h)
  /\ UNCHANGED <<storeVars, upstream, syncVars, budget, history>>

(* SetCDNURL with the URL; three failed tries are only logged.             *)
CacheURL(h) ==
  /\ hpc[h] = "cache"
  /\ \/ SetCDNURL(hid[h], hurl[h]) /\ UNCHANGED budget
     \/ Fail /\ UNCHANGED storeVars
  /\ GotoH(h, "proxy")
  /\ UNCHANGED <<upstream, syncVars, hfile, hurl, hid, history>>

(* The CDN serves the request, or refuses the URL: a 416 clears the row's  *)
(* URL; so do a 429, a 5xx or a text body, and the handler hangs and asks  *)
(* for another; a 403 or 404 has it fetch another at once.                 *)
Served(h) ==
  /\ hpc[h] = "proxy"
  /\ UNCHANGED storeVars \/ SetCDNURL(hid[h], NoURL)
  /\ Return(h)
  /\ UNCHANGED <<upstream, syncVars, budget, history>>

Refused(h) ==
  /\ hpc[h] = "proxy"
  /\ UNCHANGED storeVars \/ SetCDNURL(hid[h], NoURL)
  /\ GotoH(h, "fetch")
  /\ UNCHANGED <<upstream, syncVars, hfile, hurl, hid, budget, history>>

Handle(h) ==
  \/ Lookup(h) \/ CachedURL(h) \/ FetchURL(h) \/ GiveUp(h)
  \/ CacheURL(h) \/ Served(h) \/ Refused(h)

(* The process dies and starts again: only the database survives.          *)
Crash ==
  /\ crashes < MaxCrashes
  /\ crashes' = crashes + 1
  /\ syncing' = FALSE
  /\ spc' = [s \in Syncers |-> "idle"]
  /\ oldItems' = [s \in Syncers |-> {}]
  /\ fetched' = [s \in Syncers |-> Nothing]
  /\ syncTag' = [s \in Syncers |-> 0]
  /\ todo' = [s \in Syncers |-> {}]
  /\ lastError' = FALSE
  /\ removed' = [s \in Syncers |-> {}]
  /\ sound' = [s \in Syncers |-> TRUE]
  /\ hpc' = [h \in Handlers |-> "idle"]
  /\ hfile' = [h \in Handlers |-> NoURL]
  /\ hurl' = [h \in Handlers |-> NoURL]
  /\ hid' = [h \in Handlers |-> 0]
  /\ UNCHANGED <<storeVars, upstream, changes, failures, history>>

Next ==
  \/ \E f \in Files : Change(f)
  \/ \E s \in Syncers : Start(s) \/ SyncStep(s)
  \/ \E h \in Handlers : Handle(h)
  \/ Crash

Spec == Init /\ [][Next]_vars

(* A goroutine inside syncOnce is scheduled; the timer and the button need *)
(* not fire.                                                               *)
FairSpec == Spec /\ \A s \in Syncers : WF_vars(SyncStep(s))

-----------------------------------------------------------------------------
(* Properties                                                              *)

SyncLabels == {"idle", "snapshot", "torrent", "usenet", "tag", "upsert",
               "prune torrent", "prune usenet", "hooks", "done"}

(* Types, with the order of the two counters of the database: every id and *)
(* every tag in use has been handed out, also across a crash.              *)
TypeOK ==
  /\ id \in [Files -> Nat] /\ tag \in [Files -> Nat]
  /\ url \in [Files -> Files \cup {NoURL}]
  /\ nextId \in Nat \ {0} /\ metaTag \in Nat
  /\ \A f \in Files : id[f] < nextId /\ tag[f] <= metaTag
  /\ upstream \subseteq Files
  /\ syncing \in BOOLEAN
  /\ spc \in [Syncers -> SyncLabels]
  /\ syncTag \in [Syncers -> Nat]
  /\ todo \in [Syncers -> SUBSET Files]
  /\ lastError \in BOOLEAN
  /\ sound \in [Syncers -> BOOLEAN]
  /\ hpc \in [Handlers -> {"idle", "fetch", "cache", "proxy"}]
  /\ hfile \in [Handlers -> Files \cup {NoURL}]
  /\ hurl \in [Handlers -> Files \cup {NoURL}]
  /\ hid \in [Handlers -> Nat]

(* At most one goroutine is inside syncOnce, and syncing says which state  *)
(* it is in, although it is taken and given back in different places.      *)
OneSyncAtATime ==
  /\ \A s, t \in Syncers : spc[s] # "idle" /\ spc[t] # "idle" => s = t
  /\ syncing <=> \E s \in Syncers : spc[s] # "idle"

(* A URL is cached only under the path it serves, although the row whose   *)
(* id a handler holds may be pruned, and others inserted, before the       *)
(* handler writes.                                                         *)
URLServesPath ==
  \A f \in Files : url[f] # NoURL => id[f] # 0 /\ PathOf[url[f]] = PathOf[f]

(* Once a sync without a database error has pruned a source, the rows of   *)
(* the source are exactly the files it listed, all with this sync's tag:   *)
(* nothing stale is left of earlier syncs, their failures and crashes.     *)
Pruned(s, src) ==
  /\ spc[s] \in {"hooks", "done"} \/ (spc[s] = "prune usenet" /\ src = "torrent")
  /\ fetched[s][src] # Failed

CleanSyncMirrors ==
  \A s \in Syncers, src \in Sources :
    Pruned(s, src) /\ sound[s] =>
      RowsOf(src) = fetched[s][src] /\ \A f \in RowsOf(src) : tag[f] = syncTag[s]

(* A file that stayed upstream since a listing showed it keeps its row:    *)
(* no failed fetch, crash, second sync or late prune takes it away.  (The  *)
(* comment at sync.go:425-429, for every cause but a failed upsert.)       *)
StableRowsKept ==
  [][\A f \in Rows : f \in stable \cap stable' => f \in Rows']_vars

(* The in-flight guard is given back on every path through syncOnce, or no *)
(* later sync would ever run.                                              *)
SyncsEnd == syncing ~> ~syncing

(* What the removal hook is told is true: no item passed to OnItemsRemoved *)
(* has a file that stayed upstream since a listing showed it, although the *)
(* two snapshots it compares are taken minutes apart, around listings that  *)
(* may fail and statements of which some may.  (For every cause but a      *)
(* failed upsert.)                                                         *)
RemovalsGenuine ==
  \A s \in Syncers :
    spc[s] = "done" => removed[s] \cap {<<SourceOf[f], ItemOf[f]>> : f \in stable} = {}

(* The library follows the successful listings and nothing else.           *)
Mirror == INSTANCE LibraryMirror WITH library <- Rows, listing <- answered
MirrorsListings == Mirror!Spec
=============================================================================
