--------------------------- MODULE SyncWorkerProofs ---------------------------
(***************************************************************************)
(* Proofs about SyncWorker, for all sets of files, syncing goroutines and  *)
(* GET handlers, all batch sizes and any number of failures and crashes.   *)
(***************************************************************************)
EXTENDS SyncWorker, TLAPS

-----------------------------------------------------------------------------
(* One sync at a time                                                      *)

ActiveSyncers == {s \in Syncers : spc[s] # "idle"}

GuardInv ==
  /\ DOMAIN spc = Syncers
  /\ \/ syncing /\ \E s \in Syncers : ActiveSyncers = {s}
     \/ ~syncing /\ ActiveSyncers = {}

(* A step inside syncOnce.                                                 *)
LEMMA GuardInside ==
  ASSUME GuardInv, NEW s \in Syncers, NEW label \in SyncLabels \ {"idle"},
         spc[s] # "idle", GotoS(s, label), UNCHANGED syncing
  PROVE  GuardInv'
<1>1. ActiveSyncers' = ActiveSyncers /\ DOMAIN spc' = Syncers
  BY DEF GuardInv, GotoS, ActiveSyncers
<1> QED
  BY <1>1 DEF GuardInv

LEMMA GuardLeft ==
  ASSUME GuardInv, NEW s \in Syncers, spc[s] # "idle", Leave(s)
  PROVE  GuardInv'
<1>1. ActiveSyncers = {s}
  BY DEF GuardInv, ActiveSyncers
<1>2. ActiveSyncers' = {} /\ DOMAIN spc' = Syncers
  BY <1>1 DEF GuardInv, Leave, GotoS, ActiveSyncers
<1> QED
  BY <1>2 DEF GuardInv, Leave

LEMMA GuardUndisturbed ==
  ASSUME GuardInv, UNCHANGED <<syncing, spc>>
  PROVE  GuardInv'
BY DEF GuardInv, ActiveSyncers

LEMMA GuardStep == GuardInv /\ [Next]_vars => GuardInv'
<1> SUFFICES ASSUME GuardInv, [Next]_vars PROVE GuardInv'
  OBVIOUS
<1>1. CASE \E s \in Syncers : Start(s)
  <2> PICK s \in Syncers : Start(s)
    BY <1>1
  <2>1. ActiveSyncers' = {s} /\ syncing' /\ DOMAIN spc' = Syncers
    BY DEF GuardInv, Start, Enter, GotoS, ActiveSyncers
  <2> QED
    BY <2>1 DEF GuardInv
<1>2. CASE \E s \in Syncers : SyncStep(s)
  <2> PICK s \in Syncers : SyncStep(s)
    BY <1>2
  <2>1. CASE Snapshot(s)
    BY <2>1, GuardInside DEF Snapshot, SyncLabels
  <2>2. CASE Fetch(s, "torrent", "usenet") \/ Fetch(s, "usenet", "tag")
    BY <2>2, GuardInside DEF Fetch, SyncLabels
  <2>3. CASE ReserveTag(s)
    BY <2>3, GuardInside DEF ReserveTag, SyncLabels
  <2>4. CASE ReserveTagFails(s)
    BY <2>4, GuardLeft DEF ReserveTagFails
  <2>5. CASE \E f \in Files : Upsert(s, f)
    BY <2>5, GuardUndisturbed DEF Upsert
  <2>6. CASE Status(s)
    BY <2>6, GuardInside DEF Status, SyncLabels
  <2>7. CASE \/ PruneSource(s, "torrent", "prune torrent")
             \/ PruneSource(s, "usenet", "prune usenet")
    BY <2>7, GuardUndisturbed DEF PruneSource, PruneBatch, syncVars
  <2>8. CASE \/ PruneEnds(s, "torrent", "prune torrent", "prune usenet")
             \/ PruneEnds(s, "usenet", "prune usenet", "hooks")
    BY <2>8, GuardInside DEF PruneEnds, SyncLabels
  <2>9. CASE Hooks(s)
    BY <2>9, GuardInside DEF Hooks, SyncLabels
  <2>10. CASE Finish(s)
    BY <2>10, GuardLeft DEF Finish
  <2> QED
    BY <2>1, <2>2, <2>3, <2>4, <2>5, <2>6, <2>7, <2>8, <2>9, <2>10 DEF SyncStep
<1>3. CASE \/ \E f \in Files : Change(f)
           \/ \E h \in Handlers : Handle(h)
           \/ UNCHANGED vars
  BY <1>3, GuardUndisturbed DEF Change, Handle, Lookup, CachedURL, FetchURL, GiveUp,
                                CacheURL, Served, Refused, syncVars, vars
<1>4. CASE Crash
  BY <1>4 DEF Crash, GuardInv, ActiveSyncers
<1> QED
  BY <1>1, <1>2, <1>3, <1>4 DEF Next

(* Two goroutines are never inside syncOnce together, and the guard is set *)
(* exactly while one is, through every error path and every crash.         *)
THEOREM SyncsExclude == Spec => []OneSyncAtATime
<1>1. Init => GuardInv
  BY DEF Init, GuardInv, ActiveSyncers
<1>2. Spec => []GuardInv
  BY <1>1, GuardStep, PTL DEF Spec
<1>3. GuardInv => OneSyncAtATime
  BY DEF GuardInv, OneSyncAtATime, ActiveSyncers
<1> QED
  BY <1>2, <1>3, PTL

-----------------------------------------------------------------------------
(* Cached URLs                                                             *)

(* Ids are handed out once: AUTOINCREMENT's counter is above every id in   *)
(* the table, above those that handlers remember, and rows differ in it.   *)
IdInv ==
  /\ id \in [Files -> Nat] /\ nextId \in Nat \ {0}
  /\ \A f \in Files : id[f] < nextId
  /\ \A f, g \in Files : id[f] = id[g] /\ id[f] # 0 => f = g

(* A handler under way knows a file of its path, and the row that has the  *)
(* id it remembers, if there still is one, is of that path, as is the file *)
(* whose URL it has in hand.                                               *)
HandlerInv ==
  /\ hpc \in [Handlers -> {"idle", "fetch", "cache", "proxy"}]
  /\ hfile \in [Handlers -> Files \cup {NoURL}]
  /\ hurl \in [Handlers -> Files \cup {NoURL}]
  /\ hid \in [Handlers -> Nat]
  /\ \A h \in Handlers :
       /\ hid[h] < nextId
       /\ hpc[h] = "idle" => hurl[h] = NoURL
       /\ hpc[h] # "idle" =>
            /\ hfile[h] \in Files
            /\ \A f \in Rows : id[f] = hid[h] => PathOf[f] = PathOf[hfile[h]]
       /\ hurl[h] # NoURL => PathOf[hurl[h]] = PathOf[hfile[h]]

UrlInv ==
  /\ url \in [Files -> Files \cup {NoURL}]
  /\ URLServesPath

CacheInv == IdInv /\ HandlerInv /\ UrlInv

(* The statements of the store                                             *)

LEMMA UpsertCache ==
  ASSUME CacheInv, NEW f \in Files, NEW t, UpsertFile(f, t), UNCHANGED handlerVars
  PROVE  CacheInv'
<1>1. CASE id[f] = 0
  <2>1. /\ id' = [id EXCEPT ![f] = nextId]
        /\ url' = [url EXCEPT ![f] = NoURL]
        /\ nextId' = nextId + 1
    BY <1>1 DEF UpsertFile
  <2>2. IdInv'
    BY <2>1 DEF CacheInv, IdInv
  <2>3. HandlerInv'
    BY <2>1 DEF CacheInv, IdInv, HandlerInv, handlerVars, Rows
  <2>4. UrlInv'
    BY <2>1, FileAssumption DEF CacheInv, IdInv, UrlInv, URLServesPath
  <2> QED
    BY <2>2, <2>3, <2>4 DEF CacheInv
<1>2. CASE id[f] # 0
  BY <1>2 DEF UpsertFile, CacheInv, IdInv, HandlerInv, UrlInv, URLServesPath, handlerVars, Rows
<1> QED
  BY <1>1, <1>2

LEMMA DeleteCache ==
  ASSUME CacheInv, NEW batch \in SUBSET Files, Delete(batch), UNCHANGED handlerVars
  PROVE  CacheInv'
<1>1. IdInv'
  BY DEF Delete, CacheInv, IdInv
<1>2. HandlerInv'
  BY DEF Delete, CacheInv, IdInv, HandlerInv, handlerVars, Rows
<1>3. UrlInv'
  BY DEF Delete, CacheInv, IdInv, UrlInv, URLServesPath
<1> QED
  BY <1>1, <1>2, <1>3 DEF CacheInv

(* The write by a remembered id, of the URL in hand or of none.            *)
LEMMA WriteCache ==
  ASSUME CacheInv, NEW h \in Handlers, hpc[h] # "idle", NEW u \in {hurl[h], NoURL},
         SetCDNURL(hid[h], u)
  PROVE  /\ IdInv' /\ UrlInv' /\ UNCHANGED <<id, nextId>>
<1>1. IdInv' /\ UNCHANGED <<id, nextId>>
  BY DEF SetCDNURL, CacheInv, IdInv
<1>2. url' \in [Files -> Files \cup {NoURL}]
  BY DEF SetCDNURL, CacheInv, UrlInv, HandlerInv
<1>3. ASSUME NEW f \in Files, url'[f] # NoURL
      PROVE  id'[f] # 0 /\ PathOf[url'[f]] = PathOf[f]
  <2>1. CASE id[f] = hid[h] /\ id[f] # 0
    BY <1>1, <1>3, <2>1 DEF SetCDNURL, CacheInv, HandlerInv, Rows
  <2>2. CASE ~(id[f] = hid[h] /\ id[f] # 0)
    BY <1>1, <1>3, <2>2 DEF SetCDNURL, CacheInv, UrlInv, URLServesPath
  <2> QED
    BY <2>1, <2>2
<1> QED
  BY <1>1, <1>2, <1>3 DEF UrlInv, URLServesPath

LEMMA CacheUndisturbed ==
  ASSUME CacheInv, UNCHANGED <<id, url, nextId, handlerVars>>
  PROVE  CacheInv'
BY DEF CacheInv, IdInv, HandlerInv, UrlInv, URLServesPath, handlerVars, Rows

(* The steps of a handler                                                  *)

LEMMA HandlerCache ==
  ASSUME CacheInv, NEW h \in Handlers, Handle(h)
  PROVE  CacheInv'
<1> USE DEF CacheInv
<1>1. CASE Lookup(h)
  <2> PICK f \in Rows : hfile' = [hfile EXCEPT ![h] = f] /\ hid' = [hid EXCEPT ![h] = id[f]]
    BY <1>1 DEF Lookup, Primary
  <2>1. IdInv' /\ UrlInv'
    BY <1>1 DEF Lookup, storeVars, IdInv, UrlInv, URLServesPath
  <2>2. HandlerInv'
    BY <1>1 DEF Lookup, GotoH, storeVars, IdInv, HandlerInv, Rows
  <2> QED
    BY <2>1, <2>2
<1>2. CASE CachedURL(h)
  <2> PICK f \in Rows : id[f] = hid[h] /\ url[f] # NoURL /\ hurl' = [hurl EXCEPT ![h] = url[f]]
    BY <1>2 DEF CachedURL
  <2>1. IdInv' /\ UrlInv'
    BY <1>2 DEF CachedURL, storeVars, IdInv, UrlInv, URLServesPath
  <2>2. HandlerInv'
    BY <1>2 DEF CachedURL, GotoH, storeVars, HandlerInv, UrlInv, URLServesPath, Rows
  <2> QED
    BY <2>1, <2>2
<1>3. CASE FetchURL(h)
  <2> PICK f \in {hfile[h]} \cup Alternatives(PathOf[hfile[h]]) :
        hurl' = [hurl EXCEPT ![h] = f]
    BY <1>3 DEF FetchURL
  <2>1. f \in Files /\ PathOf[f] = PathOf[hfile[h]]
    BY <1>3 DEF FetchURL, HandlerInv, Alternatives, Rows
  <2>2. IdInv' /\ UrlInv'
    BY <1>3 DEF FetchURL, storeVars, IdInv, UrlInv, URLServesPath
  <2>3. HandlerInv'
    BY <1>3, <2>1 DEF FetchURL, GotoH, storeVars, HandlerInv, Rows
  <2> QED
    BY <2>2, <2>3
<1>4. ASSUME Return(h), IdInv', UrlInv', UNCHANGED <<id, nextId>>
      PROVE  HandlerInv'
  BY <1>4 DEF Return, GotoH, HandlerInv, IdInv, Rows
<1>5. CASE GiveUp(h)
  <2>1. IdInv' /\ UrlInv' /\ UNCHANGED <<id, nextId>>
    BY <1>5 DEF GiveUp, storeVars, IdInv, UrlInv, URLServesPath
  <2> QED
    BY <1>4, <1>5, <2>1 DEF GiveUp
<1>6. CASE CacheURL(h)
  <2>1. IdInv' /\ UrlInv' /\ UNCHANGED <<id, nextId>>
    <3>1. CASE SetCDNURL(hid[h], hurl[h])
      BY <1>6, <3>1, WriteCache DEF CacheURL
    <3>2. CASE UNCHANGED storeVars
      BY <3>2 DEF storeVars, IdInv, UrlInv, URLServesPath
    <3> QED
      BY <1>6, <3>1, <3>2 DEF CacheURL
  <2>2. HandlerInv'
    BY <1>6, <2>1 DEF CacheURL, GotoH, HandlerInv, Rows
  <2> QED
    BY <2>1, <2>2
<1>7. CASE Served(h) \/ Refused(h)
  <2>1. IdInv' /\ UrlInv' /\ UNCHANGED <<id, nextId>>
    <3>1. CASE SetCDNURL(hid[h], NoURL)
      BY <1>7, <3>1, WriteCache DEF Served, Refused
    <3>2. CASE UNCHANGED storeVars
      BY <3>2 DEF storeVars, IdInv, UrlInv, URLServesPath
    <3> QED
      BY <1>7, <3>1, <3>2 DEF Served, Refused
  <2>2. CASE Served(h)
    BY <1>4, <2>1, <2>2 DEF Served
  <2>3. CASE Refused(h)
    <3>1. HandlerInv'
      BY <2>1, <2>3 DEF Refused, GotoH, HandlerInv, Rows
    <3> QED
      BY <2>1, <3>1
  <2> QED
    BY <1>7, <2>2, <2>3
<1> QED
  BY <1>1, <1>2, <1>3, <1>5, <1>6, <1>7 DEF Handle

LEMMA CacheStep == CacheInv /\ [Next]_vars => CacheInv'
<1> SUFFICES ASSUME CacheInv, [Next]_vars PROVE CacheInv'
  OBVIOUS
<1>1. CASE \E h \in Handlers : Handle(h)
  BY <1>1, HandlerCache
<1>2. CASE \E s \in Syncers : \E f \in Files : Upsert(s, f)
  <2> PICK s \in Syncers, f \in Files : Upsert(s, f)
    BY <1>2
  <2>1. CASE UpsertFile(f, syncTag[s])
    BY <2>1, UpsertCache DEF Upsert
  <2>2. CASE UNCHANGED storeVars
    BY <2>2, CacheUndisturbed DEF Upsert, storeVars
  <2> QED
    BY <2>1, <2>2 DEF Upsert
<1>3. CASE \E s \in Syncers : \/ PruneSource(s, "torrent", "prune torrent")
                            \/ PruneSource(s, "usenet", "prune usenet")
  <2> PICK batch \in SUBSET Files : Delete(batch)
    BY <1>3 DEF PruneSource, PruneBatch, Prunable, RowsOf, Rows
  <2> QED
    BY <1>3, DeleteCache DEF PruneSource, PruneBatch
<1>4. CASE Crash
  <2>1. IdInv' /\ UrlInv'
    BY <1>4 DEF Crash, CacheInv, storeVars, IdInv, UrlInv, URLServesPath
  <2>2. HandlerInv'
    BY <1>4 DEF Crash, CacheInv, storeVars, IdInv, HandlerInv, Rows
  <2> QED
    BY <2>1, <2>2 DEF CacheInv
<1>5. CASE UNCHANGED <<id, url, nextId, handlerVars>>
  BY <1>5, CacheUndisturbed
<1>6. CASE \E f \in Files : Change(f)
  BY <1>5, <1>6 DEF Change, storeVars
<1>7. CASE \E s \in Syncers : Start(s)
  BY <1>5, <1>7 DEF Start, Enter, storeVars
<1>8. CASE \E s \in Syncers :
             \/ Snapshot(s) \/ Fetch(s, "torrent", "usenet") \/ Fetch(s, "usenet", "tag")
             \/ ReserveTag(s) \/ ReserveTagFails(s) \/ Status(s)
             \/ PruneEnds(s, "torrent", "prune torrent", "prune usenet")
             \/ PruneEnds(s, "usenet", "prune usenet", "hooks")
             \/ Hooks(s) \/ Finish(s)
  BY <1>5, <1>8 DEF Snapshot, Fetch, ReserveTag, GetNextSyncTag, ReserveTagFails, Status,
                    PruneEnds, Hooks, Finish, storeVars
<1>9. CASE UNCHANGED vars
  BY <1>5, <1>9 DEF vars, storeVars
<1> QED
  BY <1>1, <1>2, <1>3, <1>4, <1>6, <1>7, <1>8, <1>9 DEF Next, SyncStep

(* A URL is never cached in the row of another path, however many syncs    *)
(* delete and insert rows between a handler's reading of an id and its     *)
(* write: ids are not reused.                                              *)
THEOREM URLsServeTheirPaths == Spec => []URLServesPath
<1>1. Init => CacheInv
  BY DEF Init, StoreInit, CacheInv, IdInv, HandlerInv, UrlInv, URLServesPath, Rows
<1>2. Spec => []CacheInv
  BY <1>1, CacheStep, PTL DEF Spec
<1>3. CacheInv => URLServesPath
  BY DEF CacheInv, UrlInv
<1> QED
  BY <1>2, <1>3, PTL
-----------------------------------------------------------------------------
(* Types                                                                   *)

TagInv ==
  /\ tag \in [Files -> Nat] /\ metaTag \in Nat
  /\ syncTag \in [Syncers -> Nat]
  /\ \A f \in Files : tag[f] <= metaTag
  /\ \A s \in Syncers : syncTag[s] <= metaTag

FlowInv ==
  /\ spc \in [Syncers -> SyncLabels]
  /\ todo \in [Syncers -> SUBSET Files]
  /\ fetched \in [Syncers -> [Sources -> (SUBSET Files) \cup {Failed}]]
  /\ upstream \subseteq Files

FlagInv == syncing \in BOOLEAN /\ lastError \in BOOLEAN /\ sound \in [Syncers -> BOOLEAN]

LEMMA TagStep == TagInv /\ [Next]_vars => TagInv'
<1> SUFFICES ASSUME TagInv, [Next]_vars PROVE TagInv'
  OBVIOUS
<1> USE DEF TagInv
<1>1. ASSUME UNCHANGED <<tag, metaTag, syncTag>> PROVE TagInv'
  BY <1>1
<1>2. CASE \E s \in Syncers : ReserveTag(s)
  <2> PICK s \in Syncers : ReserveTag(s)
    BY <1>2
  <2>1. /\ metaTag' = metaTag + 1 /\ tag' = tag
        /\ syncTag' = [syncTag EXCEPT ![s] = metaTag + 1]
    BY DEF ReserveTag, GetNextSyncTag
  <2> QED
    BY <2>1
<1>3. CASE \E s \in Syncers, f \in Files : Upsert(s, f)
  <2> PICK s \in Syncers, f \in Files : Upsert(s, f)
    BY <1>3
  <2>1. /\ tag' = tag \/ tag' = [tag EXCEPT ![f] = syncTag[s]]
        /\ UNCHANGED <<metaTag, syncTag>>
    BY DEF Upsert, UpsertFile, storeVars
  <2> QED
    BY <2>1
<1>4. CASE \E s \in Syncers : \/ PruneSource(s, "torrent", "prune torrent")
                            \/ PruneSource(s, "usenet", "prune usenet")
  <2>1. PICK batch \in SUBSET Files : Delete(batch)
    BY <1>4 DEF PruneSource, PruneBatch, Prunable, RowsOf, Rows
  <2>2. UNCHANGED <<metaTag, syncTag>>
    BY <1>4 DEF PruneSource, PruneBatch, Delete, syncVars
  <2> QED
    BY <2>1, <2>2 DEF Delete
<1>5. CASE \E s \in Syncers : Start(s)
  BY <1>1, <1>5 DEF Start, Enter, storeVars
<1>6. CASE \E s \in Syncers :
             \/ Snapshot(s) \/ Fetch(s, "torrent", "usenet") \/ Fetch(s, "usenet", "tag")
             \/ ReserveTagFails(s) \/ Status(s)
             \/ PruneEnds(s, "torrent", "prune torrent", "prune usenet")
             \/ PruneEnds(s, "usenet", "prune usenet", "hooks")
             \/ Hooks(s) \/ Finish(s)
  BY <1>1, <1>6 DEF Snapshot, Fetch, ReserveTagFails, Status, PruneEnds, Hooks, Finish,
                    storeVars
<1>7. CASE \E h \in Handlers : Handle(h)
  BY <1>1, <1>7 DEF Handle, Lookup, CachedURL, FetchURL, GiveUp, CacheURL, Served, Refused,
                    SetCDNURL, storeVars, syncVars
<1>8. CASE Crash
  BY <1>8 DEF Crash, storeVars
<1>9. CASE (\E f \in Files : Change(f)) \/ UNCHANGED vars
  BY <1>1, <1>9 DEF Change, vars, storeVars, syncVars
<1> QED
  BY <1>2, <1>3, <1>4, <1>5, <1>6, <1>7, <1>8, <1>9 DEF Next, SyncStep
LEMMA FlowStep == FlowInv /\ [Next]_vars => FlowInv'
<1> SUFFICES ASSUME FlowInv, [Next]_vars PROVE FlowInv'
  OBVIOUS
<1> USE DEF FlowInv, SyncLabels, GotoS
<1>1. ASSUME UNCHANGED <<spc, todo, fetched, upstream>> PROVE FlowInv'
  BY <1>1
<1>2. ASSUME NEW s \in Syncers, NEW label \in SyncLabels, GotoS(s, label),
             UNCHANGED <<todo, fetched, upstream>>
      PROVE  FlowInv'
  BY <1>2
<1>3. ASSUME NEW s \in Syncers, NEW src \in Sources, NEW label \in SyncLabels,
             Fetch(s, src, label)
      PROVE  FlowInv'
  <2>1. PICK answer \in (SUBSET Files) \cup {Failed} :
          fetched' = [fetched EXCEPT ![s][src] = answer]
    BY <1>3 DEF Fetch
  <2>2. [fetched[s] EXCEPT ![src] = answer] \in [Sources -> (SUBSET Files) \cup {Failed}]
    OBVIOUS
  <2>3. fetched' \in [Syncers -> [Sources -> (SUBSET Files) \cup {Failed}]]
    BY <2>1, <2>2
  <2> QED
    BY <1>3, <2>3 DEF Fetch
<1>4. CASE \E s \in Syncers : ReserveTag(s)
  <2> PICK s \in Syncers : ReserveTag(s)
    BY <1>4
  <2>1. \A src \in Sources : Listing(s, src) \subseteq Files
    BY DEF Listing
  <2>2. UNION {Listing(s, src) : src \in Sources} \in SUBSET Files
    BY <2>1
  <2>3. todo' = [todo EXCEPT ![s] = UNION {Listing(s, src) : src \in Sources}]
    BY DEF ReserveTag
  <2>4. todo' \in [Syncers -> SUBSET Files]
    BY <2>2, <2>3
  <2> QED
    BY <2>4 DEF ReserveTag
<1>5. CASE \E s \in Syncers, f \in Files : Upsert(s, f)
  BY <1>5 DEF Upsert
<1>6. CASE \E s \in Syncers : Start(s)
  BY <1>2, <1>6 DEF Start, Enter
<1>7. CASE \E s \in Syncers :
             Snapshot(s) \/ ReserveTagFails(s) \/ Status(s) \/ Hooks(s) \/ Finish(s)
  BY <1>2, <1>7 DEF Snapshot, ReserveTagFails, Status, Hooks, Finish, Leave
<1>8. CASE \E s \in Syncers :
             \/ PruneSource(s, "torrent", "prune torrent")
             \/ PruneEnds(s, "torrent", "prune torrent", "prune usenet")
             \/ PruneSource(s, "usenet", "prune usenet")
             \/ PruneEnds(s, "usenet", "prune usenet", "hooks")
  BY <1>1, <1>2, <1>8 DEF PruneSource, PruneBatch, PruneEnds, syncVars
<1>9. CASE \E s \in Syncers : Fetch(s, "torrent", "usenet") \/ Fetch(s, "usenet", "tag")
  BY <1>3, <1>9 DEF Sources
<1>10. CASE \E h \in Handlers : Handle(h)
  BY <1>1, <1>10 DEF Handle, Lookup, CachedURL, FetchURL, GiveUp, CacheURL, Served, Refused,
                     syncVars
<1>11. CASE Crash
  <2>1. Nothing \in [Sources -> (SUBSET Files) \cup {Failed}]
    BY DEF Nothing
  <2>2. fetched' \in [Syncers -> [Sources -> (SUBSET Files) \cup {Failed}]]
    BY <1>11, <2>1 DEF Crash
  <2> QED
    BY <1>11, <2>2 DEF Crash
<1>12. CASE \E f \in Files : Change(f)
  BY <1>12 DEF Change, syncVars
<1>13. CASE UNCHANGED vars
  BY <1>1, <1>13 DEF vars, syncVars
<1> QED
  BY <1>4, <1>5, <1>6, <1>7, <1>8, <1>9, <1>10, <1>11, <1>12, <1>13 DEF Next, SyncStep

LEMMA FlagStep == FlagInv /\ [Next]_vars => FlagInv'
<1> SUFFICES ASSUME FlagInv, [Next]_vars PROVE FlagInv'
  OBVIOUS
<1> USE DEF FlagInv
<1>1. ASSUME UNCHANGED <<syncing, lastError, sound>> PROVE FlagInv'
  BY <1>1
<1>2. CASE \E s \in Syncers : Start(s)
  BY <1>2 DEF Start, Enter
<1>3. CASE \E s \in Syncers, f \in Files : Upsert(s, f)
  BY <1>3 DEF Upsert
<1>4. CASE \E s \in Syncers : ReserveTagFails(s) \/ Finish(s)
  BY <1>4 DEF ReserveTagFails, Finish, Leave
<1>5. CASE \E s \in Syncers : Status(s)
  BY <1>5 DEF Status
<1>6. CASE \E s \in Syncers :
             \/ PruneEnds(s, "torrent", "prune torrent", "prune usenet")
             \/ PruneEnds(s, "usenet", "prune usenet", "hooks")
  BY <1>6 DEF PruneEnds
<1>7. CASE \E s \in Syncers :
             \/ Snapshot(s) \/ Fetch(s, "torrent", "usenet") \/ Fetch(s, "usenet", "tag")
             \/ ReserveTag(s) \/ Hooks(s)
             \/ PruneSource(s, "torrent", "prune torrent")
             \/ PruneSource(s, "usenet", "prune usenet")
  BY <1>1, <1>7 DEF Snapshot, Fetch, ReserveTag, Hooks, PruneSource, PruneBatch, syncVars
<1>8. CASE Crash
  BY <1>8 DEF Crash
<1>9. CASE \/ \E f \in Files : Change(f)
           \/ \E h \in Handlers : Handle(h)
           \/ UNCHANGED vars
  BY <1>1, <1>9 DEF Change, Handle, Lookup, CachedURL, FetchURL, GiveUp, CacheURL, Served,
                    Refused, syncVars, vars
<1> QED
  BY <1>2, <1>3, <1>4, <1>5, <1>6, <1>7, <1>8, <1>9 DEF Next, SyncStep

LEMMA InitFlow == Init => FlowInv
<1>1. Nothing \in [Sources -> (SUBSET Files) \cup {Failed}]
  BY DEF Nothing
<1> QED
  BY <1>1 DEF Init, FlowInv, SyncLabels

(* Every id and every tag in the table has been handed out, across failed  *)
(* statements and crashes, and every variable has its type.                *)
THEOREM TypeCorrect == Spec => []TypeOK
<1>1. Init => CacheInv
  BY DEF Init, StoreInit, CacheInv, IdInv, HandlerInv, UrlInv, URLServesPath, Rows
<1>2. Init => TagInv
  BY DEF Init, StoreInit, TagInv
<1>3. Init => FlagInv
  BY DEF Init, FlagInv
<1>4. CacheInv /\ TagInv /\ FlowInv /\ FlagInv => TypeOK
  BY DEF CacheInv, IdInv, HandlerInv, UrlInv, TagInv, FlowInv, FlagInv, TypeOK
<1> QED
  BY <1>1, <1>2, <1>3, <1>4, InitFlow, CacheStep, TagStep, FlowStep, FlagStep, PTL DEF Spec
=============================================================================
