--------------------------- MODULE SyncMirrorProofs ---------------------------
(***************************************************************************)
(* What the sync leaves in the library, for all files, sources' answers,   *)
(* failures and crashes: that SyncWorker implements LibraryMirror.         *)
(***************************************************************************)
EXTENDS SyncWorkerProofs

(* The source has answered this sync, or has failed to.                    *)
Asked(s, src) ==
  /\ spc[s] \notin {"idle", "snapshot", "torrent"}
  /\ src = "torrent" \/ spc[s] # "usenet"

Tagging == {"upsert", "prune torrent", "prune usenet", "hooks", "done"}

NoUpsertFailed(s) == sound[s] \/ ~UpsertMayFail

(* What sync s knows of the latest listings, and of its tag: the files it  *)
(* has listed are those that carry the tag, or will.                       *)
ListingInv(s) ==
  \A src \in Sources : Asked(s, src) => fetched[s][src] \in {Failed, answered[src]}

TaggingInv(s) ==
  spc[s] \in Tagging =>
    /\ syncTag[s] # 0
    /\ spc[s] # "upsert" => todo[s] = {}
    /\ \A f \in todo[s] : f \in Listing(s, SourceOf[f])
    /\ \A f \in Files : tag[f] = syncTag[s] => f \in Listing(s, SourceOf[f])
    /\ NoUpsertFailed(s) =>
         \A f \in Files : f \in Listing(s, SourceOf[f]) /\ f \notin todo[s] =>
           id[f] # 0 /\ tag[f] = syncTag[s]

PrunedInv(s) ==
  \A src \in Sources : Pruned(s, src) /\ sound[s] =>
    \A f \in RowsOf(src) : tag[f] = syncTag[s]

SyncInv(s) == ListingInv(s) /\ TaggingInv(s) /\ PrunedInv(s)

AnswerInv ==
  /\ answered \in [Sources -> SUBSET Files]
  /\ \A src \in Sources : \A f \in answered[src] : SourceOf[f] = src

SyncerTypes == GuardInv /\ IdInv /\ TagInv /\ FlowInv /\ FlagInv

MirrorInv == AnswerInv /\ \A s \in Syncers : SyncInv(s)

-----------------------------------------------------------------------------
(* Syncs that are idle know nothing.                                       *)
LEMMA IdleKnowsNothing ==
  ASSUME NEW s, spc[s] = "idle" PROVE SyncInv(s)
BY DEF SyncInv, ListingInv, TaggingInv, PrunedInv, Asked, Tagging, Pruned

LEMMA OthersIdle ==
  ASSUME SyncerTypes, NEW s \in Syncers, spc[s] # "idle",
         UNCHANGED spc \/ \E label \in SyncLabels : GotoS(s, label),
         AnswerInv', SyncInv(s)'
  PROVE  MirrorInv'
<1> SUFFICES ASSUME NEW t \in Syncers \ {s} PROVE SyncInv(t)'
  BY DEF MirrorInv
<1>1. spc[t] = "idle"
  BY DEF SyncerTypes, GuardInv, ActiveSyncers
<1>2. spc'[t] = "idle"
  BY <1>1 DEF GotoS, SyncerTypes, FlowInv
<1> QED
  BY <1>2 DEF SyncInv, ListingInv, TaggingInv, PrunedInv, Asked, Tagging, Pruned

(* Steps that leave alone what the invariant is about.                     *)
LEMMA MirrorUndisturbed ==
  ASSUME MirrorInv,
         UNCHANGED <<id, tag, spc, fetched, syncTag, todo, sound, answered>>
  PROVE  MirrorInv'
<1>1. AnswerInv'
  BY DEF MirrorInv, AnswerInv
<1>2. ASSUME NEW s \in Syncers PROVE ListingInv(s)'
  BY DEF MirrorInv, SyncInv, ListingInv, Asked
<1>3. ASSUME NEW s \in Syncers PROVE TaggingInv(s)'
  BY DEF MirrorInv, SyncInv, TaggingInv, Listing, NoUpsertFailed
<1>4. ASSUME NEW s \in Syncers PROVE PrunedInv(s)'
  BY DEF MirrorInv, SyncInv, PrunedInv, Pruned, RowsOf, Rows
<1> QED
  BY <1>1, <1>2, <1>3, <1>4 DEF MirrorInv, SyncInv

-----------------------------------------------------------------------------
(* The steps of a sync                                                     *)

LEMMA FetchMirror ==
  ASSUME SyncerTypes, MirrorInv, NEW s \in Syncers,
         \/ Fetch(s, "torrent", "usenet")
         \/ Fetch(s, "usenet", "tag")
  PROVE  MirrorInv'
<1> DEFINE answer(src) == {f \in upstream : SourceOf[f] = src}
<1>1. PICK src \in Sources, label \in {"usenet", "tag"} :
        /\ Fetch(s, src, label)
        /\ src = "torrent" <=> label = "usenet"
  BY DEF Sources
<1>2. /\ spc[s] = src /\ spc' = [spc EXCEPT ![s] = label]
      /\ spc'[s] = label /\ label \in SyncLabels
  BY <1>1 DEF Fetch, GotoS, SyncerTypes, FlowInv, SyncLabels
<1>5. spc[s] # "idle" /\ GotoS(s, label) /\ label \in SyncLabels
  BY <1>1, <1>2 DEF Fetch, Sources
<1>6. TaggingInv(s)' /\ PrunedInv(s)'
  BY <1>2 DEF TaggingInv, PrunedInv, Tagging, Pruned
<1>3. CASE /\ fetched' = [fetched EXCEPT ![s][src] = answer(src)]
           /\ answered' = [answered EXCEPT ![src] = answer(src)]
  <2>1. AnswerInv'
    BY <1>3 DEF MirrorInv, AnswerInv, SyncerTypes, FlowInv
  <2>2. ListingInv(s)'
    BY <1>1, <1>2, <1>3 DEF MirrorInv, AnswerInv, SyncInv, ListingInv, Asked, SyncerTypes,
                            FlowInv, Sources
  <2> QED
    BY <1>5, <1>6, <2>1, <2>2, OthersIdle DEF SyncInv
<1>4. CASE fetched' = [fetched EXCEPT ![s][src] = Failed] /\ UNCHANGED answered
  <2>1. AnswerInv'
    BY <1>4 DEF MirrorInv, AnswerInv
  <2>2. ListingInv(s)'
    BY <1>1, <1>2, <1>4 DEF MirrorInv, SyncInv, ListingInv, Asked, SyncerTypes,
                            FlowInv, Sources
  <2> QED
    BY <1>5, <1>6, <2>1, <2>2, OthersIdle DEF SyncInv
<1> QED
  BY <1>1, <1>3, <1>4 DEF Fetch, history

LEMMA ReserveMirror ==
  ASSUME SyncerTypes, MirrorInv, NEW s \in Syncers, ReserveTag(s)
  PROVE  MirrorInv'
<1>1. /\ spc[s] = "tag" /\ spc'[s] = "upsert" /\ GotoS(s, "upsert")
      /\ UNCHANGED <<id, tag, fetched, sound, answered>>
      /\ syncTag'[s] = metaTag + 1
      /\ todo'[s] = UNION {Listing(s, src) : src \in Sources}
  <2>1. spc[s] = "tag" /\ GotoS(s, "upsert") /\ UNCHANGED <<id, tag, fetched, sound, answered>>
    BY DEF ReserveTag, GetNextSyncTag, history
  <2>2. spc'[s] = "upsert"
    BY <2>1 DEF GotoS, SyncerTypes, FlowInv
  <2>3. syncTag'[s] = metaTag + 1
    BY DEF ReserveTag, SyncerTypes, TagInv
  <2>4. todo'[s] = UNION {Listing(s, src) : src \in Sources}
    BY DEF ReserveTag, SyncerTypes, FlowInv
  <2> QED
    BY <2>1, <2>2, <2>3, <2>4
<1>2. \A src \in Sources : Listing(s, src)' = Listing(s, src)
  BY <1>1 DEF Listing
<1>3. \A src \in Sources : \A f \in Listing(s, src) : f \in Files /\ SourceOf[f] = src
  BY <1>1 DEF Listing, MirrorInv, AnswerInv, SyncInv, ListingInv, Asked, SyncerTypes, FlowInv
<1>4. \A f \in Files : f \in todo'[s] <=> f \in Listing(s, SourceOf[f])
  BY <1>1, <1>3, SourceAssumption
<1>5. /\ syncTag'[s] # 0 /\ \A f \in Files : tag[f] # syncTag'[s]
  BY <1>1 DEF SyncerTypes, TagInv
<1>6. TaggingInv(s)'
  <2>1. \A f \in todo'[s] : f \in Files
    BY <1>1, <1>3
  <2>2. \A f \in Files : f \in Listing(s, SourceOf[f])' <=> f \in Listing(s, SourceOf[f])
    BY <1>1 DEF Listing
  <2> QED
    BY <1>1, <1>4, <1>5, <2>1, <2>2 DEF TaggingInv
<1>7. AnswerInv' /\ ListingInv(s)'
  BY <1>1 DEF MirrorInv, AnswerInv, SyncInv, ListingInv, Asked
<1>8. PrunedInv(s)'
  BY <1>1 DEF PrunedInv, Pruned
<1> QED
  BY <1>1, <1>6, <1>7, <1>8, OthersIdle DEF SyncInv, GotoS, SyncLabels

LEMMA UpsertMirror ==
  ASSUME SyncerTypes, MirrorInv, NEW s \in Syncers, NEW f \in Files, Upsert(s, f)
  PROVE  MirrorInv'
<1>1. /\ spc[s] = "upsert" /\ UNCHANGED spc
      /\ UNCHANGED <<fetched, syncTag, answered>>
  BY DEF Upsert, history
<1>2. f \in todo[s] /\ todo'[s] = todo[s] \ {f}
  BY DEF Upsert, SyncerTypes, FlowInv
<1>3. AnswerInv' /\ ListingInv(s)' /\ PrunedInv(s)'
  BY <1>1 DEF MirrorInv, AnswerInv, SyncInv, ListingInv, Asked, PrunedInv, Pruned
<1>4. TaggingInv(s)
  BY DEF MirrorInv, SyncInv
<1>5. \A g \in Files : Listing(s, SourceOf[g])' = Listing(s, SourceOf[g])
  BY <1>1 DEF Listing
<1>6. CASE UpsertFile(f, syncTag[s]) /\ UNCHANGED sound
  <2>1. tag'[f] = syncTag[s] /\ id'[f] # 0
    BY <1>6 DEF UpsertFile, SyncerTypes, TagInv, IdInv
  <2>2. \A g \in Files \ {f} : tag'[g] = tag[g] /\ id'[g] = id[g]
    BY <1>6 DEF UpsertFile, SyncerTypes, TagInv, IdInv
  <2>3. TaggingInv(s)'
    <3>1. \A g \in todo'[s] : g \in Listing(s, SourceOf[g])'
      BY <1>1, <1>2, <1>4 DEF TaggingInv, Tagging, Listing
    <3>2. \A g \in Files : tag'[g] = syncTag'[s] => g \in Listing(s, SourceOf[g])'
      BY <1>1, <1>2, <1>4, <1>5, <2>1, <2>2 DEF TaggingInv, Tagging
    <3>3. ASSUME NoUpsertFailed(s)', NEW g \in Files,
                 g \in Listing(s, SourceOf[g])', g \notin todo'[s]
          PROVE  id'[g] # 0 /\ tag'[g] = syncTag'[s]
      BY <1>1, <1>2, <1>4, <1>5, <1>6, <2>1, <2>2, <3>3
         DEF TaggingInv, Tagging, NoUpsertFailed
    <3> QED
      BY <1>1, <1>4, <3>1, <3>2, <3>3 DEF TaggingInv, Tagging
  <2> QED
    BY <1>1, <1>3, <2>3, OthersIdle DEF SyncInv
<1>7. CASE UpsertMayFail /\ sound' = [sound EXCEPT ![s] = FALSE] /\ UNCHANGED storeVars
  <2>1. ~NoUpsertFailed(s)'
    BY <1>7 DEF NoUpsertFailed, SyncerTypes, FlagInv
  <2>2. TaggingInv(s)'
    <3>1. \A g \in todo'[s] : g \in Listing(s, SourceOf[g])'
      BY <1>1, <1>2, <1>4 DEF TaggingInv, Tagging, Listing
    <3>2. \A g \in Files : tag'[g] = syncTag'[s] => g \in Listing(s, SourceOf[g])'
      BY <1>1, <1>4, <1>5, <1>7 DEF TaggingInv, Tagging, storeVars
    <3> QED
      BY <1>1, <1>4, <2>1, <3>1, <3>2 DEF TaggingInv, Tagging
  <2> QED
    BY <1>1, <1>3, <2>2, OthersIdle DEF SyncInv
<1> QED
  BY <1>6, <1>7 DEF Upsert

LEMMA StatusMirror ==
  ASSUME SyncerTypes, MirrorInv, NEW s \in Syncers, Status(s)
  PROVE  MirrorInv'
<1>1. /\ spc[s] = "upsert" /\ GotoS(s, "prune torrent") /\ todo[s] = {}
      /\ UNCHANGED <<id, tag, fetched, syncTag, todo, sound, answered>>
  BY DEF Status, storeVars, history
<1>2. spc'[s] = "prune torrent"
  BY <1>1 DEF GotoS, SyncerTypes, FlowInv
<1>3. AnswerInv' /\ ListingInv(s)' /\ PrunedInv(s)'
  BY <1>1, <1>2 DEF MirrorInv, AnswerInv, SyncInv, ListingInv, Asked, PrunedInv, Pruned, Sources
<1>4. TaggingInv(s)'
  <2>1. TaggingInv(s)
    BY DEF MirrorInv, SyncInv
  <2>2. /\ \A f \in Files : Listing(s, SourceOf[f])' = Listing(s, SourceOf[f])
        /\ NoUpsertFailed(s)' = NoUpsertFailed(s)
    BY <1>1 DEF Listing, NoUpsertFailed
  <2> QED
    BY <1>1, <2>1, <2>2 DEF TaggingInv, Tagging
<1> QED
  BY <1>1, <1>3, <1>4, OthersIdle DEF SyncInv, SyncLabels

(* Nothing that the latest listing shows is deleted.                       *)
LEMMA PruneSpares ==
  ASSUME SyncerTypes, MirrorInv, NEW s \in Syncers, NEW src \in Sources,
         spc[s] \in Tagging, NoUpsertFailed(s), fetched[s][src] # Failed,
         spc[s] # "upsert",
         NEW f \in Prunable(syncTag[s], src)
  PROVE  f \notin answered[src]
<1>1. /\ SourceOf[f] = src /\ f \in Files
      /\ tag[f] # syncTag[s] \/ tag[f] = 0
  BY DEF Prunable, RowsOf, Rows
<1>2. todo[s] = {} /\ f \notin Listing(s, src)
  BY <1>1 DEF MirrorInv, SyncInv, TaggingInv
<1>3. Listing(s, src) = answered[src]
  BY DEF Listing, MirrorInv, SyncInv, ListingInv, Asked, Tagging
<1> QED
  BY <1>2, <1>3

LEMMA PruneMirror ==
  ASSUME SyncerTypes, MirrorInv, NEW s \in Syncers, NEW src \in Sources,
         NEW here \in {"prune torrent", "prune usenet"}, PruneSource(s, src, here)
  PROVE  MirrorInv'
<1>1. /\ spc[s] = here /\ UNCHANGED <<spc, fetched, syncTag, todo, sound, answered>>
  BY DEF PruneSource, PruneBatch, syncVars, history
<1>2. PICK batch \in SUBSET Prunable(syncTag[s], src) : Delete(batch)
  BY DEF PruneSource, PruneBatch
<1>3. /\ \A f \in Files : tag'[f] = (IF f \in batch THEN 0 ELSE tag[f])
      /\ \A f \in Files : id'[f] = (IF f \in batch THEN 0 ELSE id[f])
  BY <1>2 DEF Delete
<1>4. \A f \in batch : tag[f] # syncTag[s] \/ tag[f] = 0
  BY DEF Prunable
<1>5. AnswerInv' /\ ListingInv(s)'
  BY <1>1 DEF MirrorInv, AnswerInv, SyncInv, ListingInv, Asked
<1>6. TaggingInv(s)'
  <2>1. TaggingInv(s) /\ spc[s] \in Tagging
    BY <1>1 DEF MirrorInv, SyncInv, Tagging
  <2>2. /\ \A f \in Files : Listing(s, SourceOf[f])' = Listing(s, SourceOf[f])
        /\ NoUpsertFailed(s)' = NoUpsertFailed(s)
    BY <1>1 DEF Listing, NoUpsertFailed
  <2>3. todo[s] = {} /\ syncTag[s] # 0
    BY <1>1, <2>1 DEF TaggingInv
  <2> QED
    BY <1>1, <1>3, <1>4, <2>1, <2>2, <2>3 DEF TaggingInv, Tagging
<1>7. PrunedInv(s)'
  <2> SUFFICES ASSUME NEW src2 \in Sources, Pruned(s, src2)', sound'[s], NEW f \in RowsOf(src2)'
               PROVE  tag'[f] = syncTag'[s]
    BY DEF PrunedInv
  <2>1. Pruned(s, src2) /\ sound[s]
    BY <1>1 DEF Pruned
  <2>2. f \in RowsOf(src2) /\ f \notin batch
    BY <1>3 DEF RowsOf, Rows
  <2>3. tag[f] = syncTag[s]
    BY <2>1, <2>2 DEF MirrorInv, SyncInv, PrunedInv
  <2> QED
    BY <1>1, <1>3, <2>2, <2>3 DEF RowsOf, Rows
<1> QED
  BY <1>1, <1>5, <1>6, <1>7, OthersIdle DEF SyncInv

(* A step from one label of Tagging to another that writes no row and at   *)
(* most marks the sync as unsound.                                         *)
LEMMA TaggingMirror ==
  ASSUME SyncerTypes, MirrorInv, NEW s \in Syncers, spc[s] \in Tagging \ {"upsert"},
         NEW label \in Tagging \ {"upsert"}, GotoS(s, label),
         UNCHANGED <<id, tag, fetched, syncTag, todo, answered>>,
         sound' = sound \/ sound' = [sound EXCEPT ![s] = FALSE],
         PrunedInv(s)'
  PROVE  MirrorInv'
<1>1. spc'[s] = label /\ label \in SyncLabels /\ spc[s] # "idle"
  BY DEF GotoS, SyncerTypes, FlowInv, Tagging, SyncLabels
<1>2. AnswerInv' /\ ListingInv(s)'
  BY <1>1 DEF MirrorInv, AnswerInv, SyncInv, ListingInv, Asked, Tagging
<1>3. NoUpsertFailed(s)' => NoUpsertFailed(s)
  BY DEF NoUpsertFailed, SyncerTypes, FlagInv
<1>4. \A f \in Files : Listing(s, SourceOf[f])' = Listing(s, SourceOf[f])
  BY DEF Listing
<1>5. TaggingInv(s)'
  BY <1>1, <1>3, <1>4 DEF MirrorInv, SyncInv, TaggingInv, Tagging
<1> QED
  BY <1>1, <1>2, <1>5, OthersIdle DEF SyncInv

LEMMA PruneEndsMirror ==
  ASSUME SyncerTypes, MirrorInv, NEW s \in Syncers,
         \/ PruneEnds(s, "torrent", "prune torrent", "prune usenet")
         \/ PruneEnds(s, "usenet", "prune usenet", "hooks")
  PROVE  MirrorInv'
<1>1. PICK src \in Sources, here, next \in Tagging \ {"upsert"} :
        /\ PruneEnds(s, src, here, next)
        /\ \/ src = "torrent" /\ here = "prune torrent" /\ next = "prune usenet"
           \/ src = "usenet" /\ here = "prune usenet" /\ next = "hooks"
  BY DEF Sources, Tagging
<1>2. /\ spc[s] = here /\ GotoS(s, next)
      /\ UNCHANGED <<id, tag, fetched, syncTag, todo, answered>>
      /\ sound' = sound \/ sound' = [sound EXCEPT ![s] = FALSE]
  BY <1>1 DEF PruneEnds, storeVars, history
<1>3. spc'[s] = next
  BY <1>2 DEF GotoS, SyncerTypes, FlowInv
<1>4. PrunedInv(s)'
  <2> SUFFICES ASSUME NEW src2 \in Sources, Pruned(s, src2)', sound'[s],
                      NEW f \in RowsOf(src2)
               PROVE  tag[f] = syncTag[s]
    BY <1>2 DEF PrunedInv, RowsOf, Rows
  <2>1. sound' = sound
    BY <1>2 DEF SyncerTypes, FlagInv
  <2>2. CASE src2 = src
    <3>1. Prunable(syncTag[s], src) = {}
      BY <1>1, <1>2, <2>1, <2>2 DEF PruneEnds, Pruned, SyncerTypes, FlagInv
    <3> QED
      BY <2>2, <3>1 DEF Prunable
  <2>3. CASE src2 # src
    <3>1. Pruned(s, src2)
      <4>1. fetched[s][src2] # Failed
        BY <1>2 DEF Pruned
      <4>2. spc'[s] = "hooks" \/ src2 = "torrent"
        BY <1>1, <1>3 DEF Pruned
      <4>3. spc[s] = "prune usenet" /\ src2 = "torrent"
        <5>1. CASE src = "torrent" /\ next = "prune usenet"
          BY <1>3, <2>3, <4>2, <5>1
        <5>2. CASE src = "usenet" /\ here = "prune usenet"
          BY <1>2, <2>3, <5>2 DEF Sources
        <5> QED
          BY <1>1, <5>1, <5>2
      <4> QED
        BY <4>1, <4>3 DEF Pruned
    <3> QED
      BY <2>1, <3>1 DEF MirrorInv, SyncInv, PrunedInv
  <2> QED
    BY <2>2, <2>3
<1> QED
  BY <1>1, <1>2, <1>4, TaggingMirror

LEMMA HooksMirror ==
  ASSUME SyncerTypes, MirrorInv, NEW s \in Syncers, Hooks(s)
  PROVE  MirrorInv'
<1>1. /\ spc[s] = "hooks" /\ GotoS(s, "done")
      /\ UNCHANGED <<id, tag, fetched, syncTag, todo, sound, answered>>
  BY DEF Hooks, storeVars, history
<1>2. spc'[s] = "done"
  BY <1>1 DEF GotoS, SyncerTypes, FlowInv
<1>3. PrunedInv(s)'
  BY <1>1, <1>2 DEF MirrorInv, SyncInv, PrunedInv, Pruned, RowsOf, Rows
<1> QED
  BY <1>1, <1>3, TaggingMirror DEF Tagging

(* The beginning and the end of a sync.                                    *)
LEMMA EdgeMirror ==
  ASSUME SyncerTypes, MirrorInv, NEW s \in Syncers,
         Start(s) \/ Snapshot(s) \/ ReserveTagFails(s) \/ Finish(s)
  PROVE  MirrorInv'
<1>1. UNCHANGED answered
  BY DEF Start, Enter, Snapshot, ReserveTagFails, Finish, history
<1>2. PICK label \in {"idle", "snapshot", "torrent"} : GotoS(s, label)
  BY DEF Start, Enter, Snapshot, ReserveTagFails, Finish, Leave
<1>3. \A t \in Syncers \ {s} : spc[t] = "idle"
  BY DEF SyncerTypes, GuardInv, ActiveSyncers, Start, Snapshot, ReserveTagFails, Finish
<1>4. \A t \in Syncers : spc'[t] \in {"idle", "snapshot", "torrent"}
  BY <1>2, <1>3 DEF GotoS, SyncerTypes, FlowInv
<1>5. \A t \in Syncers : SyncInv(t)'
  BY <1>4 DEF SyncInv, ListingInv, TaggingInv, PrunedInv, Asked, Tagging, Pruned
<1> QED
  BY <1>1, <1>5 DEF MirrorInv, AnswerInv

LEMMA MirrorStep == SyncerTypes /\ MirrorInv /\ [Next]_vars => MirrorInv'
<1> SUFFICES ASSUME SyncerTypes, MirrorInv, [Next]_vars PROVE MirrorInv'
  OBVIOUS
<1>1. CASE \E s \in Syncers :
             Start(s) \/ Snapshot(s) \/ ReserveTagFails(s) \/ Finish(s)
  BY <1>1, EdgeMirror
<1>2. CASE \E s \in Syncers : Fetch(s, "torrent", "usenet") \/ Fetch(s, "usenet", "tag")
  BY <1>2, FetchMirror
<1>3. CASE \E s \in Syncers : ReserveTag(s)
  BY <1>3, ReserveMirror
<1>4. CASE \E s \in Syncers, f \in Files : Upsert(s, f)
  BY <1>4, UpsertMirror
<1>5. CASE \E s \in Syncers : Status(s)
  BY <1>5, StatusMirror
<1>6. CASE \E s \in Syncers : \/ PruneSource(s, "torrent", "prune torrent")
                            \/ PruneSource(s, "usenet", "prune usenet")
  BY <1>6, PruneMirror DEF Sources
<1>7. CASE \E s \in Syncers : \/ PruneEnds(s, "torrent", "prune torrent", "prune usenet")
                            \/ PruneEnds(s, "usenet", "prune usenet", "hooks")
  BY <1>7, PruneEndsMirror
<1>8. CASE \E s \in Syncers : Hooks(s)
  BY <1>8, HooksMirror
<1>9. CASE \E h \in Handlers : Handle(h)
  BY <1>9, MirrorUndisturbed
     DEF Handle, Lookup, CachedURL, FetchURL, GiveUp, CacheURL, Served, Refused, SetCDNURL,
         storeVars, syncVars, history
<1>10. CASE \E f \in Files : Change(f)
  BY <1>10, MirrorUndisturbed DEF Change, storeVars, syncVars
<1>11. CASE Crash
  <2>1. \A s \in Syncers : spc'[s] = "idle"
    BY <1>11 DEF Crash
  <2>2. \A s \in Syncers : SyncInv(s)'
    BY <2>1 DEF SyncInv, ListingInv, TaggingInv, PrunedInv, Asked, Tagging, Pruned
  <2> QED
    BY <1>11, <2>2 DEF Crash, MirrorInv, AnswerInv, history
<1>12. CASE UNCHANGED vars
  BY <1>12, MirrorUndisturbed DEF vars, storeVars, syncVars, history
<1> QED
  BY <1>1, <1>2, <1>3, <1>4, <1>5, <1>6, <1>7, <1>8, <1>9, <1>10, <1>11, <1>12
     DEF Next, SyncStep

THEOREM MirrorInvariant == Spec => [](SyncerTypes /\ MirrorInv)
<1>1. Init => MirrorInv
  <2> SUFFICES ASSUME Init PROVE MirrorInv
    OBVIOUS
  <2>1. AnswerInv
    BY DEF Init, AnswerInv, Nothing
  <2>2. \A s \in Syncers : spc[s] = "idle"
    BY DEF Init
  <2> QED
    BY <2>1, <2>2, IdleKnowsNothing DEF MirrorInv
<1>2. SyncerTypes /\ MirrorInv /\ [Next]_vars => MirrorInv'
  BY MirrorStep
<1>3. Spec => []SyncerTypes
  <2>1. Init => GuardInv /\ TagInv
    BY DEF Init, StoreInit, GuardInv, ActiveSyncers, TagInv
  <2>2. Init => CacheInv
    BY DEF Init, StoreInit, CacheInv, IdInv, HandlerInv, UrlInv, URLServesPath, Rows
  <2>3. Init => FlowInv
    BY InitFlow
  <2>4. Init => FlagInv
    BY DEF Init, FlagInv
  <2>5. GuardInv /\ CacheInv /\ TagInv /\ FlowInv /\ FlagInv => SyncerTypes
    BY DEF SyncerTypes, CacheInv
  <2> QED
    BY <2>1, <2>2, <2>3, <2>4, <2>5, GuardStep, CacheStep, TagStep, FlowStep, FlagStep, PTL
       DEF Spec
<1> QED
  BY <1>1, <1>2, <1>3, PTL DEF Spec

-----------------------------------------------------------------------------
(* What the syncs promise                                                  *)

(* Once a sync none of whose statements failed has pruned a source, the    *)
(* rows of that source are those it listed, all with its tag, whatever     *)
(* earlier syncs, their failures and crashes left behind.                  *)
THEOREM CleanSyncsMirror == Spec => []CleanSyncMirrors
<1>1. SyncerTypes /\ MirrorInv => CleanSyncMirrors
  <2> SUFFICES ASSUME SyncerTypes, MirrorInv, NEW s \in Syncers, NEW src \in Sources,
                      Pruned(s, src), sound[s]
               PROVE  /\ RowsOf(src) = fetched[s][src]
                      /\ \A f \in RowsOf(src) : tag[f] = syncTag[s]
    BY DEF CleanSyncMirrors
  <2>1. spc[s] \in Tagging /\ spc[s] # "upsert" /\ NoUpsertFailed(s)
    BY DEF Pruned, Tagging, NoUpsertFailed
  <2>2. TaggingInv(s) /\ todo[s] = {}
    BY <2>1 DEF MirrorInv, SyncInv, TaggingInv
  <2>3. \A f \in RowsOf(src) : tag[f] = syncTag[s]
    BY DEF MirrorInv, SyncInv, PrunedInv
  <2>4. Listing(s, src) = fetched[s][src]
    BY DEF Pruned, Listing
  <2>5. fetched[s][src] = answered[src]
    BY <2>1 DEF Pruned, MirrorInv, SyncInv, ListingInv, Asked, Tagging
  <2>6. \A f \in fetched[s][src] : f \in Files /\ SourceOf[f] = src
    BY <2>5 DEF MirrorInv, AnswerInv
  <2>7. \A f \in fetched[s][src] : f \in RowsOf(src)
    BY <2>1, <2>2, <2>4, <2>6 DEF TaggingInv, RowsOf, Rows
  <2>8. \A f \in RowsOf(src) : f \in fetched[s][src]
    BY <2>1, <2>2, <2>3, <2>4 DEF TaggingInv, RowsOf, Rows
  <2> QED
    BY <2>3, <2>7, <2>8
<1> QED
  BY <1>1, MirrorInvariant, PTL

(* Unless an upsert fails, no step adds a row that the latest successful   *)
(* listing of its source lacks or removes one that it shows.               *)
LEMMA RowsFollow ==
  ASSUME ~UpsertMayFail, SyncerTypes, MirrorInv, [Next]_vars
  PROVE  /\ \A f \in Rows' \ Rows : f \in answered[SourceOf[f]]
         /\ \A f \in Rows \ Rows' : f \notin answered[SourceOf[f]]
         /\ Rows' # Rows => UNCHANGED answered
<1>1. CASE \E s \in Syncers, f \in Files : Upsert(s, f)
  <2> PICK s \in Syncers, f \in Files : Upsert(s, f)
    BY <1>1
  <2>1. spc[s] = "upsert" /\ f \in todo[s] /\ UpsertFile(f, syncTag[s]) /\ UNCHANGED answered
    BY DEF Upsert, history
  <2>2. f \in answered[SourceOf[f]]
    <3>1. SourceOf[f] \in Sources
      BY SourceAssumption
    <3>2. f \in Listing(s, SourceOf[f])
      BY <2>1 DEF MirrorInv, SyncInv, TaggingInv, Tagging
    <3>3. fetched[s][SourceOf[f]] \in {Failed, answered[SourceOf[f]]}
      BY <2>1, <3>1 DEF MirrorInv, SyncInv, ListingInv, Asked
    <3> QED
      BY <3>2, <3>3 DEF Listing
  <2>3. \A g \in Files \ {f} : id'[g] = id[g]
    BY <2>1 DEF UpsertFile, SyncerTypes, IdInv
  <2>4. id'[f] # 0
    BY <2>1 DEF UpsertFile, SyncerTypes, IdInv
  <2> QED
    BY <2>1, <2>2, <2>3, <2>4 DEF Rows
<1>2. ASSUME NEW s \in Syncers, NEW src \in Sources,
             NEW here \in {"prune torrent", "prune usenet"}, PruneSource(s, src, here)
      PROVE  /\ \A f \in Rows' \ Rows : f \in answered[SourceOf[f]]
             /\ \A f \in Rows \ Rows' : f \notin answered[SourceOf[f]]
             /\ UNCHANGED answered
  <2>1. PICK batch \in SUBSET Prunable(syncTag[s], src) : Delete(batch)
    BY <1>2 DEF PruneSource, PruneBatch
  <2>2. \A f \in Files : id'[f] = (IF f \in batch THEN 0 ELSE id[f])
    BY <2>1 DEF Delete
  <2>3. Rows' \subseteq Rows /\ Rows \ Rows' \subseteq batch
    BY <2>2 DEF Rows
  <2>4. /\ spc[s] \in Tagging /\ spc[s] # "upsert" /\ NoUpsertFailed(s)
        /\ fetched[s][src] # Failed
    BY <1>2 DEF PruneSource, PruneBatch, Tagging, NoUpsertFailed
  <2>5. \A f \in batch : f \notin answered[src] /\ SourceOf[f] = src
    BY <2>4, PruneSpares DEF Prunable, RowsOf
  <2>6. UNCHANGED answered
    BY <1>2 DEF PruneSource, PruneBatch, history
  <2> QED
    BY <2>3, <2>5, <2>6
<1>3. CASE \E s \in Syncers : \/ PruneSource(s, "torrent", "prune torrent")
                            \/ PruneSource(s, "usenet", "prune usenet")
  BY <1>2, <1>3 DEF Sources
<1>4. CASE UNCHANGED id
  BY <1>4 DEF Rows
<1>5. CASE \E s \in Syncers : Start(s)
  BY <1>4, <1>5 DEF Start, Enter, storeVars
<1>6. CASE \E s \in Syncers :
             \/ Snapshot(s) \/ Fetch(s, "torrent", "usenet") \/ Fetch(s, "usenet", "tag")
             \/ ReserveTag(s) \/ ReserveTagFails(s) \/ Status(s)
             \/ PruneEnds(s, "torrent", "prune torrent", "prune usenet")
             \/ PruneEnds(s, "usenet", "prune usenet", "hooks")
             \/ Hooks(s) \/ Finish(s)
  BY <1>4, <1>6 DEF Snapshot, Fetch, ReserveTag, GetNextSyncTag, ReserveTagFails, Status,
                    PruneEnds, Hooks, Finish, storeVars
<1>7. CASE \E h \in Handlers : Handle(h)
  BY <1>4, <1>7 DEF Handle, Lookup, CachedURL, FetchURL, GiveUp, CacheURL, Served, Refused,
                    SetCDNURL, storeVars
<1>8. CASE Crash \/ (\E f \in Files : Change(f)) \/ UNCHANGED vars
  BY <1>4, <1>8 DEF Crash, Change, vars, storeVars
<1> QED
  BY <1>1, <1>3, <1>5, <1>6, <1>7, <1>8 DEF Next, SyncStep

(* Unless an upsert fails, the library follows the successful listings and *)
(* nothing else, through two syncing goroutines, failed listings and       *)
(* statements, batches of DELETEs and crashes: SyncWorker implements       *)
(* LibraryMirror.                                                          *)
THEOREM SyncImplementsMirror ==
  ASSUME ~UpsertMayFail PROVE Spec => MirrorsListings
<1>1. Init => Mirror!Init
  BY DEF Init, StoreInit, Nothing, Mirror!Init, Rows
<1>2. SyncerTypes /\ MirrorInv /\ [Next]_vars => [Mirror!Next]_(<<Rows, answered>>)
  <2> SUFFICES ASSUME SyncerTypes, MirrorInv, [Next]_vars
               PROVE  Mirror!Next \/ UNCHANGED <<Rows, answered>>
    BY DEF Rows
  <2>1. CASE UNCHANGED answered
    <3>1. /\ \A f \in Rows' \ Rows : f \in answered[SourceOf[f]]
          /\ \A f \in Rows \ Rows' : f \notin answered[SourceOf[f]]
      BY RowsFollow
    <3>2. Rows' \subseteq Files /\ Rows \subseteq Files
      BY DEF Rows
    <3>3. Mirror!Follow
      BY <2>1, <3>1, <3>2 DEF Mirror!Follow, Mirror!Listed
    <3> QED
      BY <3>3 DEF Mirror!Next
  <2>2. CASE answered' # answered
    <3>1. PICK s \in Syncers, src \in Sources, label \in SyncLabels : Fetch(s, src, label)
      BY <2>2 DEF Next, SyncStep, Sources, SyncLabels, Change, Start, Enter, Snapshot,
                  ReserveTag, ReserveTagFails, Upsert, Status, PruneSource, PruneBatch,
                  PruneEnds, Hooks, Finish, Handle, Lookup, CachedURL, FetchURL, GiveUp,
                  CacheURL, Served, Refused, Crash, history, vars
    <3>2. answered' = [answered EXCEPT ![src] = {f \in upstream : SourceOf[f] = src}]
      BY <2>2, <3>1 DEF Fetch, history
    <3>3. {f \in upstream : SourceOf[f] = src} \in SUBSET {f \in Files : SourceOf[f] = src}
      BY DEF SyncerTypes, FlowInv
    <3>4. Rows' = Rows
      BY <2>2, RowsFollow
    <3>5. Mirror!Answer(src)
      BY <3>2, <3>3, <3>4 DEF Mirror!Answer
    <3> QED
      BY <3>5 DEF Mirror!Next
  <2> QED
    BY <2>1, <2>2
<1> QED
  BY <1>1, <1>2, MirrorInvariant, PTL DEF Spec, MirrorsListings, Mirror!Spec

(* What stayed upstream is in the latest successful listing.               *)
StableInv == \A f \in stable : f \in upstream /\ f \in answered[SourceOf[f]]

LEMMA StableStep ==
  ASSUME SyncerTypes, MirrorInv, StableInv, [Next]_vars PROVE StableInv'
<1>1. CASE UNCHANGED <<upstream, answered, stable>>
  BY <1>1 DEF StableInv
<1>2. CASE \E f \in Files : Change(f)
  BY <1>2 DEF Change, StableInv
<1>3. CASE \E s \in Syncers : Fetch(s, "torrent", "usenet") \/ Fetch(s, "usenet", "tag")
  <2> PICK s \in Syncers, src \in Sources, label \in SyncLabels : Fetch(s, src, label)
    BY <1>3 DEF Sources, SyncLabels
  <2>1. CASE UNCHANGED history
    BY <1>1, <2>1 DEF Fetch, history
  <2>2. CASE /\ answered' = [answered EXCEPT ![src] = {f \in upstream : SourceOf[f] = src}]
             /\ stable' = stable \cup {f \in upstream : SourceOf[f] = src}
    BY <2>2 DEF Fetch, StableInv, MirrorInv, AnswerInv, SyncerTypes, FlowInv
  <2> QED
    BY <2>1, <2>2 DEF Fetch
<1> QED
  BY <1>1, <1>2, <1>3
     DEF Next, SyncStep, Start, Enter, Snapshot, ReserveTag, ReserveTagFails, Upsert, Status,
         PruneSource, PruneBatch, PruneEnds, Hooks, Finish, Handle, Lookup, CachedURL,
         FetchURL, GiveUp, CacheURL, Served, Refused, Crash, history, vars

(* Unless an upsert fails, no prune takes away the row of a file that has  *)
(* stayed upstream since a listing showed it.                              *)
THEOREM SyncsKeepStableRows ==
  ASSUME ~UpsertMayFail PROVE Spec => StableRowsKept
<1>1. Init => StableInv
  BY DEF Init, StableInv
<1>2. SyncerTypes /\ MirrorInv /\ StableInv /\ [Next]_vars => StableInv'
  BY StableStep
<1>3. SyncerTypes /\ MirrorInv /\ StableInv /\ [Next]_vars =>
        [\A f \in Rows : f \in stable \cap stable' => f \in Rows']_vars
  BY RowsFollow DEF StableInv
<1> QED
  BY <1>1, <1>2, <1>3, MirrorInvariant, PTL DEF Spec, StableRowsKept

-----------------------------------------------------------------------------
(* The removal hook                                                        *)

Item(f) == <<SourceOf[f], ItemOf[f]>>

(* The sync has not begun to prune the source, or never will.              *)
Unpruned(s, src) ==
  \/ spc[s] \in {"torrent", "usenet", "tag", "upsert"}
  \/ spc[s] \in {"prune torrent", "prune usenet", "hooks"} /\ fetched[s][src] = Failed

(* An item of the first snapshot loses its last row only to the prune of a *)
(* source that answered: the rows of one that did not are all still there. *)
SnapshotInv(s) ==
  \A f \in Files : Unpruned(s, SourceOf[f]) /\ Item(f) \in oldItems[s] => Item(f) \in ItemDirs

RemovedInv(s) == spc[s] = "done" => \A f \in stable : Item(f) \notin removed[s]

HookInv ==
  /\ DOMAIN oldItems = Syncers /\ DOMAIN removed = Syncers
  /\ \A s \in Syncers : SnapshotInv(s) /\ RemovedInv(s)

(* A step of the one sync that runs.                                       *)
LEMMA OneSyncsHooks ==
  ASSUME SyncerTypes, HookInv, NEW s \in Syncers, spc[s] # "idle",
         UNCHANGED spc \/ \E label \in SyncLabels : GotoS(s, label),
         DOMAIN oldItems' = Syncers, DOMAIN removed' = Syncers,
         SnapshotInv(s)', RemovedInv(s)'
  PROVE  HookInv'
<1> SUFFICES ASSUME NEW t \in Syncers \ {s} PROVE SnapshotInv(t)' /\ RemovedInv(t)'
  BY DEF HookInv
<1>1. spc[t] = "idle"
  BY DEF SyncerTypes, GuardInv, ActiveSyncers
<1>2. spc'[t] = "idle"
  BY <1>1 DEF GotoS, SyncerTypes, FlowInv
<1> QED
  BY <1>2 DEF SnapshotInv, RemovedInv, Unpruned

(* One that takes away no row and leaves the snapshots alone.              *)
LEMMA RowsStayHooks ==
  ASSUME SyncerTypes, HookInv, NEW s \in Syncers, spc[s] # "idle",
         UNCHANGED spc \/ \E label \in SyncLabels : GotoS(s, label),
         spc'[s] # "done", \A src \in Sources : Unpruned(s, src)' => Unpruned(s, src),
         UNCHANGED <<oldItems, removed>>, Rows \subseteq Rows'
  PROVE  HookInv'
<1>1. RemovedInv(s)'
  BY DEF RemovedInv
<1>2. SnapshotInv(s)'
  <2>1. ItemDirs \subseteq ItemDirs'
    BY DEF ItemDirs
  <2>2. \A f \in Files : SourceOf[f] \in Sources
    BY SourceAssumption
  <2> QED
    BY <2>1, <2>2 DEF SnapshotInv, HookInv, Item
<1> QED
  BY <1>1, <1>2, OneSyncsHooks DEF HookInv

LEMMA PruneHooks ==
  ASSUME SyncerTypes, HookInv, NEW s \in Syncers, NEW src \in Sources,
         NEW here \in {"prune torrent", "prune usenet"}, PruneSource(s, src, here)
  PROVE  HookInv'
<1>1. /\ spc[s] = here /\ fetched[s][src] # Failed
      /\ UNCHANGED <<spc, fetched, oldItems, removed>>
  BY DEF PruneSource, PruneBatch, syncVars
<1>2. PICK batch \in SUBSET Prunable(syncTag[s], src) : Delete(batch)
  BY DEF PruneSource, PruneBatch
<1>3. \A f \in Files : id'[f] = (IF f \in batch THEN 0 ELSE id[f])
  BY <1>2 DEF Delete
<1>4. \A f \in batch : SourceOf[f] = src
  BY DEF Prunable, RowsOf
<1>5. SnapshotInv(s)'
  <2> SUFFICES ASSUME NEW f \in Files, Unpruned(s, SourceOf[f]), Item(f) \in oldItems[s]
               PROVE  Item(f) \in ItemDirs'
    BY <1>1 DEF SnapshotInv, Unpruned, Item
  <2>1. SourceOf[f] # src
    BY <1>1 DEF Unpruned
  <2>2. PICK g \in Rows : Item(g) = Item(f)
    <3>1. Item(f) \in ItemDirs
      BY DEF HookInv, SnapshotInv
    <3> QED
      BY <3>1 DEF ItemDirs, Item
  <2>3. SourceOf[g] = SourceOf[f]
    BY <2>2 DEF Item
  <2>4. g \in Rows'
    BY <1>3, <1>4, <2>1, <2>3 DEF Rows
  <2> QED
    BY <2>2, <2>4 DEF ItemDirs, Item
<1>6. RemovedInv(s)' /\ spc[s] # "idle"
  BY <1>1 DEF RemovedInv
<1> QED
  BY <1>1, <1>5, <1>6, OneSyncsHooks DEF HookInv

(* At the hooks every file that stayed upstream and whose item is in the   *)
(* first snapshot has its item in the second one.                          *)
LEMMA HooksHooks ==
  ASSUME ~UpsertMayFail, SyncerTypes, MirrorInv, StableInv, HookInv,
         NEW s \in Syncers, Hooks(s)
  PROVE  HookInv'
<1>1. /\ spc[s] = "hooks" /\ GotoS(s, "done") /\ UNCHANGED <<oldItems, stable>>
      /\ DOMAIN removed' = Syncers
      /\ removed'[s] \subseteq oldItems[s] \ ItemDirs
  BY DEF Hooks, HookInv, history
<1>2. spc'[s] = "done"
  BY <1>1 DEF GotoS, SyncerTypes, FlowInv
<1>3. SnapshotInv(s)'
  BY <1>2 DEF SnapshotInv, Unpruned
<1>4. ASSUME NEW f \in stable, Item(f) \in oldItems[s] PROVE Item(f) \in ItemDirs
  <2> DEFINE src == SourceOf[f]
  <2>1. f \in Files /\ f \in answered[src]
    BY DEF StableInv, SyncerTypes, FlowInv
  <2>2. src \in Sources
    BY <2>1, SourceAssumption
  <2>3. CASE fetched[s][src] = Failed
    BY <1>1, <1>4, <2>1, <2>3 DEF HookInv, SnapshotInv, Unpruned
  <2>4. CASE fetched[s][src] # Failed
    <3>1. Listing(s, src) = answered[src]
      BY <1>1, <2>2, <2>4 DEF Listing, MirrorInv, SyncInv, ListingInv, Asked
    <3>2. todo[s] = {} /\ NoUpsertFailed(s)
      BY <1>1 DEF MirrorInv, SyncInv, TaggingInv, Tagging, NoUpsertFailed
    <3>3. TaggingInv(s) /\ spc[s] \in Tagging
      BY <1>1 DEF MirrorInv, SyncInv, Tagging
    <3>4. id[f] # 0
      BY <2>1, <3>1, <3>2, <3>3 DEF TaggingInv
    <3> QED
      BY <2>1, <3>4 DEF ItemDirs, Item, Rows
  <2> QED
    BY <2>3, <2>4
<1>5. RemovedInv(s)'
  BY <1>1, <1>4 DEF RemovedInv, Item
<1> QED
  BY <1>1, <1>3, <1>5, OneSyncsHooks DEF HookInv, SyncLabels

LEMMA HookStep ==
  ASSUME ~UpsertMayFail, SyncerTypes, MirrorInv, StableInv, HookInv, [Next]_vars
  PROVE  HookInv'
<1>1. ASSUME UNCHANGED <<id, spc, fetched, oldItems, removed>>, stable' \subseteq stable
      PROVE  HookInv'
  BY <1>1 DEF HookInv, SnapshotInv, RemovedInv, Unpruned, Item, ItemDirs, Rows
<1>2. ASSUME DOMAIN oldItems' = Syncers, DOMAIN removed' = Syncers,
             \A t \in Syncers : spc'[t] \in {"idle", "snapshot"}
      PROVE  HookInv'
  BY <1>2 DEF HookInv, SnapshotInv, RemovedInv, Unpruned
<1>3. ASSUME NEW s \in Syncers, Start(s) PROVE HookInv'
  <2>1. \A t \in Syncers : spc[t] = "idle"
    BY <1>3 DEF Start, SyncerTypes, GuardInv, ActiveSyncers
  <2>2. \A t \in Syncers : spc'[t] \in {"idle", "snapshot"}
    BY <1>3, <2>1 DEF Start, Enter, GotoS, SyncerTypes, FlowInv
  <2>3. DOMAIN oldItems' = Syncers /\ DOMAIN removed' = Syncers
    BY <1>3 DEF Start, Enter, HookInv
  <2> QED
    BY <1>2, <2>2, <2>3
<1>4. ASSUME NEW s \in Syncers, ReserveTagFails(s) \/ Finish(s) PROVE HookInv'
  <2>1. \A t \in Syncers \ {s} : spc[t] = "idle"
    BY <1>4 DEF ReserveTagFails, Finish, SyncerTypes, GuardInv, ActiveSyncers
  <2>2. \A t \in Syncers : spc'[t] \in {"idle", "snapshot"}
    BY <1>4, <2>1 DEF ReserveTagFails, Finish, Leave, GotoS, SyncerTypes, FlowInv
  <2>3. DOMAIN oldItems' = Syncers /\ DOMAIN removed' = Syncers
    BY <1>4 DEF ReserveTagFails, Finish, HookInv
  <2> QED
    BY <1>2, <2>2, <2>3
<1>5. ASSUME NEW s \in Syncers, Snapshot(s) PROVE HookInv'
  <2>1. /\ spc[s] = "snapshot" /\ GotoS(s, "torrent") /\ UNCHANGED <<id, removed>>
        /\ DOMAIN oldItems' = Syncers
        /\ oldItems'[s] \subseteq ItemDirs
    BY <1>5 DEF Snapshot, HookInv, storeVars
  <2>2. spc'[s] = "torrent"
    BY <2>1 DEF GotoS, SyncerTypes, FlowInv
  <2>3. SnapshotInv(s)' /\ RemovedInv(s)'
    BY <2>1, <2>2 DEF SnapshotInv, RemovedInv, ItemDirs, Rows, Item
  <2> QED
    BY <2>1, <2>3, OneSyncsHooks DEF HookInv, SyncLabels
<1>6. ASSUME NEW s \in Syncers, Fetch(s, "torrent", "usenet") \/ Fetch(s, "usenet", "tag")
      PROVE  HookInv'
  <2>1. /\ spc[s] \in {"torrent", "usenet"} /\ UNCHANGED <<id, oldItems, removed>>
        /\ GotoS(s, "usenet") \/ GotoS(s, "tag")
    BY <1>6 DEF Fetch, storeVars
  <2>2. spc'[s] # "done" /\ \A src \in Sources : Unpruned(s, src)
    BY <2>1 DEF GotoS, Unpruned, SyncerTypes, FlowInv
  <2> QED
    BY <2>1, <2>2, RowsStayHooks DEF Rows, SyncLabels
<1>7. ASSUME NEW s \in Syncers, ReserveTag(s) \/ Status(s) PROVE HookInv'
  <2>1. /\ spc[s] \in {"tag", "upsert"} /\ UNCHANGED <<id, oldItems, removed>>
        /\ GotoS(s, "upsert") \/ GotoS(s, "prune torrent")
    BY <1>7 DEF ReserveTag, GetNextSyncTag, Status, storeVars
  <2>2. spc'[s] # "done" /\ \A src \in Sources : Unpruned(s, src)
    BY <2>1 DEF GotoS, Unpruned, SyncerTypes, FlowInv
  <2> QED
    BY <2>1, <2>2, RowsStayHooks DEF Rows, SyncLabels
<1>8. ASSUME NEW s \in Syncers, NEW f \in Files, Upsert(s, f) PROVE HookInv'
  <2>1. spc[s] = "upsert" /\ UNCHANGED <<spc, oldItems, removed>>
    BY <1>8 DEF Upsert
  <2>2. Rows \subseteq Rows'
    <3>1. UpsertFile(f, syncTag[s])
      BY <1>8 DEF Upsert
    <3> QED
      BY <3>1 DEF UpsertFile, Rows, SyncerTypes, IdInv
  <2>3. \A src \in Sources : Unpruned(s, src)
    BY <2>1 DEF Unpruned
  <2> QED
    BY <2>1, <2>2, <2>3, RowsStayHooks
<1>9. ASSUME NEW s \in Syncers, \/ PruneEnds(s, "torrent", "prune torrent", "prune usenet")
                                \/ PruneEnds(s, "usenet", "prune usenet", "hooks")
      PROVE  HookInv'
  <2>1. /\ spc[s] \in {"prune torrent", "prune usenet"}
        /\ UNCHANGED <<id, fetched, oldItems, removed>>
        /\ GotoS(s, "prune usenet") \/ GotoS(s, "hooks")
    BY <1>9 DEF PruneEnds, storeVars
  <2>2. spc'[s] \in {"prune usenet", "hooks"}
    BY <2>1 DEF GotoS, SyncerTypes, FlowInv
  <2>3. \A src \in Sources : Unpruned(s, src)' => Unpruned(s, src)
    BY <2>1, <2>2 DEF Unpruned
  <2> QED
    BY <2>1, <2>2, <2>3, RowsStayHooks DEF Rows, SyncLabels
<1>10. CASE \E s \in Syncers : \/ PruneSource(s, "torrent", "prune torrent")
                               \/ PruneSource(s, "usenet", "prune usenet")
  BY <1>10, PruneHooks DEF Sources
<1>11. CASE \E s \in Syncers : Hooks(s)
  BY <1>11, HooksHooks
<1>12. CASE \E h \in Handlers : Handle(h)
  <2>1. UNCHANGED <<id, stable>>
    BY <1>12 DEF Handle, Lookup, CachedURL, FetchURL, GiveUp, CacheURL, Served, Refused,
                 SetCDNURL, storeVars, history
  <2>2. UNCHANGED <<spc, fetched, oldItems, removed>>
    BY <1>12 DEF Handle, Lookup, CachedURL, FetchURL, GiveUp, CacheURL, Served, Refused,
                 syncVars
  <2> QED
    BY <1>1, <2>1, <2>2
<1>13. CASE \E f \in Files : Change(f)
  BY <1>1, <1>13 DEF Change, storeVars, syncVars
<1>14. CASE Crash
  BY <1>2, <1>14 DEF Crash
<1>15. CASE UNCHANGED vars
  BY <1>1, <1>15 DEF vars, storeVars, syncVars, history
<1> QED
  BY <1>3, <1>4, <1>5, <1>6, <1>7, <1>8, <1>9, <1>10, <1>11, <1>12, <1>13, <1>14, <1>15
     DEF Next, SyncStep

(* Unless an upsert fails, the removal hook is never told of an item with  *)
(* a file that stayed upstream since a listing showed it, although it      *)
(* compares two snapshots with failed listings, failed prunes, crashes and *)
(* changes upstream between them.                                          *)
THEOREM RemovalsAreGenuine ==
  ASSUME ~UpsertMayFail PROVE Spec => []RemovalsGenuine
<1>1. Init => StableInv /\ HookInv
  BY DEF Init, StableInv, HookInv, SnapshotInv, RemovedInv, Unpruned
<1>2. SyncerTypes /\ MirrorInv /\ StableInv /\ [Next]_vars => StableInv'
  BY StableStep
<1>3. SyncerTypes /\ MirrorInv /\ StableInv /\ HookInv /\ [Next]_vars => HookInv'
  BY HookStep
<1>4. HookInv => RemovalsGenuine
  BY DEF HookInv, RemovedInv, RemovalsGenuine, Item
<1> QED
  BY <1>1, <1>2, <1>3, <1>4, MirrorInvariant, PTL DEF Spec
=============================================================================
