---------------------------- MODULE MetadataStore ----------------------------
(***************************************************************************)
(* The files table of internal/metadata/store.go, as the values of its     *)
(* columns.  A file stands for the natural key (source, item_id, file_id), *)
(* which the table's UNIQUE constraint makes a key, so a column is a       *)
(* function on files; id 0 means that the file has no row.                 *)
(*                                                                         *)
(* Names, sizes, MIME types and dates are left out, and a file never       *)
(* changes its path: two files of different items may share one.           *)
(***************************************************************************)
EXTENDS Integers, FiniteSets

CONSTANTS
  Files,     \* natural keys
  SourceOf,  \* [Files -> Sources]
  ItemOf,    \* [Files -> items]: an item has one or more files
  PathOf     \* [Files -> paths]

Sources == {"torrent", "usenet"}
NoURL == "no url"

ASSUME SourceAssumption == SourceOf \in [Files -> Sources]
ASSUME FileAssumption   == NoURL \notin Files

(* Columns of the table and AUTOINCREMENT's counter.                       *)
VARIABLES
  id,      \* [Files -> Nat]: the internal id, 0 for no row
  tag,     \* [Files -> Nat]: sync_tag
  url,     \* [Files -> Files \cup {NoURL}]: cdn_url, as the file it serves
  nextId,  \* the id the next INSERT gets
  metaTag  \* meta.sync_tag

storeVars == <<id, tag, url, nextId, metaTag>>

Rows == {f \in Files : id[f] # 0}
RowsOf(src) == {f \in Rows : SourceOf[f] = src}

StoreInit ==
  /\ id = [f \in Files |-> 0]
  /\ tag = [f \in Files |-> 0]
  /\ url = [f \in Files |-> NoURL]
  /\ nextId = 1
  /\ metaTag = 0

(* Two rows that are read by path: GetFileByPath takes the highest id and  *)
(* GetFileAlternatives all the others.                                     *)
Primary(path) ==
  {f \in Rows : PathOf[f] = path /\ \A g \in Rows : PathOf[g] = path => id[g] <= id[f]}
Alternatives(path) == {f \in Rows : PathOf[f] = path} \ Primary(path)

(* ListItemDirs: the distinct items with at least one row.                 *)
ItemDirs == {<<SourceOf[f], ItemOf[f]>> : f \in Rows}

(* UpsertFile: an INSERT takes a fresh id and has no URL; on a conflict    *)
(* the row keeps its id and its cdn_url and gets the new tag.  The mutant  *)
(* lacks AUTOINCREMENT: SQLite then reuses the id after the largest one.   *)
LargestId == CHOOSE n \in {0} \cup {id[f] : f \in Files} : \A f \in Files : id[f] <= n

UpsertReusing(f, t) ==
  /\ tag' = [tag EXCEPT ![f] = t]
  /\ id' = [id EXCEPT ![f] = IF @ = 0 THEN LargestId + 1 ELSE @]
  /\ url' = [url EXCEPT ![f] = IF id[f] = 0 THEN NoURL ELSE @]
  /\ nextId' = nextId
  /\ UNCHANGED metaTag

UpsertFile(f, t) ==
  /\ tag' = [tag EXCEPT ![f] = t]
  /\ IF id[f] = 0
     THEN /\ id' = [id EXCEPT ![f] = nextId]
          /\ url' = [url EXCEPT ![f] = NoURL]
          /\ nextId' = nextId + 1
     ELSE UNCHANGED <<id, url, nextId>>
  /\ UNCHANGED metaTag

(* SetCDNURL: WHERE id = internalID.  It may match no row.                 *)
SetCDNURL(internalID, u) ==
  /\ url' = [f \in Files |-> IF id[f] = internalID /\ id[f] # 0 THEN u ELSE url[f]]
  /\ UNCHANGED <<id, tag, nextId, metaTag>>

(* GetNextSyncTag: seed the counter, then increment it atomically.         *)
GetNextSyncTag ==
  /\ metaTag' = metaTag + 1
  /\ UNCHANGED <<id, tag, url, nextId>>

(* PruneBySyncTag: the rows one DELETE may remove, and the DELETE.         *)
Prunable(t, src) == {f \in RowsOf(src) : tag[f] # t \/ tag[f] = 0}

Delete(batch) ==
  /\ id' = [f \in Files |-> IF f \in batch THEN 0 ELSE id[f]]
  /\ tag' = [f \in Files |-> IF f \in batch THEN 0 ELSE tag[f]]
  /\ url' = [f \in Files |-> IF f \in batch THEN NoURL ELSE url[f]]
  /\ UNCHANGED <<nextId, metaTag>>
=============================================================================
