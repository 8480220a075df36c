------------------------------- MODULE Listing -------------------------------
(***************************************************************************)
(* What a client sees of the files table: PROPFIND and GET on a WebDAV     *)
(* directory, the /http browser, and the library filter of a mount.        *)
(*                                                                         *)
(* A path is a sequence of names.  The code treats it as one string and    *)
(* looks directories up with LIKE 'dir%', which knows neither where a name *)
(* ends nor letter case and takes '_' for any character.  What that does   *)
(* to names is given by three constants: Rest[n, m] is what is left of m   *)
(* when m is longer than n and begins with it, Alike has the pairs of a    *)
(* pattern and another name it matches, AlikeStart those where it matches  *)
(* another's beginning.                                                    *)
(***************************************************************************)
EXTENDS Integers, SequencesExt

CONSTANTS
  Items,              \* TorBox items; one source, so an item is its own key
  Paths,              \* virtual paths
  Sizes,
  Rank,               \* [names -> their place in ORDER BY name]
  Rest, Alike, AlikeStart,
  Mounts,             \* library.virtual_paths
  Filter,             \* [Mounts -> the filter of that mount]
  HasAll              \* bound: how many rows the table may have

VARIABLES
  files,   \* the files table
  answer   \* the last response

vars == <<files, answer>>

Root == "root"       \* no mount: below the WebDAV root itself
All == "__all__"
Views == {Root, All} \cup Mounts

(* Rows.  id orders the rows of one path and is their number in that order *)
(* here.                                                                   *)
Row == [item : Items, path : Paths, size : Sizes, id : Nat]
None == [kind |-> "none", view |-> Root, dir |-> <<>>, entries |-> {}]

(* The rows of one path are of different items, and have different ids.    *)
Legal(t) ==
  /\ \A r, q \in t : r # q /\ r.path = q.path => r.item # q.item /\ r.id # q.id
  /\ \A r \in t : r.id <= Cardinality({q \in t : q.path = r.path})

Tables ==
  LET rows == [item : Items, path : Paths, size : Sizes, id : 1..Cardinality(Items)]
  IN  {t \in {{f[k] : k \in 1..HasAll} : f \in [1..HasAll -> rows]} : Legal(t)}

Init == files \in Tables /\ answer = None

-----------------------------------------------------------------------------
(* The store                                                               *)

GetFileByPath(p) ==
  LET rows == {r \in files : r.path = p}
  IN  {r \in rows : \A q \in rows : q.id <= r.id}

(* LIKE 'dir%'.                                                            *)
Under(dir, p) ==
  \/ dir = <<>>
  \/ LET k == Len(dir) IN
     /\ Len(p) >= k
     /\ \A i \in 1..k - 1 : dir[i] = p[i] \/ <<dir[i], p[i]>> \in Alike
     /\ \/ dir[k] = p[k]
        \/ <<dir[k], p[k]>> \in Alike \cup AlikeStart \cup DOMAIN Rest

(* ListDir: of the rows that match, the newest of each path.  The mutants  *)
(* take the oldest, and all.                                               *)
ListDirAll(dir) == {r \in files : Under(dir, r.path)}

ListDirOldest(dir) ==
  {r \in files : Under(dir, r.path) /\ \A q \in files : q.path = r.path => q.id >= r.id}

ListDir(dir) ==
  {r \in files : Under(dir, r.path) /\ \A q \in files : q.path = r.path => q.id <= r.id}

-----------------------------------------------------------------------------
(* internal/library.  A filter gives the directories and the paths below   *)
(* them that its expressions match, and the bounds, 0 for none.            *)

Name(r) == Last(r.path)
First(S) == CHOOSE r \in S : \A q \in S : Rank[Name(r)] <= Rank[Name(q)]

MatchDirectory(f, path) == Head(path) \in f.dirs

(* MatchFile on ExtractRelativePath, which is all of a path of one name.   *)
MatchFile(f, path) == (IF Len(path) = 1 THEN path ELSE Tail(path)) \in f.files

MatchSize(f, size) ==
  /\ f.min > 0 => size >= f.min
  /\ f.max > 0 => size <= f.max

Matching(f, rows) ==
  {r \in rows : MatchDirectory(f, r.path) /\ MatchFile(f, r.path) /\ MatchSize(f, r.size)}

(* One row per item: the first, by name, of its largest ones.              *)
Largest(rows) == First({r \in rows : \A q \in rows : q.size <= r.size})
KeepLargest(rows) == {Largest({r \in rows : r.item = i}) : i \in {r.item : r \in rows}}

(* Apply.  The mutant picks the largest files before it looks at them.     *)
ApplyLargestFirst(f, rows) == Matching(f, IF f.largest THEN KeepLargest(rows) ELSE rows)
Apply(f, rows) ==
  LET kept == Matching(f, rows) IN IF f.largest THEN KeepLargest(kept) ELSE kept

Filtered(view, rows) == IF view \in Mounts THEN Apply(Filter[view], rows) ELSE rows

-----------------------------------------------------------------------------
(* The handlers                                                            *)

(* The path of a row below a directory: TrimPrefix leaves alone a path     *)
(* that does not begin with the directory's text.  Empty for itself.       *)
Relative(dir, p) ==
  LET k == Len(dir) IN
  IF k = 0 THEN p
  ELSE IF SubSeq(p, 1, k - 1) # SubSeq(dir, 1, k - 1) THEN p
  ELSE IF p[k] = dir[k] THEN SubSeq(p, k + 1, Len(p))
  ELSE IF <<dir[k], p[k]>> \in DOMAIN Rest
       THEN <<Rest[<<dir[k], p[k]>>]>> \o SubSeq(p, k + 1, Len(p))
  ELSE p

Entry(name, rel, size) ==
  [name |-> name, isDir |-> Len(rel) > 1, size |-> IF Len(rel) > 1 THEN 0 ELSE size]

Synthetic == {Entry(m, <<m, "">>, 0) : m \in {All} \cup Mounts}

(* Immediate children: of the rows with one immediate name the first       *)
(* decides.  An entry for the directory itself is there already.           *)
Children(dir, rows) ==
  LET below == {r \in rows : Relative(dir, r.path) # <<>>}
      Child(r) == Head(Relative(dir, r.path))
  IN  {LET r == First({q \in below : Child(q) = n})
       IN  Entry(n, Relative(dir, r.path), r.size) : n \in {Child(r) : r \in below}}

(* handlePropfind and serveDirListing.                                     *)
Multistatus(view, dir) ==
  IF view = Root /\ dir = <<>> THEN Synthetic
  ELSE Children(dir, Filtered(view, ListDir(dir)))

Dirs == UNION {{SubSeq(p, 1, k) : k \in 0..Len(p) - 1} : p \in Paths}

Propfind(view, dir) ==
  answer' = [kind |-> "propfind", view |-> view, dir |-> dir, entries |-> Multistatus(view, dir)]

(* handleGet: a file, a listing, or a 404.                                 *)
Get(view, dir) ==
  answer' =
    IF dir # <<>> /\ GetFileByPath(dir) # {}
      THEN [kind |-> "file", view |-> view, dir |-> dir,
            entries |-> {Entry(Last(dir), <<Last(dir)>>, r.size) : r \in GetFileByPath(dir)}]
    ELSE IF dir # <<>> /\ ListDir(dir) = {}
      THEN [kind |-> "not found", view |-> view, dir |-> dir, entries |-> {}]
    ELSE [kind |-> "listing", view |-> view, dir |-> dir, entries |-> Multistatus(view, dir)]

(* handleHTTP: the same tree, with the sizes of directories added up.  At  *)
(* the root a mount's size is that of the files its expressions match.     *)
SumSizes(rows) == MapThenSumSet(LAMBDA r : r.size, rows)

Totals(view) ==
  IF view = All THEN SumSizes(ListDir(<<>>))
  ELSE SumSizes({r \in ListDir(<<>>) : MatchDirectory(Filter[view], r.path) /\ MatchFile(Filter[view], r.path)})

(* The mutant forgets the filter.                                          *)
HTTPRowsUnfiltered(view, dir) == ListDir(dir)
HTTPRows(view, dir) == Filtered(view, ListDir(dir))

HTTPEntries(view, dir) ==
  LET rows == HTTPRows(view, dir)
      Rel(r) == Relative(dir, r.path)
      deep == {r \in rows : Len(Rel(r)) > 1}
  IN  {[name |-> n, isDir |-> TRUE, size |-> SumSizes({r \in deep : Head(Rel(r)) = n})] :
         n \in {Head(Rel(r)) : r \in deep}}
      \cup {[name |-> Last(Rel(r)), isDir |-> FALSE, size |-> r.size] :
         r \in {q \in rows : Len(Rel(q)) = 1}}

Browse(view, dir) ==
  answer' =
    IF GetFileByPath(dir) # {}
      THEN [kind |-> "file", view |-> view, dir |-> dir,
            entries |-> {Entry(Last(dir), <<Last(dir)>>, r.size) : r \in GetFileByPath(dir)}]
    ELSE [kind |-> "http", view |-> view, dir |-> dir,
          entries |-> IF view = Root /\ dir = <<>>
                        THEN {[name |-> m, isDir |-> TRUE, size |-> Totals(m)] : m \in {All} \cup Mounts}
                        ELSE HTTPEntries(view, dir)]

Next ==
  /\ answer = None
  /\ \E view \in Views, dir \in Dirs \cup Paths :
       Propfind(view, dir) \/ Get(view, dir) \/ Browse(view, dir)
  /\ UNCHANGED files

Spec == Init /\ [][Next]_vars

-----------------------------------------------------------------------------
(* Properties                                                              *)
(* Types, and that a listing has each child once, although several rows    *)
(* may have its path or lie below it.                                      *)
TypeOK ==
  /\ files \subseteq Row /\ Legal(files)
  /\ answer.kind \in {"none", "propfind", "listing", "http", "file", "not found"}
  /\ \A e \in answer.entries : e.isDir \in BOOLEAN /\ e.size \in 0..HasAll * Max(Sizes)
  /\ \A e, d \in answer.entries : e.name = d.name /\ e.isDir = d.isDir => e = d

(* What is listed is there: GET of a listed file serves a file of the      *)
(* listed size, although the listing and the lookup choose among the rows  *)
(* of a path in different queries, and a listed directory has a listing    *)
(* (store.go:212, 243, propfind.go:110).  This is for directories whose    *)
(* names LIKE takes for no other's in the table.                           *)
Confused(dir) == \E r \in files : Under(dir, r.path) /\ SubSeq(r.path, 1, Len(dir)) # dir

ListedIsServed ==
  /\ answer.kind \in {"propfind", "listing", "http"} /\ ~Confused(answer.dir)
  /\ <<answer.view, answer.dir>> # <<Root, <<>>>>
  => \A e \in answer.entries :
       LET p == Append(answer.dir, e.name)
       IN  IF e.isDir THEN Multistatus(answer.view, p) # {}
           ELSE \E r \in GetFileByPath(p) : r.size = e.size

(* The same where a client only follows listings from the top of a view.   *)
Shown(view) ==
  {p \in Paths : \A k \in 1..Len(p) :
     \E e \in Multistatus(view, SubSeq(p, 1, k - 1)) : e.name = p[k] /\ e.isDir = (k < Len(p))}

Primaries == {r \in files : r \in GetFileByPath(r.path)}
Between(low, size, high) == (low = 0 \/ low <= size) /\ (high = 0 \/ size <= high)
Accepted(f) ==
  {r \in Primaries :
     /\ r.path[1] \in f.dirs /\ Between(f.min, r.size, f.max)
     /\ SubSeq(r.path, IF Len(r.path) = 1 THEN 1 ELSE 2, Len(r.path)) \in f.files}

Best(m) ==
  {r \in Accepted(Filter[m]) :
     \A q \in Accepted(Filter[m]) : q.item = r.item => q.size <= r.size}

(* Following a view's listings, one level at a time and each filtered for  *)
(* itself, leads to all files that the filter accepts and to no other; and *)
(* where largest_file_only hides some, to each item's largest accepted     *)
(* file, although every level picks the largest among the rows of its own  *)
(* directory only (filter.go:92-150, propfind.go:133).                     *)
TreeExact ==
  answer = None =>
    /\ Shown(All) = {r.path : r \in files}
    /\ \A m \in Mounts :
         IF Filter[m].largest
           THEN \A r \in Best(m) : \E q \in Best(m) : q.item = r.item /\ q.path \in Shown(m)
           ELSE Shown(m) = {r.path : r \in Accepted(Filter[m])}

(* The WebDAV listings and the browser show the same tree, synthetic       *)
(* directories included (propfind.go:140-190, http_browser.go:105-180).    *)
ViewsAgree ==
  answer.kind = "http" =>
    {<<e.name, e.isDir>> : e \in answer.entries} =
    {<<e.name, e.isDir>> : e \in Multistatus(answer.view, answer.dir)}
=============================================================================
