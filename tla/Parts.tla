-------------------------------- MODULE Parts --------------------------------
(***************************************************************************)
(* The small components side by side.  They share no state, so only one of *)
(* them, part, takes steps in a behaviour while the others stay as they    *)
(* were at first: the states are the sum of theirs and not the product.    *)
(***************************************************************************)
EXTENDS Integers, Sequences, FiniteSets

CONSTANTS
  PageSize, Cap, RetryAttempts, AtFirst, MaxAdds, MaxRemovals, MaxPageFailures,  \* Paging
  Requests, Levels, Default, MaxFailures, MaxCrashes,                            \* LogLevel
  Writers, Messages, Capacity,                                                   \* LogBuffer
  Items, Paths, Sizes, Rank, Rest, Alike, AlikeStart, Mounts, Filter, HasAll,    \* Listing
  Clients, MaxSize, Holders, MaxSyncs                                            \* RangeProxy

VARIABLES
  part,
  library, created, pagePc, offset, attempt, all, pageFailures,
  stayed, seen, adds, removals, addsFrom, removalsFrom,
  config, tmp, data, levelVar, shown, up, levelPc, want, fd, failures, crashes, overlapped,
  buf, pos, full, pending, latest,
  files, answer,
  size, listed, true, url, refused, syncs, clientPc, req, resp

pagesVars == <<library, created, pagePc, offset, attempt, all, pageFailures,
               stayed, seen, adds, removals, addsFrom, removalsFrom>>
levelVars == <<config, tmp, data, levelVar, shown, up, levelPc, want, fd,
               failures, crashes, overlapped>>
bufferVars == <<buf, pos, full, pending, latest>>
listingVars == <<files, answer>>
rangesVars == <<size, listed, true, url, refused, syncs, clientPc, req, resp>>
vars == <<part, pagesVars, levelVars, bufferVars, listingVars, rangesVars>>

-----------------------------------------------------------------------------
Pages == INSTANCE Paging WITH
  pc <- pagePc, failures <- pageFailures, MaxFailures <- MaxPageFailures
Level == INSTANCE LogLevel WITH pc <- levelPc
Buffer == INSTANCE LogBuffer
Tree == INSTANCE Listing
Ranges == INSTANCE RangeProxy WITH pc <- clientPc

ASSUME PagesAssumption ==
  /\ PageSize \in Nat \ {0} /\ Cap \in Nat /\ Cap >= PageSize
  /\ {AtFirst, RetryAttempts, MaxAdds, MaxRemovals, MaxPageFailures} \subseteq Nat
ASSUME LevelAssumption ==
  /\ IsFiniteSet(Requests)
  /\ Default \in Levels /\ Levels \cap {Level!Empty, Level!Unset} = {}
  /\ MaxFailures \in Nat /\ MaxCrashes \in Nat
ASSUME BufferAssumption == Capacity \in Nat \ {0}

(* The names of files and directories.                                     *)
Names == UNION {{p[i] : i \in DOMAIN p} : p \in Paths}
ASSUME TreeAssumption ==
  /\ \A p \in Paths : p \in Seq(Names) /\ p # <<>> /\ Rank[p[Len(p)]] \in Nat
  /\ IsFiniteSet(Sizes) /\ Sizes \subseteq Nat /\ Sizes # {}
  /\ IsFiniteSet(Items) /\ HasAll \in Nat
  /\ {Tree!Root, Tree!All} \cap Mounts = {}
  /\ \A m \in Mounts : Filter[m].min \in Nat /\ Filter[m].max \in Nat

ASSUME RangesAssumption == MaxSize \in Nat /\ "primary" \in Holders

Parts == {"pages", "level", "buffer", "tree", "ranges"}

Init ==
  /\ part \in Parts
  /\ Pages!Init /\ Level!Init /\ Buffer!Init
  /\ Ranges!Init
  /\ part # "ranges" => size = 0 /\ \A h \in DOMAIN true : true[h] = 0
  /\ IF part = "tree" THEN Tree!Init ELSE files = {} /\ answer = Tree!None

Others(p) ==
  /\ UNCHANGED part
  /\ p # "pages" => UNCHANGED pagesVars
  /\ p # "level" => UNCHANGED levelVars
  /\ p # "buffer" => UNCHANGED bufferVars
  /\ p # "tree" => UNCHANGED listingVars
  /\ p # "ranges" => UNCHANGED rangesVars

PagesStep == part = "pages" /\ Pages!Next /\ Others("pages")
LevelStep == part = "level" /\ Level!Next /\ Others("level")
BufferStep == part = "buffer" /\ Buffer!Next /\ Others("buffer")
TreeStep == part = "tree" /\ Tree!Next /\ Others("tree")
RangesStep == part = "ranges" /\ Ranges!Next /\ Others("ranges")

Next == PagesStep \/ LevelStep \/ BufferStep \/ TreeStep \/ RangesStep

Spec == Init /\ [][Next]_vars

-----------------------------------------------------------------------------
(* What the theorems about listings ask of names, each no more than it     *)
(* needs: the code takes a path for a string, and where it confuses two of *)
(* them a listing may well be wrong.                                       *)
Prefix(d, p) == Len(d) <= Len(p) /\ \A i \in 1..Len(d) : d[i] = p[i]
Stray(d, p) == Tree!Under(d, p) /\ ~Prefix(d, p)

(* No path is a file and a directory at once.                              *)
NoFileIsDirectory == \A p, q \in Paths : Prefix(p, q) => p = q

(* No entry of a directory would be a file for one row and a directory for *)
(* another.                                                                *)
SameKind(d) ==
  \A p, q \in Paths :
    LET x == Tree!Relative(d, p)
        y == Tree!Relative(d, q) IN
    /\ Tree!Under(d, p) /\ Tree!Under(d, q)
    /\ x # <<>> /\ y # <<>> /\ Head(x) = Head(y)
    => (Len(x) > 1 <=> Len(y) > 1)

(* No two files of a directory have one name.                              *)
LeavesApart(d) ==
  \A p, q \in Paths :
    LET x == Tree!Relative(d, p) IN
    /\ Tree!Under(d, p) /\ Tree!Under(d, q)
    /\ Len(x) = 1 /\ x = Tree!Relative(d, q)
    => p = q

(* What strays into a directory takes the name of nothing that is in it.   *)
StraysApart(d) ==
  \A p, q \in Paths :
    Stray(d, p) => ~Prefix(Append(d, Head(Tree!Relative(d, p))), q)

(* Nor does it have the rank of a file there that the mount accepts, where *)
(* the mount accepts both and shows one.                                   *)
RanksApart(m, d) ==
  Filter[m].largest =>
    \A p, q \in Paths :
      /\ Stray(d, p) /\ Prefix(d, q)
      /\ \A path \in {p, q} :
           Tree!MatchDirectory(Filter[m], path) /\ Tree!MatchFile(Filter[m], path)
      => Rank[p[Len(p)]] # Rank[q[Len(q)]]

-----------------------------------------------------------------------------
(* The properties of the components, where the component runs.             *)

(* The types, and in their modules what goes with them.                    *)
TypesOK ==
  CASE part = "pages" -> Pages!TypeOK
    [] part = "level" -> Level!TypeOK
    [] part = "buffer" -> Buffer!TypeOK
    [] part = "tree" -> Tree!TypeOK
    [] part = "ranges" -> Ranges!TypeOK

(* A listing page by page errs by no more items than came or went during   *)
(* it (client.go:181-260).                                                 *)
ListingErrsByChanges == part = "pages" => Pages!ListingErrsByChanges

(* The configuration stays one that the program starts from, and agrees    *)
(* with the running level (config.go:487, actions.go:94).                  *)
LevelPersisted == part = "level" => Level!LevelPersisted

(* The log page shows the newest lines, newest first (logs.go:80-105).     *)
LinesExact == part = "buffer" => Buffer!LinesExact

(* Listings lead to all files of a view and to no other, stray entries of  *)
(* confused names aside (propfind.go:133, filter.go:92).                   *)
TreeExact == part = "tree" => Tree!TreeExact

(* What a listing shows is served as it shows it, where LIKE takes the     *)
(* directory for no other (store.go:212, 243).                             *)
ListedIsServed == part = "tree" => Tree!ListedIsServed

(* WebDAV and the browser show the same tree (propfind.go:140-190,         *)
(* http_browser.go:105-180).                                               *)
ViewsAgree == part = "tree" => Tree!ViewsAgree

(* With the right size a client gets exactly the bytes it asked for        *)
(* (get.go:1014, 134-155, 359-371).                                        *)
RightSizeServesExactly == part = "ranges" => Ranges!RightSizeServesExactly
=============================================================================
