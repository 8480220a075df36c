---------------------------- MODULE LibraryMirror ----------------------------
(***************************************************************************)
(* What the sync promises of the library, without saying how: the library  *)
(* follows, source by source, the latest listing that TorBox answered      *)
(* successfully.  A file enters it only from that listing and leaves it    *)
(* only because that listing lacks it.                                     *)
(***************************************************************************)
CONSTANTS Files, SourceOf, Sources

VARIABLES
  library,  \* the files that are served
  listing   \* [Sources -> SUBSET Files]: the latest successful answer

Init ==
  /\ library = {}
  /\ listing = [src \in Sources |-> {}]

Listed == {f \in Files : f \in listing[SourceOf[f]]}

(* A source answers; the library has not moved yet.                        *)
Answer(src) ==
  /\ \E answer \in SUBSET {f \in Files : SourceOf[f] = src} :
        listing' = [listing EXCEPT ![src] = answer]
  /\ UNCHANGED library

Follow ==
  /\ library' \ library \subseteq Listed
  /\ library \ library' \subseteq Files \ Listed
  /\ UNCHANGED listing

Next == Follow \/ \E src \in Sources : Answer(src)

Spec == Init /\ [][Next]_<<library, listing>>
=============================================================================
