---------------------------- MODULE MCSyncWorker ----------------------------
(* Instances of SyncWorker for TLC.                                        *)
EXTENDS SyncWorker

CONSTANTS t1, t2, u1, s1, s2, h1

(* Two torrent files of one path (a duplicate of another item), so that a  *)
(* handler may fall back from one to the other, and one usenet file.       *)
MCFiles == {t1, t2, u1}
MCSourceOf == [f \in MCFiles |-> IF f = u1 THEN "usenet" ELSE "torrent"]
MCItemOf == [f \in MCFiles |-> CASE f = t1 -> 1 [] f = t2 -> 2 [] f = u1 -> 1]
MCPathOf == [f \in MCFiles |-> IF f = u1 THEN "q" ELSE "p"]
=============================================================================
