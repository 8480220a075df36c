----------------------------- MODULE MCThrottle -----------------------------
(* An instance of Throttle for TLC.                                        *)
EXTENDS Throttle

CONSTANTS r1, r2, r3

(* Three requests: two on the playback queue, whose channel of one they    *)
(* fill, and one sync listing that needs a second page or a retry.         *)
SmallRequests == {r1, r2, r3}
SmallQueueOf == [r \in SmallRequests |-> IF r = r3 THEN "sync" ELSE "request"]
SmallCalls == [r \in SmallRequests |-> IF r = r3 THEN 2 ELSE 1]
=============================================================================
