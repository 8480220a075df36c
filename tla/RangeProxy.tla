----------------------------- MODULE RangeProxy -----------------------------
(***************************************************************************)
(* Byte ranges and file sizes: the range a client asks for is parsed       *)
(* against the size the store has, asked of the CDN, which goes by the     *)
(* size the file has there, and a 416 of the CDN corrects the store.  The  *)
(* URL may be an alternative's, another item's with the same path, and the *)
(* next sync writes TorBox's size again.                                   *)
(*                                                                         *)
(* Bytes are numbered; a response is the bytes it claims and those it has. *)
(* The failures of the CDN that CdnStream is about are left out, and so is *)
(* a CDN that ignores the Range header.                                    *)
(***************************************************************************)
EXTENDS Integers, FiniteSetsExt

CONSTANTS
  Clients,
  MaxSize,     \* bound on sizes
  Holders,     \* {"primary"} or {"primary", "alternative"}: who has the path
  MaxSyncs     \* bound on syncs

Lengths == 0..MaxSize
Unknown == "no URL"

VARIABLES
  size,     \* files.size of the primary row
  listed,   \* its size in TorBox's listing
  true,     \* [Holders -> size of the file at the CDN]
  url,      \* the holder whose URL the row has, or Unknown
  refused,  \* the primary has an entry in the negative cache
  syncs,
  pc, req, resp   \* [Clients -> handler's label, its request, its last response]

world == <<listed, true>>
vars == <<size, listed, true, url, refused, syncs, pc, req, resp>>

(* Range headers of one range; none at all is one of them.                 *)
Span(a, b) == [form |-> "span", a |-> a, b |-> b]
From(a) == [form |-> "from", a |-> a]
Suffix(n) == [form |-> "suffix", n |-> n]
NoRange == [form |-> "none"]
Headers == {NoRange} \cup {From(a) : a \in Lengths} \cup {Suffix(n) : n \in Lengths}
           \cup {Span(a, b) : a, b \in Lengths}

-----------------------------------------------------------------------------
(* parseRange: the range, as its first and last byte, or refusal.  The     *)
(* mutant is off by one.                                                   *)
Bounds(a, b) == [ok |-> TRUE, start |-> a, end |-> b]
Refused == [ok |-> FALSE, start |-> 0, end |-> 0]
Length(r) == r.end - r.start + 1

WithinLoosely(a, b, n) == IF a > b \/ a < 0 \/ b > n THEN Refused ELSE Bounds(a, b)
Within(a, b, n) == IF a > b \/ a < 0 \/ b >= n THEN Refused ELSE Bounds(a, b)

LastOnes(k, n) == IF k >= n THEN Bounds(0, n - 1) ELSE Bounds(n - k, n - 1)

ParseRange(h, n) ==
  CASE h.form = "none" -> Bounds(0, n - 1)
    [] h.form = "suffix" -> LastOnes(h.n, n)
    [] h.form = "from" -> Within(h.a, n - 1, n)
    [] h.form = "span" -> Within(h.a, h.b, n)

(* The bytes that a header asks for, of n: none when the first lies after  *)
(* the last, which the code refuses and RFC 9110 would have ignored.       *)
Asked(h, n) ==
  CASE h.form = "none" -> 0..n - 1
    [] h.form = "suffix" -> {i \in 0..n - 1 : i >= n - h.n}
    [] h.form = "from" -> h.a..n - 1
    [] h.form = "span" -> {i \in h.a..h.b : i < n}

(* The CDN: what it sends for bytes=start-end, {} with a 416.  A range     *)
(* that ends before it starts is none, and is ignored.                     *)
WholeFile(n) == [status |-> 200, bytes |-> 0..n - 1]
CDN(r, n) ==
  IF r.start > r.end \/ r.start < 0 THEN WholeFile(n)
  ELSE IF r.start >= n THEN [status |-> 416, bytes |-> {}]
  ELSE [status |-> 206, bytes |-> {i \in r.start..r.end : i < n}]

-----------------------------------------------------------------------------
Idle == [head |-> NoRange, size |-> 0, hang |-> FALSE, from |-> "primary"]
NoAnswer == [head |-> NoRange, size |-> 0, from |-> "primary", status |-> 0,
             start |-> 0, promised |-> 0, bytes |-> {}]

Init ==
  /\ size \in Lengths /\ listed = size
  /\ true \in [Holders -> Lengths]
  /\ url = Unknown /\ refused = FALSE /\ syncs = 0
  /\ pc = [c \in Clients |-> "idle"]
  /\ req = [c \in Clients |-> Idle]
  /\ resp = [c \in Clients |-> NoAnswer]

Goto(c, label) == pc' = [pc EXCEPT ![c] = label]

Answer(c, status, start, promised, bytes) ==
  /\ resp' = [resp EXCEPT ![c] =
       [head |-> req[c].head, size |-> req[c].size, from |-> req[c].from, status |-> status,
        start |-> start, promised |-> promised, bytes |-> bytes]]
  /\ Goto(c, "idle")

(* The client knows the size of a HEAD or a listing, and asks for a part   *)
(* of it; the handler looks the row up once, with that size.               *)
Request(c, h) ==
  /\ pc[c] = "idle"
  /\ req' = [req EXCEPT ![c] = [Idle EXCEPT !.head = h, !.size = size]]
  /\ Goto(c, "resolve")
  /\ UNCHANGED <<size, world, url, refused, syncs, resp>>

Ask(c) == \E h \in Headers : Request(c, h)

(* handleGet: WebDAV sends a client that wants the whole file to the CDN.  *)
Redirect(c) ==
  /\ pc[c] = "resolve" /\ ~req[c].hang /\ url # Unknown
  /\ req[c].head = NoRange
  /\ Answer(c, 302, 0, 0, {})
  /\ UNCHANGED <<size, world, url, refused, syncs, req>>

(* A cached URL; the hang mode does not look for one.                      *)
Cached(c) ==
  /\ pc[c] = "resolve" /\ ~req[c].hang /\ url # Unknown
  /\ req' = [req EXCEPT ![c].from = url]
  /\ Goto(c, "proxy")
  /\ UNCHANGED <<size, world, url, refused, syncs, resp>>

(* fetchCDNURL, then tryCDNFallback.                                       *)
Fetch(c, h) ==
  /\ pc[c] = "resolve" /\ (req[c].hang \/ url = Unknown)
  /\ h = "primary" => ~refused
  /\ req' = [req EXCEPT ![c].from = h]
  /\ url' = h
  /\ Goto(c, "proxy")
  /\ UNCHANGED <<size, world, refused, syncs, resp>>

(* Neither: the hang mode parses the range and sends its headers, then     *)
(* polls.                                                                  *)
FetchFails(c) ==
  /\ pc[c] = "resolve" /\ ~req[c].hang /\ url = Unknown
  /\ IF ParseRange(req[c].head, req[c].size).ok
       THEN req' = [req EXCEPT ![c].hang = TRUE] /\ UNCHANGED <<pc, resp>>
       ELSE Answer(c, 416, 0, 0, {}) /\ UNCHANGED req
  /\ UNCHANGED <<size, world, url, refused, syncs>>

Claimed(c) == ParseRange(req[c].head, req[c].size)

BadRange(c) ==
  /\ pc[c] = "proxy" /\ ~Claimed(c).ok
  /\ Answer(c, 416, 0, 0, {})
  /\ UNCHANGED <<size, world, url, refused, syncs, req>>

(* The body is cut at the Content-Length.                                  *)
Cut(bytes, n) == {i \in bytes : i < Min(bytes) + n}
Status(h) == IF h = NoRange THEN 200 ELSE 206

Streams(c, body) ==
  /\ body.status # 416
  /\ Answer(c, Status(req[c].head), Claimed(c).start, Length(Claimed(c)),
            IF body.bytes = {} THEN {} ELSE Cut(body.bytes, Length(Claimed(c))))
  /\ UNCHANGED <<size, url, refused>>

(* A 416 with the true size.  In hang mode the headers have been sent.     *)
Correct(c, n) ==
  IF n = req[c].size THEN UNCHANGED <<size, url, refused>>
  ELSE size' = n /\ url' = Unknown /\ refused' = TRUE

Unsatisfiable(c, body) ==
  /\ body.status = 416
  /\ Correct(c, true[req[c].from])
  /\ IF req[c].hang THEN Answer(c, Status(req[c].head), Claimed(c).start, Length(Claimed(c)), {})
     ELSE Answer(c, 416, 0, 0, {})

Proxy(c) ==
  /\ pc[c] = "proxy" /\ Claimed(c).ok
  /\ LET body == CDN(Claimed(c), true[req[c].from])
     IN  Streams(c, body) \/ Unsatisfiable(c, body)
  /\ UNCHANGED <<world, syncs, req>>

(* A sync writes the listed size (UpsertFile).                             *)
Sync ==
  /\ syncs < MaxSyncs /\ syncs' = syncs + 1
  /\ size' = listed
  /\ UNCHANGED <<world, url, refused, pc, req, resp>>

URLExpires ==
  /\ url # Unknown /\ url' = Unknown
  /\ UNCHANGED <<size, world, refused, syncs, pc, req, resp>>

NegativeExpires ==
  /\ refused /\ refused' = FALSE
  /\ UNCHANGED <<size, world, url, syncs, pc, req, resp>>

Handle(c) ==
  \/ Redirect(c) \/ Cached(c) \/ BadRange(c) \/ Proxy(c) \/ FetchFails(c)
  \/ \E h \in Holders : Fetch(c, h)

Next ==
  \/ \E c \in Clients : Handle(c) \/ Ask(c)
  \/ Sync \/ URLExpires \/ NegativeExpires

Spec == Init /\ [][Next]_vars

-----------------------------------------------------------------------------
(* Properties                                                              *)
TypeOK ==
  /\ size \in Lengths /\ listed \in Lengths /\ true \in [Holders -> Lengths]
  /\ url \in Holders \cup {Unknown} /\ refused \in BOOLEAN
  /\ pc \in [Clients -> {"idle", "resolve", "proxy"}]
  /\ \A c \in Clients :
       /\ req[c].head \in Headers /\ req[c].size \in Lengths /\ req[c].hang \in BOOLEAN
       /\ resp[c].status \in {0, 200, 206, 302, 416}
       /\ resp[c].start \in Lengths /\ resp[c].promised \in 0..MaxSize /\ resp[c].bytes \subseteq Lengths

(* While the store has the size of the file the URL serves, a client gets  *)
(* exactly the bytes its header means, as many as it was promised, of the  *)
(* empty file and of the suffix of nothing too; and only a range that      *)
(* leaves the file is refused (get.go:1014, 134-155, 359-371).             *)
RightSizeServesExactly ==
  \A c \in Clients : resp[c].size = true[resp[c].from] =>
    LET asked == Asked(resp[c].head, resp[c].size) IN
    /\ resp[c].status \in {200, 206} => resp[c].bytes = asked /\ resp[c].promised = Cardinality(asked)
    /\ resp[c].status = 416 =>
         \/ asked = {}
         \/ resp[c].head.form = "span" /\ resp[c].head.b >= resp[c].size
=============================================================================
