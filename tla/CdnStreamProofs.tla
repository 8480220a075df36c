--------------------------- MODULE CdnStreamProofs ---------------------------
(***************************************************************************)
(* Proofs about CdnStream, for every finite set of handlers, all files and *)
(* every number of CDN connections and repairs.                            *)
(***************************************************************************)
EXTENDS CdnStream, FiniteSetTheorems, TLAPS

Holders == {h \in Handlers : pc[h] \in Holding}

(* TypeOK but for the bound on slots, which is a matter of counting; and a *)
(* repair is only begun with an attempt to spare.                          *)
Types ==
  /\ slots \in Nat
  /\ cached \in [Files -> BOOLEAN] /\ negative \in [Files -> BOOLEAN]
  /\ pc \in [Handlers -> Labels] /\ file \in [Handlers -> Files]
  /\ badRange \in [Handlers -> BOOLEAN] /\ attempt \in [Handlers -> 0..RepairRetries]
  /\ status \in [Handlers -> Statuses]
  /\ body \in [Handlers -> {"empty", "media", "text"}]
  /\ left \in [Handlers -> BOOLEAN]
  /\ \A h \in Handlers : pc[h] = "repair" => attempt[h] < RepairRetries

(* Where nothing has been answered yet, and where the hang mode has sent   *)
(* its status and nothing more.                                            *)
Silent == {"idle", "resolve", "store", "range", "request", "acquire", "upstream",
           "repair", "repair store", "hang"}
Promised == {"poll", "hang store", "hang acquire", "hang upstream", "sleep"}

ReplyInv ==
  \A h \in Handlers :
    /\ pc[h] \in Silent => status[h] = "none" /\ body[h] = "empty"
    /\ pc[h] \in Promised => status[h] = "success" /\ body[h] = "empty"
    /\ pc[h] = "streaming" => status[h] = "success"
    /\ body[h] # "empty" => body[h] = "media" /\ status[h] = "success"

Inv == Types /\ ReplyInv /\ SlotsConserved

-----------------------------------------------------------------------------
(* The steps of the handlers, by what they do to the label and to slots.   *)

LEMMA HoldersFinite == IsFiniteSet(Holders) /\ Cardinality(Holders) \in Nat
<1>1. Holders \subseteq Handlers
  BY DEF Holders
<1> QED
  BY <1>1, FiniteAssumption, FS_Subset, FS_CardinalityType

(* Of all the handlers only h may have moved.                              *)
OnlyMoves(h) == \A g \in Handlers \ {h} : pc'[g] = pc[g]

LEMMA HolderComes ==
  ASSUME NEW h \in Handlers, OnlyMoves(h), pc[h] \notin Holding, pc'[h] \in Holding
  PROVE  Cardinality(Holders') = Cardinality(Holders) + 1
<1>1. Holders' = Holders \cup {h}
  BY DEF OnlyMoves, Holders
<1>2. h \notin Holders
  BY DEF Holders
<1> QED
  BY <1>1, <1>2, HoldersFinite, FS_AddElement

LEMMA HolderGoes ==
  ASSUME NEW h \in Handlers, OnlyMoves(h), pc[h] \in Holding, pc'[h] \notin Holding
  PROVE  Cardinality(Holders') = Cardinality(Holders) - 1
<1>1. Holders' = Holders \ {h}
  BY DEF OnlyMoves, Holders
<1>2. h \in Holders
  BY DEF Holders
<1> QED
  BY <1>1, <1>2, HoldersFinite, FS_RemoveElement

LEMMA HolderStays ==
  ASSUME NEW h \in Handlers, OnlyMoves(h), pc[h] \in Holding <=> pc'[h] \in Holding
  PROVE  Holders' = Holders
BY DEF OnlyMoves, Holders

-----------------------------------------------------------------------------
(* Types                                                                   *)

LEMMA InitInv == Init => Inv
<1> SUFFICES ASSUME Init PROVE Inv
  OBVIOUS
<1>1. Types
  <2>1. NoFile \in Files
    BY FilesAssumption DEF NoFile
  <2>2. "idle" \in Labels /\ "none" \in Statuses
    BY DEF Labels, Statuses
  <2> QED
    BY <2>1, <2>2, ConnsAssumption, RepairAssumption DEF Init, Types
<1>2. ReplyInv
  BY DEF Init, ReplyInv, Promised
<1>3. SlotsConserved
  <2>1. {h \in Handlers : pc[h] \in Holding} = {}
    BY DEF Init, Holding
  <2> QED
    BY <2>1, FS_EmptySet, ConnsAssumption DEF Init, SlotsConserved
<1> QED
  BY <1>1, <1>2, <1>3 DEF Inv

(* What the handlers do to the two caches keeps their types.               *)
LEMMA CachesTyped ==
  ASSUME Types, NEW f \in Files,
         \/ UNCHANGED fileVars
         \/ FetchSucceeds(f) \/ FetchFails(f) \/ CorrectSize(f)
         \/ (StoreURL(f) \/ Invalidate(f)) /\ UNCHANGED negative
         \/ UNCHANGED cached /\ negative' = [negative EXCEPT ![f] = TRUE]
  PROVE  cached' \in [Files -> BOOLEAN] /\ negative' \in [Files -> BOOLEAN]
BY DEF Types, fileVars, FetchSucceeds, FetchFails, CorrectSize, StoreURL, Invalidate

LEMMA TypesKept == Types /\ [Next]_vars => Types'
<1> SUFFICES ASSUME Types, [Next]_vars PROVE Types'
  OBVIOUS
<1> USE DEF Goto, Write, Respond, Labels, Holding, Statuses
<1>1. ASSUME NEW h \in Handlers, Request(h) PROVE Types'
  <2> PICK f \in Files :
        /\ file' = [file EXCEPT ![h] = f]
        /\ \/ Respond(h, "redirect") /\ UNCHANGED badRange
           \/ /\ \E bad \in BOOLEAN : badRange' = [badRange EXCEPT ![h] = bad]
              /\ Goto(h, "resolve")
              /\ UNCHANGED replyVars
    BY <1>1 DEF Request
  <2>1. file' \in [Handlers -> Files] /\ badRange' \in [Handlers -> BOOLEAN]
    BY DEF Types
  <2>2. /\ pc' \in [Handlers -> Labels]
        /\ \A g \in Handlers : pc'[g] = "repair" => pc[g] = "repair"
        /\ status' \in [Handlers -> Statuses]
        /\ body' \in [Handlers -> {"empty", "media", "text"}]
    BY DEF Types, replyVars
  <2> QED
    BY <1>1, <2>1, <2>2 DEF Types, Request, fileVars
<1>2. ASSUME NEW h \in Handlers, Leave(h) PROVE Types'
  BY <1>2 DEF Types, Leave, replyVars, fileVars
<1>3. ASSUME NEW h \in Handlers, GetsSlot(h) PROVE Types'
  <2>1. slots' \in Nat
    <3>1. slots \in Nat /\ slots > 0 /\ slots' = slots - 1
      BY <1>3 DEF Types, GetsSlot, Acquire
    <3> QED
      BY <3>1
  <2>2. /\ pc' \in [Handlers -> Labels]
        /\ \A g \in Handlers : pc'[g] = "repair" => pc[g] = "repair"
    BY <1>3 DEF Types, GetsSlot, Acquire
  <2> QED
    BY <1>3, <2>1, <2>2 DEF Types, GetsSlot, Acquire, replyVars, fileVars
<1>4. ASSUME NEW h \in Handlers, ResolveCached(h) \/ ResolveFails(h) PROVE Types'
  BY <1>4 DEF Types, ResolveCached, ResolveFails, replyVars, fileVars
<1>5. ASSUME NEW h \in Handlers, ResolveFetch(h) \/ HangFetch(h) PROVE Types'
  <2>1. cached' \in [Files -> BOOLEAN] /\ negative' \in [Files -> BOOLEAN]
    BY <1>5, CachesTyped DEF ResolveFetch, HangFetch, Types
  <2> QED
    BY <1>5, <2>1 DEF Types, ResolveFetch, HangFetch, replyVars
<1>6. ASSUME NEW h \in Handlers,
             NEW from, NEW to \in Labels \ {"repair"}, Store(h, from, to)
      PROVE  Types'
  <2>1. cached' \in [Files -> BOOLEAN] /\ negative' \in [Files -> BOOLEAN]
    BY <1>6, CachesTyped DEF Store, Types
  <2> QED
    BY <1>6, <2>1 DEF Types, Store, replyVars
<1>7. ASSUME NEW h \in Handlers, ParseRange(h) \/ NewRequest(h) \/ HangStarts(h) PROVE Types'
  BY <1>7 DEF Types, ParseRange, NewRequest, HangStarts, replyVars, fileVars
<1>8. ASSUME NEW h \in Handlers, Proxy(h) PROVE Types'
  <2> PICK answer \in Answers :
        \/ ProxyFails(h, answer) \/ ProxyRepair(h, answer) \/ ProxyHangs(h, answer)
        \/ ProxyUnsatisfiable(h, answer) \/ ProxyStreams(h, answer)
    BY <1>8 DEF Proxy
  <2>1. cached' \in [Files -> BOOLEAN] /\ negative' \in [Files -> BOOLEAN]
    <3>1. file[h] \in Files
      BY DEF Types
    <3> QED
      BY <3>1, CachesTyped
      DEF ProxyFails, ProxyRepair, ProxyHangs, ProxyUnsatisfiable, ProxyStreams
  <2>2. slots' \in Nat
    <3>1. slots \in Nat /\ (slots' = slots \/ slots' = slots + 1)
      BY DEF Types, ProxyFails, ProxyRepair, ProxyHangs, ProxyUnsatisfiable, ProxyStreams, Release
    <3> QED
      BY <3>1
  <2>3. status' \in [Handlers -> Statuses] /\ body' \in [Handlers -> {"empty", "media", "text"}]
    BY DEF Types, ProxyFails, ProxyRepair, ProxyHangs, ProxyUnsatisfiable, ProxyStreams, replyVars
  <2>4. pc' \in [Handlers -> Labels]
        /\ \A g \in Handlers : pc'[g] = "repair" => attempt[g] < RepairRetries
    <3>1. CASE ProxyRepair(h, answer)
      <4>1. attempt[h] \in 0..RepairRetries /\ attempt[h] # RepairRetries
        BY <3>1 DEF Types, ProxyRepair, Repairs, LastAttempt
      <4>2. attempt[h] < RepairRetries
        BY <4>1, RepairAssumption
      <4> QED
        BY <3>1, <4>2 DEF Types, ProxyRepair
    <3>2. CASE ~ProxyRepair(h, answer)
      BY <3>2 DEF Types, ProxyFails, ProxyHangs, ProxyUnsatisfiable, ProxyStreams
    <3> QED
      BY <3>1, <3>2
  <2> QED
    BY <1>8, <2>1, <2>2, <2>3, <2>4 DEF Types, Proxy
<1>9. ASSUME NEW h \in Handlers, Repair(h) PROVE Types'
  <2>1. cached' \in [Files -> BOOLEAN] /\ negative' \in [Files -> BOOLEAN]
    BY <1>9, CachesTyped DEF Repair, Types
  <2>2. attempt' \in [Handlers -> 0..RepairRetries]
    <3>1. attempt[h] \in 0..RepairRetries /\ attempt[h] < RepairRetries
      BY <1>9 DEF Repair, Types
    <3>2. attempt[h] + 1 \in 0..RepairRetries
      BY <3>1, RepairAssumption
    <3> QED
      BY <1>9, <3>2 DEF Repair, Types
  <2> QED
    BY <1>9, <2>1, <2>2 DEF Types, Repair, replyVars
<1>10. ASSUME NEW h \in Handlers, Copied(h) \/ Sleep(h) PROVE Types'
  <2>1. slots' \in Nat
    <3>1. slots \in Nat /\ (slots' = slots \/ slots' = slots + 1)
      BY <1>10 DEF Types, Copied, Sleep, Release
    <3> QED
      BY <3>1
  <2>2. /\ pc' \in [Handlers -> Labels]
        /\ \A g \in Handlers : pc'[g] = "repair" => pc[g] = "repair"
    BY <1>10 DEF Types, Copied, Sleep
  <2> QED
    BY <1>10, <2>1, <2>2 DEF Types, Copied, Sleep, replyVars, fileVars
<1>11. ASSUME NEW h \in Handlers, HangProxy(h) PROVE Types'
  <2> PICK answer \in Answers :
        HangRetries(h, answer) \/ HangRefuses(h, answer) \/ HangStreams(h, answer)
    BY <1>11 DEF HangProxy
  <2>1. cached' \in [Files -> BOOLEAN] /\ negative' \in [Files -> BOOLEAN]
    <3>1. file[h] \in Files
      BY DEF Types
    <3> QED
      BY <3>1, CachesTyped DEF HangRetries, HangRefuses, HangStreams, fileVars
  <2>2. slots' \in Nat
    <3>1. slots \in Nat /\ (slots' = slots \/ slots' = slots + 1)
      BY DEF Types, HangRetries, HangRefuses, HangStreams, Release
    <3> QED
      BY <3>1
  <2>3. status' = status /\ body' \in [Handlers -> {"empty", "media", "text"}]
    BY DEF Types, HangRetries, HangRefuses, HangStreams, replyVars
  <2>4. /\ pc' \in [Handlers -> Labels]
        /\ \A g \in Handlers : pc'[g] = "repair" => pc[g] = "repair"
    BY DEF Types, HangRetries, HangRefuses, HangStreams
  <2> QED
    BY <1>11, <2>1, <2>2, <2>3, <2>4 DEF Types, HangProxy
<1>12. ASSUME NEW h \in Handlers, Done(h) PROVE Types'
  <2>1. NoFile \in Files
    BY FilesAssumption DEF NoFile
  <2> QED
    <3>1. 0 \in 0..RepairRetries
      BY RepairAssumption
    <3>2. attempt' \in [Handlers -> 0..RepairRetries] /\ file' \in [Handlers -> Files]
      BY <1>12, <2>1, <3>1 DEF Types, Done
    <3>3. /\ pc' \in [Handlers -> Labels]
          /\ \A g \in Handlers : pc'[g] = "repair" => pc[g] = "repair" /\ attempt'[g] = attempt[g]
      BY <1>12 DEF Types, Done
    <3>4. /\ status' \in [Handlers -> Statuses]
          /\ body' \in [Handlers -> {"empty", "media", "text"}]
          /\ badRange' \in [Handlers -> BOOLEAN] /\ left' \in [Handlers -> BOOLEAN]
      BY <1>12 DEF Types, Done
    <3> QED
      BY <1>12, <3>2, <3>3, <3>4 DEF Types, Done, fileVars
<1>13. ASSUME NEW f \in Files, ExpireNegative(f) \/ ExpireURL(f) PROVE Types'
  BY <1>13 DEF Types, ExpireNegative, ExpireURL, handlerVars, replyVars
<1>14. CASE UNCHANGED vars
  BY <1>14 DEF Types, vars, handlerVars, replyVars, fileVars
<1> QED
  BY <1>1, <1>2, <1>3, <1>4, <1>5, <1>6, <1>7, <1>8, <1>9, <1>10, <1>11, <1>12, <1>13, <1>14
  DEF Next, Handle

-----------------------------------------------------------------------------
(* Replies                                                                 *)

(* ReplyInv, one handler at a time.                                        *)
ReplyOK(label, s, b) ==
  /\ label \in Silent => s = "none" /\ b = "empty"
  /\ label \in Promised => s = "success" /\ b = "empty"
  /\ label = "streaming" => s = "success"
  /\ b # "empty" => b = "media" /\ s = "success"

(* A handler moves, and what it has answered suits the new label.          *)
LEMMA ReplyMoves ==
  ASSUME Types, ReplyInv, NEW h \in Handlers, NEW label, NEW s, NEW b,
         pc' = [pc EXCEPT ![h] = label], status' = [status EXCEPT ![h] = s],
         body' = [body EXCEPT ![h] = b], ReplyOK(label, s, b)
  PROVE  ReplyInv'
<1> SUFFICES ASSUME NEW g \in Handlers
             PROVE  ReplyOK(pc'[g], status'[g], body'[g])
  BY DEF ReplyInv, ReplyOK
<1>1. ReplyOK(pc[g], status[g], body[g])
  BY DEF ReplyInv, ReplyOK
<1>2. CASE g = h
  BY <1>2 DEF Types
<1>3. CASE g # h
  BY <1>1, <1>3 DEF Types
<1> QED
  BY <1>2, <1>3

(* The same, for a handler that goes on without a word.                    *)
LEMMA QuietMoves ==
  ASSUME Types, ReplyInv, NEW h \in Handlers, NEW label,
         Goto(h, label), UNCHANGED replyVars, ReplyOK(label, status[h], body[h])
  PROVE  ReplyInv'
<1>1. status' = [status EXCEPT ![h] = status[h]] /\ body' = [body EXCEPT ![h] = body[h]]
  BY DEF Types, replyVars
<1> QED
  BY <1>1, ReplyMoves DEF Goto

(* A handler that has answered nothing responds with a status line.        *)
LEMMA ResponseMoves ==
  ASSUME Types, ReplyInv, NEW h \in Handlers, NEW s, Respond(h, s), pc[h] \in Silent
  PROVE  ReplyInv'
<1>1. body[h] = "empty" /\ body' = [body EXCEPT ![h] = "empty"]
  BY DEF Types, ReplyInv, Respond
<1>2. ReplyOK("done", s, "empty")
  BY DEF ReplyOK, Silent, Promised
<1> QED
  BY <1>1, <1>2, ReplyMoves DEF Respond, Write, Goto

LEMMA RepliesKept == Types /\ ReplyInv /\ [Next]_vars => ReplyInv'
<1> SUFFICES ASSUME Types, ReplyInv, [Next]_vars PROVE ReplyInv'
  OBVIOUS
<1> DEFINE OK(h) == ReplyOK(pc[h], status[h], body[h])
<1>0. \A h \in Handlers : OK(h)
  BY DEF ReplyInv, ReplyOK
<1>1. ASSUME NEW h \in Handlers, Request(h) PROVE ReplyInv'
  <2>1. CASE Respond(h, "redirect")
    BY <1>1, <2>1, ResponseMoves DEF Request, Silent
  <2>2. CASE Goto(h, "resolve") /\ UNCHANGED replyVars
    BY <1>0, <1>1, <2>2, QuietMoves DEF Request, Silent, Promised, ReplyOK
  <2> QED
    BY <1>1, <2>1, <2>2 DEF Request
<1>2. ASSUME NEW h \in Handlers, Leave(h) PROVE ReplyInv'
  BY <1>2 DEF Leave, ReplyInv, replyVars
<1>3. ASSUME NEW h \in Handlers, GetsSlot(h) PROVE ReplyInv'
  BY <1>0, <1>3, QuietMoves DEF GetsSlot, Acquire, Silent, Promised, ReplyOK
<1>4. ASSUME NEW h \in Handlers, ResolveFails(h) PROVE ReplyInv'
  BY <1>4, ResponseMoves DEF ResolveFails, Silent
<1>5. ASSUME NEW h \in Handlers, ResolveCached(h) \/ ResolveFetch(h) \/ HangFetch(h)
      PROVE  ReplyInv'
  <2>1. UNCHANGED replyVars
    BY <1>5 DEF ResolveCached, ResolveFetch, HangFetch
  <2>2. PICK label : Goto(h, label) /\ ReplyOK(label, status[h], body[h])
    BY <1>0, <1>5 DEF ResolveCached, ResolveFetch, HangFetch, Silent, Promised, ReplyOK
  <2> QED
    BY <2>1, <2>2, QuietMoves
<1>6. ASSUME NEW h \in Handlers,
             \/ Store(h, "store", "range") \/ Store(h, "repair store", "request")
             \/ Store(h, "hang store", "hang acquire")
      PROVE  ReplyInv'
  BY <1>0, <1>6, QuietMoves DEF Store, Silent, Promised, ReplyOK
<1>7. ASSUME NEW h \in Handlers, ParseRange(h) \/ NewRequest(h) PROVE ReplyInv'
  <2>1. pc[h] \in Silent
    BY <1>7 DEF ParseRange, NewRequest, Silent
  <2>2. ASSUME NEW s, Respond(h, s) PROVE ReplyInv'
    BY <2>1, <2>2, ResponseMoves
  <2>3. ASSUME NEW label \in Silent \ {"done"}, Goto(h, label), UNCHANGED replyVars
        PROVE  ReplyInv'
    BY <1>0, <2>1, <2>3, QuietMoves DEF Silent, Promised, ReplyOK
  <2> QED
    BY <1>7, <2>2, <2>3 DEF ParseRange, NewRequest, Silent
<1>8. ASSUME NEW h \in Handlers, Proxy(h) PROVE ReplyInv'
  <2> PICK answer \in Answers :
        \/ ProxyFails(h, answer) \/ ProxyRepair(h, answer) \/ ProxyHangs(h, answer)
        \/ ProxyUnsatisfiable(h, answer) \/ ProxyStreams(h, answer)
    BY <1>8 DEF Proxy
  <2>1. pc[h] = "upstream" /\ pc[h] \in Silent
    BY <1>8 DEF Proxy, Silent
  <2>2. CASE ProxyFails(h, answer) \/ ProxyUnsatisfiable(h, answer)
    BY <2>1, <2>2, ResponseMoves DEF ProxyFails, ProxyUnsatisfiable
  <2>3. CASE ProxyRepair(h, answer) \/ ProxyHangs(h, answer)
    BY <1>0, <2>1, <2>3, QuietMoves DEF ProxyRepair, ProxyHangs, Silent, Promised, ReplyOK
  <2>4. CASE ProxyStreams(h, answer)
    <3>1. ReplyOK("streaming", "success", "media")
      BY DEF ReplyOK, Silent, Promised
    <3> QED
      BY <2>4, <3>1, ReplyMoves DEF ProxyStreams, Write, Goto
  <2> QED
    BY <2>2, <2>3, <2>4
<1>9. ASSUME NEW h \in Handlers, Repair(h) PROVE ReplyInv'
  <2>1. CASE Respond(h, "502")
    BY <1>9, <2>1, ResponseMoves DEF Repair, Silent
  <2>2. CASE Goto(h, "repair store") /\ UNCHANGED replyVars
    BY <1>0, <1>9, <2>2, QuietMoves DEF Repair, Silent, Promised, ReplyOK
  <2> QED
    BY <1>9, <2>1, <2>2 DEF Repair
<1>10. ASSUME NEW h \in Handlers, Copied(h) \/ Sleep(h) PROVE ReplyInv'
  <2>1. UNCHANGED replyVars
    BY <1>10 DEF Copied, Sleep
  <2>2. PICK label : Goto(h, label) /\ ReplyOK(label, status[h], body[h])
    BY <1>0, <1>10 DEF Copied, Sleep, Silent, Promised, ReplyOK
  <2> QED
    BY <2>1, <2>2, QuietMoves
<1>11. ASSUME NEW h \in Handlers, HangStarts(h) PROVE ReplyInv'
  <2>1. pc[h] = "hang" /\ pc[h] \in Silent /\ body[h] = "empty"
    BY <1>0, <1>11 DEF HangStarts, Silent, ReplyOK
  <2>2. CASE Respond(h, "416")
    BY <2>1, <2>2, ResponseMoves
  <2>3. CASE Write(h, "success") /\ Goto(h, "poll") /\ UNCHANGED body
    <3>1. body' = [body EXCEPT ![h] = "empty"]
      BY <2>1, <2>3 DEF Types
    <3>2. ReplyOK("poll", "success", "empty")
      BY DEF ReplyOK, Silent, Promised
    <3> QED
      BY <2>3, <3>1, <3>2, ReplyMoves DEF Write, Goto
  <2> QED
    BY <1>11, <2>2, <2>3 DEF HangStarts
<1>12. ASSUME NEW h \in Handlers, HangProxy(h) PROVE ReplyInv'
  <2> PICK answer \in Answers :
        HangRetries(h, answer) \/ HangRefuses(h, answer) \/ HangStreams(h, answer)
    BY <1>12 DEF HangProxy
  <2>1. status[h] = "success" /\ body[h] = "empty"
    BY <1>0, <1>12 DEF HangProxy, Promised, ReplyOK
  <2>2. CASE HangRetries(h, answer) \/ HangRefuses(h, answer)
    BY <2>1, <2>2, QuietMoves DEF HangRetries, HangRefuses, Silent, Promised, ReplyOK
  <2>3. CASE HangStreams(h, answer)
    <3>1. status' = [status EXCEPT ![h] = "success"]
      BY <2>1, <2>3 DEF HangStreams, Types
    <3>2. ReplyOK("streaming", "success", "media")
      BY DEF ReplyOK, Silent, Promised
    <3> QED
      BY <2>3, <3>1, <3>2, ReplyMoves DEF HangStreams, Goto
  <2> QED
    BY <2>2, <2>3
<1>13. ASSUME NEW h \in Handlers, Done(h) PROVE ReplyInv'
  <2>1. ReplyOK("idle", "none", "empty")
    BY DEF ReplyOK, Silent, Promised
  <2> QED
    BY <1>13, <2>1, ReplyMoves DEF Done, Goto
<1>14. ASSUME NEW f \in Files, ExpireNegative(f) \/ ExpireURL(f) PROVE ReplyInv'
  BY <1>14 DEF ExpireNegative, ExpireURL, ReplyInv, handlerVars, replyVars
<1>15. CASE UNCHANGED vars
  BY <1>15 DEF vars, ReplyInv, handlerVars, replyVars
<1> QED
  BY <1>1, <1>2, <1>3, <1>4, <1>5, <1>6, <1>7, <1>8, <1>9, <1>10, <1>11, <1>12,
     <1>13, <1>14, <1>15
  DEF Next, Handle

-----------------------------------------------------------------------------
(* Slots                                                                   *)

(* The handler takes a slot, gives its one back, or does neither.          *)
SlotMove(h) ==
  /\ OnlyMoves(h)
  /\ \/ pc[h] \notin Holding /\ pc'[h] \in Holding /\ slots' = slots - 1
     \/ pc[h] \in Holding /\ pc'[h] \notin Holding /\ slots' = slots + 1
     \/ (pc[h] \in Holding <=> pc'[h] \in Holding) /\ slots' = slots

LEMMA SlotMoveConserves ==
  ASSUME Types, SlotsConserved, NEW h \in Handlers, SlotMove(h)
  PROVE  SlotsConserved'
<1> DEFINE n == Cardinality(Holders)
<1> USE DEF SlotMove
<1>1. slots \in Nat /\ n \in Nat /\ slots + n = MaxConns
  BY HoldersFinite DEF Types, SlotsConserved, Holders
<1>2. SUFFICES slots' + n' = MaxConns
  BY DEF SlotsConserved, Holders
<1>3. CASE pc[h] \notin Holding /\ pc'[h] \in Holding /\ slots' = slots - 1
  <2>1. n' = n + 1
    BY <1>3, HolderComes
  <2> HIDE DEF n
  <2> QED
    BY <1>1, <1>3, <2>1
<1>4. CASE pc[h] \in Holding /\ pc'[h] \notin Holding /\ slots' = slots + 1
  <2>1. n' = n - 1
    BY <1>4, HolderGoes
  <2> HIDE DEF n
  <2> QED
    BY <1>1, <1>4, <2>1
<1>5. CASE (pc[h] \in Holding <=> pc'[h] \in Holding) /\ slots' = slots
  <2>1. Holders' = Holders
    BY <1>5, HolderStays
  <2> QED
    BY <1>1, <1>5, <2>1
<1> QED
  BY <1>3, <1>4, <1>5

LEMMA SlotsKept == Types /\ SlotsConserved /\ [Next]_vars => SlotsConserved'
<1> SUFFICES ASSUME Types, SlotsConserved, [Next]_vars PROVE SlotsConserved'
  OBVIOUS
<1> USE DEF Holding, SlotMove, OnlyMoves, Goto
<1>0. pc \in [Handlers -> Labels]
  BY DEF Types
<1>1. ASSUME NEW h \in Handlers, Request(h) \/ GetsSlot(h) \/ Done(h) PROVE SlotMove(h)
  BY <1>0, <1>1 DEF Request, Respond, GetsSlot, Acquire, Done
<1>2. ASSUME NEW h \in Handlers, ResolveCached(h) \/ ResolveFails(h) \/ ResolveFetch(h)
      PROVE  SlotMove(h)
  BY <1>0, <1>2 DEF ResolveCached, ResolveFails, ResolveFetch, Respond
<1>3. ASSUME NEW h \in Handlers,
             \/ Store(h, "store", "range") \/ Store(h, "repair store", "request")
             \/ Store(h, "hang store", "hang acquire")
      PROVE  SlotMove(h)
  BY <1>0, <1>3 DEF Store
<1>4. ASSUME NEW h \in Handlers, ParseRange(h) \/ NewRequest(h) \/ Repair(h) PROVE SlotMove(h)
  BY <1>0, <1>4 DEF ParseRange, NewRequest, Repair, Respond
<1>5. ASSUME NEW h \in Handlers, HangStarts(h) \/ HangFetch(h) \/ Sleep(h) PROVE SlotMove(h)
  BY <1>0, <1>5 DEF HangStarts, HangFetch, Sleep, Respond
<1>6. ASSUME NEW h \in Handlers, Copied(h) PROVE SlotMove(h)
  BY <1>0, <1>6 DEF Copied, Release
<1>7. ASSUME NEW h \in Handlers, Proxy(h) PROVE SlotMove(h)
  <2> PICK answer \in Answers :
        \/ ProxyFails(h, answer) \/ ProxyRepair(h, answer) \/ ProxyHangs(h, answer)
        \/ ProxyUnsatisfiable(h, answer) \/ ProxyStreams(h, answer)
    BY <1>7 DEF Proxy
  <2>1. pc[h] = "upstream"
    BY <1>7 DEF Proxy
  <2> QED
    BY <1>0, <2>1 DEF ProxyFails, ProxyRepair, ProxyHangs, ProxyUnsatisfiable, ProxyStreams,
                Respond, Release
<1>8. ASSUME NEW h \in Handlers, HangProxy(h) PROVE SlotMove(h)
  <2> PICK answer \in Answers :
        HangRetries(h, answer) \/ HangRefuses(h, answer) \/ HangStreams(h, answer)
    BY <1>8 DEF HangProxy
  <2>1. pc[h] = "hang upstream"
    BY <1>8 DEF HangProxy
  <2> QED
    BY <1>0, <2>1 DEF HangRetries, HangRefuses, HangStreams, Release
<1>9. ASSUME UNCHANGED <<slots, pc>> PROVE SlotsConserved'
  BY <1>9 DEF SlotsConserved
<1>10. ASSUME NEW h \in Handlers, Leave(h) PROVE SlotsConserved'
  BY <1>9, <1>10 DEF Leave
<1>11. ASSUME NEW f \in Files, ExpireNegative(f) \/ ExpireURL(f) PROVE SlotsConserved'
  BY <1>9, <1>11 DEF ExpireNegative, ExpireURL, handlerVars
<1>12. CASE UNCHANGED vars
  BY <1>9, <1>12 DEF vars, handlerVars
<1> HIDE DEF SlotMove, OnlyMoves, Goto, Holding
<1> QED
  BY <1>1, <1>2, <1>3, <1>4, <1>5, <1>6, <1>7, <1>8, <1>10, <1>11, <1>12, SlotMoveConserves
  DEF Next, Handle

-----------------------------------------------------------------------------
(* The theorems                                                            *)

(* The invariant all the others rest on: the types, what each label says   *)
(* of the response, and the count of the slots.                            *)
THEOREM Invariant == Spec => []Inv
<1>1. Init => Inv
  BY InitInv
<1>2. Inv /\ [Next]_vars => Inv'
  BY TypesKept, RepliesKept, SlotsKept DEF Inv
<1> QED
  BY <1>1, <1>2, PTL DEF Spec

LEMMA InvTypeOK == Inv => TypeOK
<1> SUFFICES ASSUME Inv PROVE TypeOK
  OBVIOUS
<1>1. slots \in 0..MaxConns
  <2> DEFINE n == Cardinality(Holders)
  <2>1. slots \in Nat /\ n \in Nat /\ slots + n = MaxConns
    BY HoldersFinite DEF Inv, Types, SlotsConserved, Holders
  <2> HIDE DEF n
  <2> QED
    BY <2>1, ConnsAssumption
<1> QED
  BY <1>1 DEF Inv, Types, TypeOK

(* Every variable keeps its type; in particular the semaphore never holds  *)
(* more than max_cdn_connections tokens nor is a token taken from it when  *)
(* it is empty, and the repair loop never exceeds its retries.             *)
THEOREM TypeCorrect == Spec => []TypeOK
<1>1. Spec => []Inv
  BY Invariant
<1> QED
  BY <1>1, InvTypeOK, PTL

(* No path out of streamFileContent or handleGetCDNHang loses a slot of    *)
(* the semaphore or gives one back twice.                                  *)
THEOREM SlotsAreConserved == Spec => []SlotsConserved
<1>1. Inv => SlotsConserved
  BY DEF Inv
<1>2. Spec => []Inv
  BY Invariant
<1> QED
  BY <1>1, <1>2, PTL

(* What is copied to a client is the file's data, never a text body of the *)
(* CDN, and it follows a success status.                                   *)
THEOREM OnlyMediaCopied == Spec => []OnlyMedia
<1>1. Inv => OnlyMedia
  BY DEF Inv, ReplyInv, OnlyMedia
<1>2. Spec => []Inv
  BY Invariant
<1> QED
  BY <1>1, <1>2, PTL

(* A step of the handler h leaves its status alone, is its first, or ends  *)
(* the handler.                                                            *)
StatusKept(h) == status[h] # "none" => status'[h] = status[h] \/ pc'[h] = "idle"

LEMMA StatusesKept == Inv /\ [Next]_vars => \A g \in Handlers : StatusKept(g)
<1> SUFFICES ASSUME Inv, [Next]_vars, NEW g \in Handlers PROVE StatusKept(g)
  OBVIOUS
<1>1. /\ status \in [Handlers -> Statuses] /\ pc \in [Handlers -> Labels]
      /\ \A h \in Handlers : pc[h] \in Silent => status[h] = "none"
  BY DEF Inv, Types, ReplyInv
<1> USE <1>1 DEF StatusKept, Write, Goto, Respond, Silent
<1>2. ASSUME NEW h \in Handlers,
             \/ Request(h) \/ Leave(h) \/ GetsSlot(h) \/ ResolveCached(h) \/ ResolveFails(h)
             \/ ResolveFetch(h) \/ HangFetch(h) \/ ParseRange(h) \/ NewRequest(h)
      PROVE  StatusKept(g)
  BY <1>2
  DEF Request, Leave, GetsSlot, Acquire, ResolveCached, ResolveFails, ResolveFetch,
      HangFetch, ParseRange, NewRequest, replyVars
<1>3. ASSUME NEW h \in Handlers,
             \/ Store(h, "store", "range") \/ Store(h, "repair store", "request")
             \/ Store(h, "hang store", "hang acquire") \/ Copied(h) \/ Sleep(h)
      PROVE  StatusKept(g)
  BY <1>3 DEF Store, Copied, Sleep, replyVars
<1>4. ASSUME NEW h \in Handlers, Repair(h) \/ HangStarts(h) PROVE StatusKept(g)
  BY <1>4 DEF Repair, HangStarts, replyVars
<1>5. ASSUME NEW h \in Handlers, Proxy(h) PROVE StatusKept(g)
  <2> PICK answer \in Answers :
        \/ ProxyFails(h, answer) \/ ProxyRepair(h, answer) \/ ProxyHangs(h, answer)
        \/ ProxyUnsatisfiable(h, answer) \/ ProxyStreams(h, answer)
    BY <1>5 DEF Proxy
  <2>1. pc[h] = "upstream"
    BY <1>5 DEF Proxy
  <2> QED
    BY <2>1 DEF ProxyFails, ProxyRepair, ProxyHangs, ProxyUnsatisfiable, ProxyStreams, replyVars
<1>6. ASSUME NEW h \in Handlers, HangProxy(h) PROVE StatusKept(g)
  BY <1>6 DEF HangProxy, HangRetries, HangRefuses, HangStreams, replyVars
<1>7. ASSUME NEW h \in Handlers, Done(h) PROVE StatusKept(g)
  BY <1>7 DEF Done
<1>8. ASSUME NEW f \in Files, ExpireNegative(f) \/ ExpireURL(f) PROVE StatusKept(g)
  BY <1>8 DEF ExpireNegative, ExpireURL, replyVars
<1>9. CASE UNCHANGED vars
  BY <1>9 DEF vars, replyVars
<1> QED
  BY <1>2, <1>3, <1>4, <1>5, <1>6, <1>7, <1>8, <1>9 DEF Next, Handle

(* A response gets one status line: after the promise of the hang mode, or *)
(* a success, no later failure writes another one.                         *)
THEOREM OneStatusWritten == Spec => OneStatus
<1>1. Spec => []Inv
  BY Invariant
<1>2. Inv /\ [Next]_vars
      => [\A h \in Handlers :
            status[h] # "none" => status'[h] = status[h] \/ pc'[h] = "idle"]_vars
  BY StatusesKept DEF StatusKept
<1> QED
  BY <1>1, <1>2, PTL DEF Spec, OneStatus

=============================================================================
