------------------------------ MODULE PartsProofs ------------------------------
(***************************************************************************)
(* Proofs about the small components, for all values of their constants:   *)
(* of each component's own specification first, then of Parts.             *)
(***************************************************************************)
EXTENDS Parts, SequenceTheorems, FiniteSetTheorems, WellFoundedInduction, TLAPS

-----------------------------------------------------------------------------
(* The log level                                                           *)

LabelsOfLevel == {"idle", "read", "open", "write", "rename", "remove", "set", "name"}

(* Types; whoever writes or renames has a file open.                       *)
LevelType ==
  /\ config \in Level!Inodes /\ tmp \in (Level!Inodes \cup {0}) \ {config}
  /\ data \in [Level!Inodes -> Levels \cup {Level!Empty, Level!Unset}]
  /\ levelVar \in Levels /\ shown \in Levels /\ up \in BOOLEAN
  /\ levelPc \in [Requests -> LabelsOfLevel]
  /\ want \in [Requests -> Levels] /\ fd \in [Requests -> Level!Inodes \cup {0}]
  /\ failures \in 0..MaxFailures /\ crashes \in 0..MaxCrashes
  /\ overlapped \in BOOLEAN
  /\ \A r \in Requests : levelPc[r] \in {"write", "rename"} => fd[r] # 0
  /\ ~up => \A r \in Requests : levelPc[r] = "idle"

(* As long as no operation failed and the process did not die, a file with *)
(* a name and no content is still being written.                           *)
Filling(n) == \E r \in Requests : levelPc[r] = "write" /\ fd[r] = n
FillingInv ==
  failures + crashes = 0 =>
    \A n \in {config, tmp} \ {0} : data[n] = Level!Empty => Filling(n)

(* One request at a time: who has written the temporary file finds it      *)
(* under its name, and the levels differ only between the rename and the   *)
(* last of the two assignments.                                            *)
AloneInv ==
  ~overlapped =>
    /\ \A q, r \in Requests : q # r => levelPc[q] = "idle" \/ levelPc[r] = "idle"
    /\ data[config] # Level!Empty
    /\ \A r \in Requests :
         /\ levelPc[r] \in {"write", "rename"} => fd[r] = tmp
         /\ levelPc[r] = "rename" => data[tmp] = want[r]
         /\ levelPc[r] \in {"set", "name"} => data[config] = want[r]
         /\ levelPc[r] = "name" => levelVar = want[r]
    /\ up /\ (\A r \in Requests : levelPc[r] \notin {"set", "name"}) =>
         levelVar = shown /\ levelVar = Level!LevelIn(data[config])

LevelInv == LevelType /\ FillingInv /\ AloneInv

(* An instance brings its own copy of what its module extends.             *)
LEMMA LevelCardinality == \A S : Level!Cardinality(S) = Cardinality(S)
  BY Zenon DEF Level!Cardinality, Cardinality

LEMMA LevelFacts ==
  /\ Cardinality(Requests) \in Nat
  /\ Level!Inodes = 1..Cardinality(Requests) + 2 /\ 0 \notin Level!Inodes
  /\ 1 \in Level!Inodes
  /\ Level!Empty \notin Levels /\ Level!Unset \notin Levels /\ Level!Empty # Level!Unset
<1>1. Cardinality(Requests) \in Nat
  BY FS_CardinalityType, LevelAssumption
<1>2. Level!Inodes = 1..Cardinality(Requests) + 2
  BY LevelCardinality, Zenon DEF Level!Inodes
<1>3. 1 \in Level!Inodes /\ 0 \notin Level!Inodes
  BY <1>1, <1>2
<1> QED
  BY <1>1, <1>2, <1>3, LevelAssumption DEF Level!Empty, Level!Unset

(* The names and the open files are fewer than the inodes.                 *)
LEMMA FreeInodeExists ==
  ASSUME LevelType, tmp = 0
  PROVE  /\ Level!FreeInode \in Level!Inodes /\ Level!FreeInode # config
         /\ Level!FreeInode # 0
<1> DEFINE Open == {fd[r] : r \in Requests}
           Used == (Open \cup {tmp}) \cup {config}
<1>1. /\ Cardinality(Requests) \in Nat /\ IsFiniteSet(Requests)
      /\ Level!Inodes = 1..Cardinality(Requests) + 2
  BY LevelFacts, LevelAssumption
<1>2. IsFiniteSet(Open) /\ Cardinality(Open) <= Cardinality(Requests) /\ Cardinality(Open) \in Nat
  <2>1. IsFiniteSet(Open) /\ Cardinality(Open) <= Cardinality(Requests)
    <3>1. fd \in [Requests -> Open]
      BY DEF LevelType
    <3>2. \A n \in Open : \E r \in Requests : fd[r] = n
      OBVIOUS
    <3> HIDE DEF Open
    <3>3. fd \in Surjection(Requests, Open)
      BY <3>1, <3>2 DEF Surjection
    <3> QED
      BY <1>1, <3>3, FS_Surjection
  <2> QED
    BY <2>1, FS_CardinalityType
<1> HIDE DEF Open
<1>3. /\ IsFiniteSet(Used) /\ Cardinality(Used) \in Nat
      /\ Cardinality(Used) <= Cardinality(Requests) + 2
  <2>1. /\ IsFiniteSet(Open \cup {tmp})
        /\ Cardinality(Open \cup {tmp}) \in {Cardinality(Open), Cardinality(Open) + 1}
    BY <1>2, FS_AddElement
  <2>2. /\ IsFiniteSet(Used)
        /\ Cardinality(Used) \in {Cardinality(Open \cup {tmp}), Cardinality(Open \cup {tmp}) + 1}
    BY <2>1, FS_AddElement
  <2> DEFINE a == Cardinality(Open)
             b == Cardinality(Open \cup {tmp})
             d == Cardinality(Used)
             k == Cardinality(Requests)
  <2>3. a \in Nat /\ k \in Nat /\ a <= k /\ b \in {a, a + 1} /\ d \in {b, b + 1}
    BY <1>1, <1>2, <2>1, <2>2
  <2> HIDE DEF a, b, d, k
  <2>4. d \in Nat /\ d <= k + 2
    BY <2>3
  <2> QED
    BY <2>2, <2>4 DEF d, k
<1>4. \E n \in Level!Inodes : n \notin Used
  <2> SUFFICES ASSUME Level!Inodes \subseteq Used PROVE FALSE
    OBVIOUS
  <2> DEFINE All == 0..Cardinality(Requests) + 2
  <2>1. All \subseteq Used
    BY <1>1
  <2>2. IsFiniteSet(All) /\ Cardinality(All) = Cardinality(Requests) + 3
    <3>1. 0 \in Int /\ Cardinality(Requests) + 2 \in Int
      BY <1>1
    <3>2. Cardinality(All) = IF 0 > Cardinality(Requests) + 2 THEN 0
                             ELSE Cardinality(Requests) + 2 - 0 + 1
      BY <3>1, FS_Interval
    <3> QED
      BY <1>1, <3>1, <3>2, FS_Interval
  <2>3. Cardinality(All) <= Cardinality(Used)
    <3> HIDE DEF All, Used
    <3>1. All \in SUBSET Used
      BY <2>1
    <3> QED
      BY <1>3, <3>1, FS_Subset
  <2> QED
    BY <1>1, <1>3, <2>2, <2>3
<1>5. \E n \in Level!Inodes : n # config /\ n # tmp /\ \A r \in Requests : fd[r] # n
  BY <1>4 DEF Open
<1>6. /\ Level!FreeInode \in Level!Inodes /\ Level!FreeInode # config
  BY <1>5 DEF Level!FreeInode
<1> QED
  BY <1>6, LevelFacts

(* A request opens the temporary file, which is not the configuration.     *)
LEMMA OpensAnother ==
  ASSUME LevelType, NEW r \in Requests, Level!Open(r)
  PROVE  \E n \in Level!Inodes \ {config} : Level!Opened(r, n) /\ tmp' = n
<1> DEFINE m == IF tmp = 0 THEN Level!FreeInode ELSE tmp
<1>1. m \in Level!Inodes \ {config}
  BY FreeInodeExists DEF LevelType
<1>2. Level!Opened(r, m) /\ tmp' = m
  BY DEF Level!Open
<1> HIDE DEF m
<1> QED
  BY <1>1, <1>2

LEMMA LevelInitially ==
  ASSUME Level!Init
  PROVE  LevelInv
<1> USE LevelFacts, LevelAssumption DEF Level!Init
<1>1. LevelType
  <2>1. \A r \in Requests : levelPc[r] = "idle"
    OBVIOUS
  <2>2. data \in [Level!Inodes -> Levels \cup {Level!Empty, Level!Unset}]
    OBVIOUS
  <2>3. config \in Level!Inodes /\ tmp \in (Level!Inodes \cup {0}) \ {config}
    OBVIOUS
  <2>4. levelVar \in Levels /\ shown \in Levels /\ up \in BOOLEAN /\ overlapped \in BOOLEAN
    OBVIOUS
  <2>5. failures \in 0..MaxFailures /\ crashes \in 0..MaxCrashes
    OBVIOUS
  <2>6. /\ levelPc \in [Requests -> LabelsOfLevel]
        /\ want \in [Requests -> Levels] /\ fd \in [Requests -> Level!Inodes \cup {0}]
    BY DEF LabelsOfLevel
  <2> QED
    BY <2>1, <2>2, <2>3, <2>4, <2>5, <2>6 DEF LevelType
<1>2. data[config] # Level!Empty
  OBVIOUS
<1>3. FillingInv
  BY <1>2 DEF FillingInv
<1>4. AloneInv
  BY <1>2 DEF AloneInv, Level!LevelIn
<1> QED
  BY <1>1, <1>3, <1>4 DEF LevelInv

LEMMA LevelTypeStep ==
  ASSUME LevelType, Level!Next
  PROVE  LevelType'
<1> USE LevelFacts, LevelAssumption DEF LevelType, LabelsOfLevel, Level!Goto, Level!Reply,
      Level!files, Level!levels, Level!requests, Level!budget
<1>1. overlapped' \in BOOLEAN
  BY DEF Level!Next
<1>2. CASE Level!Crash
  <2> USE <1>2 DEF Level!Crash
  <2>1. crashes' \in 0..MaxCrashes
    <3>1. crashes \in Nat /\ MaxCrashes \in Nat /\ crashes < MaxCrashes
      OBVIOUS
    <3>2. crashes + 1 \in 0..MaxCrashes
      BY ONLY <3>1
    <3>3. crashes' = crashes + 1
      OBVIOUS
    <3> QED
      BY ONLY <3>2, <3>3
  <2>2. /\ levelPc' \in [Requests -> LabelsOfLevel]
        /\ want' \in [Requests -> Levels] /\ fd' \in [Requests -> Level!Inodes \cup {0}]
        /\ \A r \in Requests : levelPc'[r] = "idle"
    OBVIOUS
  <2> QED
    BY <1>1, <2>1, <2>2
<1>3. CASE Level!Load
  BY <1>1, <1>3 DEF Level!Load, Level!LevelIn
<1>4. ASSUME NEW r \in Requests, Level!Post(r)
      PROVE  LevelType'
  BY <1>1, <1>4 DEF Level!Post
<1>5. ASSUME NEW r \in Requests, Level!Handle(r)
      PROVE  LevelType'
  <2>1. CASE Level!ReadSame(r)
    BY <1>1, <2>1 DEF Level!ReadSame
  <2>2. CASE Level!ReadOther(r)
    BY <1>1, <2>2 DEF Level!ReadOther
  <2>3. CASE Level!ReadEmpty(r)
    BY <1>1, <2>3 DEF Level!ReadEmpty
  <2>4. CASE Level!Open(r)
    <3>1. PICK n \in Level!Inodes \ {config} : Level!Opened(r, n) /\ tmp' = n
      BY <2>4, OpensAnother
    <3> QED
      BY <1>1, <3>1 DEF Level!Opened
  <2>5. CASE Level!Write(r)
    BY <1>1, <2>5 DEF Level!Write
  <2>6. CASE Level!FileFails(r)
    BY <1>1, <2>6 DEF Level!FileFails, Level!Fail
  <2>7. CASE Level!Rename(r)
    BY <1>1, <2>7 DEF Level!Rename
  <2>8. CASE Level!RenameFails(r)
    BY <1>1, <2>8 DEF Level!RenameFails, Level!Fail
  <2>9. CASE Level!RemoveTmp(r)
    BY <1>1, <2>9 DEF Level!RemoveTmp
  <2>10. CASE Level!SetLevel(r)
    BY <1>1, <2>10 DEF Level!SetLevel
  <2>11. CASE Level!SetName(r)
    BY <1>1, <2>11 DEF Level!SetName
  <2> QED
    BY <1>5, <2>1, <2>2, <2>3, <2>4, <2>5, <2>6, <2>7, <2>8, <2>9, <2>10, <2>11 DEF Level!Handle
<1> QED
  BY <1>2, <1>3, <1>4, <1>5 DEF Level!Next

LEMMA FillingStep ==
  ASSUME LevelType, FillingInv, Level!Next
  PROVE  FillingInv'
<1> SUFFICES ASSUME (failures + crashes = 0)',
                    NEW n \in {config', tmp'} \ {0}, data'[n] = Level!Empty
             PROVE  Filling(n)'
  BY DEF FillingInv
<1> USE LevelFacts, LevelAssumption DEF LevelType, FillingInv, Filling, Level!Goto, Level!Reply,
      Level!files, Level!levels, Level!requests, Level!budget
<1>1. failures \in Nat /\ crashes \in Nat
  OBVIOUS
<1>2. CASE Level!Crash
  BY <1>1, <1>2 DEF Level!Crash
<1>3. CASE Level!Load
  BY <1>3 DEF Level!Load
<1>4. ASSUME NEW r \in Requests, Level!Post(r)
      PROVE  Filling(n)'
  BY <1>4 DEF Level!Post
<1>5. ASSUME NEW r \in Requests, Level!Handle(r)
      PROVE  Filling(n)'
  <2>1. CASE Level!ReadSame(r)
    BY <2>1 DEF Level!ReadSame
  <2>2. CASE Level!ReadOther(r)
    BY <2>2 DEF Level!ReadOther
  <2>3. CASE Level!ReadEmpty(r)
    BY <2>3 DEF Level!ReadEmpty
  <2>4. CASE Level!Open(r)
    <3>1. PICK m \in Level!Inodes \ {config} : Level!Opened(r, m) /\ tmp' = m
      BY <2>4, OpensAnother
    <3>2. CASE n = m
      BY <3>1, <3>2 DEF Level!Opened
    <3>3. CASE n = config /\ n # m
      BY <3>1, <3>3 DEF Level!Opened
    <3> QED
      BY <3>1, <3>2, <3>3 DEF Level!Opened
  <2>5. CASE Level!Write(r)
    BY <2>5 DEF Level!Write
  <2>6. CASE Level!FileFails(r)
    BY <1>1, <2>6 DEF Level!FileFails, Level!Fail
  <2>7. CASE Level!Rename(r)
    BY <2>7 DEF Level!Rename
  <2>8. CASE Level!RenameFails(r)
    BY <2>8 DEF Level!RenameFails, Level!Fail
  <2>9. CASE Level!RemoveTmp(r)
    BY <2>9 DEF Level!RemoveTmp
  <2>10. CASE Level!SetLevel(r)
    BY <2>10 DEF Level!SetLevel
  <2>11. CASE Level!SetName(r)
    BY <2>11 DEF Level!SetName
  <2> QED
    BY <1>5, <2>1, <2>2, <2>3, <2>4, <2>5, <2>6, <2>7, <2>8, <2>9, <2>10, <2>11 DEF Level!Handle
<1> QED
  BY <1>2, <1>3, <1>4, <1>5 DEF Level!Next

LEMMA AloneStep ==
  ASSUME LevelType, AloneInv, Level!Next
  PROVE  AloneInv'
<1> SUFFICES ASSUME ~overlapped'
             PROVE  AloneInv'
  BY DEF AloneInv
<1> USE LevelFacts, LevelAssumption DEF LevelType, Level!Goto, Level!Reply, Level!LevelIn,
      Level!files, Level!levels, Level!requests, Level!budget
<1>1. ~overlapped /\ \A q, r \in Requests : q # r => levelPc'[q] = "idle" \/ levelPc'[r] = "idle"
  BY DEF Level!Next
<1> USE <1>1 DEF AloneInv
<1>2. CASE Level!Crash
  BY <1>2 DEF Level!Crash
<1>3. CASE Level!Load
  BY <1>3 DEF Level!Load
<1>4. ASSUME NEW r \in Requests, Level!Post(r)
      PROVE  AloneInv'
  BY <1>4 DEF Level!Post
<1>5. ASSUME NEW r \in Requests, Level!Handle(r)
      PROVE  AloneInv'
  <2>1. CASE Level!ReadSame(r)
    BY <2>1 DEF Level!ReadSame
  <2>2. CASE Level!ReadOther(r)
    BY <2>2 DEF Level!ReadOther
  <2>3. CASE Level!ReadEmpty(r)
    BY <2>3 DEF Level!ReadEmpty
  <2>4. CASE Level!Open(r)
    <3>1. PICK m \in Level!Inodes \ {config} : Level!Opened(r, m) /\ tmp' = m
      BY <2>4, OpensAnother
    <3> QED
      BY <3>1 DEF Level!Opened
  <2>5. CASE Level!Write(r)
    BY <2>5 DEF Level!Write
  <2>6. CASE Level!FileFails(r)
    BY <2>6 DEF Level!FileFails, Level!Fail
  <2>7. CASE Level!Rename(r)
    BY <2>7 DEF Level!Rename
  <2>8. CASE Level!RenameFails(r)
    <3>1. /\ levelPc[r] = "rename" /\ levelPc' = [levelPc EXCEPT ![r] = "remove"]
          /\ UNCHANGED <<config, tmp, data, levelVar, shown, up, want, fd>>
      BY <2>8 DEF Level!RenameFails
    <3>2. levelPc'[r] = "remove" /\ \A q \in Requests \ {r} : levelPc'[q] = levelPc[q]
      BY <3>1
    <3> QED
      BY <3>1, <3>2
  <2>9. CASE Level!RemoveTmp(r)
    BY <2>9 DEF Level!RemoveTmp
  <2>10. CASE Level!SetLevel(r)
    BY <2>10 DEF Level!SetLevel
  <2>11. CASE Level!SetName(r)
    BY <2>11 DEF Level!SetName
  <2> QED
    BY <1>5, <2>1, <2>2, <2>3, <2>4, <2>5, <2>6, <2>7, <2>8, <2>9, <2>10, <2>11 DEF Level!Handle
<1> QED
  BY <1>2, <1>3, <1>4, <1>5 DEF Level!Next

LEMMA LevelInvAlways == Level!Spec => []LevelInv
<1>1. Level!Init => LevelInv
  BY LevelInitially
<1>2. LevelInv /\ [Level!Next]_(Level!vars) => LevelInv'
  <2> SUFFICES ASSUME LevelInv, [Level!Next]_(Level!vars)
               PROVE  LevelInv'
    OBVIOUS
  <2>1. CASE Level!Next
    BY <2>1, LevelTypeStep, FillingStep, AloneStep DEF LevelInv
  <2>2. CASE UNCHANGED Level!vars
    BY <2>2 DEF LevelInv, LevelType, FillingInv, Filling, AloneInv, Level!vars, Level!files,
      Level!levels, Level!requests, Level!budget
  <2> QED
    BY <2>1, <2>2
<1> QED
  BY <1>1, <1>2, PTL DEF Level!Spec

(* A kept configuration file is what the program starts from and what its  *)
(* filter and its page show, after requests one at a time, whichever of    *)
(* them fail and whenever it dies; requests at once leave a whole file in  *)
(* the end too, as long as no file operation fails and nothing dies        *)
(* (config.go:487-508, actions.go:94-99).                                  *)
THEOREM LevelIsPersisted == Level!Spec => []Level!LevelPersisted
<1>1. LevelInv => Level!LevelPersisted
  <2> SUFFICES ASSUME LevelInv PROVE Level!LevelPersisted
    OBVIOUS
  <2> USE DEF LevelInv, Level!Settled, Level!Whole
  <2>1. ~overlapped => /\ Level!Whole
                       /\ Level!Settled => levelVar = shown /\ levelVar = Level!LevelIn(data[config])
    BY DEF AloneInv
  <2>2. Level!Settled /\ failures + crashes = 0 => Level!Whole
    BY LevelFacts DEF FillingInv, Filling, LevelType
  <2> QED
    BY <2>1, <2>2 DEF Level!LevelPersisted
<1> QED
  BY <1>1, LevelInvAlways, PTL

(* Nothing leaves its type, whatever fails: in particular the temporary    *)
(* file is never the configuration file, on any schedule of requests and   *)
(* crashes (config.go:487-508).                                            *)
THEOREM LevelHasItsType == Level!Spec => []Level!TypeOK
<1>1. LevelInv => Level!TypeOK
  BY DEF LevelInv, LevelType, LabelsOfLevel, Level!TypeOK
<1> QED
  BY <1>1, LevelInvAlways, PTL

-----------------------------------------------------------------------------
(* Byte ranges                                                             *)

LEMMA RangesCardinality == \A S : Ranges!Cardinality(S) = Cardinality(S)
  BY Zenon DEF Ranges!Cardinality, Cardinality

(* The bytes of an interval: how many, and the first of them.              *)
LEMMA BytesOf ==
  ASSUME NEW a \in Int, NEW b \in Int, a <= b + 1
  PROVE  /\ Ranges!Cardinality(a..b) = b - a + 1
         /\ a <= b => Ranges!Min(a..b) = a
<1>1. Cardinality(a..b) = b - a + 1
  BY FS_Interval
<1>2. ASSUME a <= b
      PROVE  Ranges!Min(a..b) = a
  <2>1. a \in a..b /\ \A y \in a..b : a <= y
    BY <1>2
  <2>2. Ranges!Min(a..b) \in a..b /\ \A y \in a..b : Ranges!Min(a..b) <= y
    BY <2>1 DEF Ranges!Min
  <2> QED
    BY <2>1, <2>2
<1> QED
  BY <1>1, <1>2, RangesCardinality

(* The CDN has the file whose size the store knows: it refuses no range    *)
(* that parses, and what is left of its answer after the cut is what was   *)
(* asked.                                                                  *)
Received(body, n) == IF body.bytes = {} THEN {} ELSE Ranges!Cut(body.bytes, n)

LEMMA CutWhole ==
  ASSUME NEW a \in Int, NEW b \in Int, a <= b
  PROVE  /\ Ranges!Cut(a..b, b - a + 1) = a..b
         /\ Ranges!Cut(a..b, 0) = {}
<1>1. Ranges!Min(a..b) = a
  BY BytesOf
<1> QED
  BY <1>1 DEF Ranges!Cut

(* A range inside the file, and the two that end before they start: of the *)
(* empty file, and the suffix of nothing.                                  *)
LEMMA RangeInside ==
  ASSUME NEW n \in Nat, NEW a \in 0..n, NEW b \in 0..n - 1, a <= b
  PROVE  LET r == Ranges!Bounds(a, b)
             body == Ranges!CDN(r, n) IN
         /\ body.status = 206 /\ Ranges!Length(r) = Ranges!Cardinality(a..b)
         /\ Received(body, Ranges!Length(r)) = a..b
<1> DEFINE r == Ranges!Bounds(a, b)
           body == Ranges!CDN(r, n)
<1>1. r.start = a /\ r.end = b /\ Ranges!Length(r) = b - a + 1
  BY DEF Ranges!Bounds, Ranges!Length
<1>2. {i \in a..b : i < n} = a..b
  OBVIOUS
<1>3. body.status = 206 /\ body.bytes = a..b
  <2>1. ~(r.start > r.end \/ r.start < 0) /\ ~(r.start >= n)
    BY <1>1
  <2>2. body = [status |-> 206, bytes |-> {i \in a..b : i < n}]
    BY <1>1, <2>1 DEF Ranges!CDN
  <2> HIDE DEF body
  <2> QED
    BY <1>2, <2>2
<1>4. a..b # {}
  OBVIOUS
<1>5. Ranges!Cut(a..b, b - a + 1) = a..b /\ Ranges!Cardinality(a..b) = b - a + 1
  BY CutWhole, BytesOf
<1>6. Received(body, Ranges!Length(r)) = a..b
  BY <1>1, <1>3, <1>4, <1>5 DEF Received
<1>7. Ranges!Length(r) = Ranges!Cardinality(a..b)
  BY <1>1, <1>5
<1> QED
  BY <1>3, <1>6, <1>7

LEMMA RangeOfNothing ==
  ASSUME NEW n \in Nat
  PROVE  LET r == Ranges!Bounds(n, n - 1)
             body == Ranges!CDN(r, n) IN
         /\ body.status = 200 /\ Ranges!Length(r) = Ranges!Cardinality({})
         /\ Received(body, Ranges!Length(r)) = {}
<1> DEFINE r == Ranges!Bounds(n, n - 1)
           body == Ranges!CDN(r, n)
<1>1. r.start = n /\ r.end = n - 1 /\ Ranges!Length(r) = 0
  BY DEF Ranges!Bounds, Ranges!Length
<1>2. body.status = 200 /\ body.bytes = 0..n - 1
  BY <1>1 DEF Ranges!CDN, Ranges!WholeFile
<1>3. Ranges!Cardinality({}) = 0
  BY FS_EmptySet, RangesCardinality
<1>4. Received(body, 0) = {}
  <2>1. CASE n = 0
    BY <1>2, <2>1 DEF Received
  <2>2. CASE n > 0
    <3>1. Ranges!Cut(0..n - 1, 0) = {}
      BY <2>2, CutWhole
    <3> QED
      BY <1>2, <3>1, <2>2 DEF Received
  <2> QED
    BY <2>1, <2>2
<1> HIDE DEF r, body
<1> QED
  BY <1>1, <1>2, <1>3, <1>4 DEF r, body

LEMMA ServedAsAsked ==
  ASSUME MaxSize \in Nat, NEW h \in Ranges!Headers, NEW n \in Nat, Ranges!ParseRange(h, n).ok
  PROVE  LET r == Ranges!ParseRange(h, n)
             body == Ranges!CDN(r, n) IN
         /\ body.status # 416 /\ Ranges!Length(r) = Ranges!Cardinality(Ranges!Asked(h, n))
         /\ Received(body, Ranges!Length(r)) = Ranges!Asked(h, n)
<1> DEFINE Right(r, asked) ==
      LET body == Ranges!CDN(r, n) IN
      /\ body.status # 416 /\ Ranges!Length(r) = Ranges!Cardinality(asked)
      /\ Received(body, Ranges!Length(r)) = asked
<1>1. \A a \in 0..n, b \in 0..n - 1 : a <= b => Right(Ranges!Bounds(a, b), a..b)
  BY RangeInside
<1>2. Right(Ranges!Bounds(n, n - 1), {})
  BY RangeOfNothing
<1> HIDE DEF Right
<1>3. Right(Ranges!Bounds(0, n - 1), 0..n - 1)
  <2>1. CASE n = 0
    <3>1. 0..n - 1 = {}
      BY <2>1
    <3> QED
      BY <1>2, <2>1, <3>1
  <2>2. CASE n > 0
    BY <1>1, <2>2
  <2> QED
    BY <2>1, <2>2
<1>4. Right(Ranges!ParseRange(h, n), Ranges!Asked(h, n))
  <2>1. CASE h = Ranges!NoRange
    BY <2>1, <1>3 DEF Ranges!NoRange, Ranges!ParseRange, Ranges!Asked
  <2>2. ASSUME NEW a \in Ranges!Lengths, h = Ranges!From(a)
        PROVE  Right(Ranges!ParseRange(h, n), Ranges!Asked(h, n))
    <3>1. a \in Nat /\ Ranges!ParseRange(h, n) = Ranges!Within(a, n - 1, n)
          /\ Ranges!Asked(h, n) = a..n - 1
      BY <2>2 DEF Ranges!From, Ranges!ParseRange, Ranges!Asked, Ranges!Lengths
    <3>2. a <= n - 1 /\ Ranges!Within(a, n - 1, n) = Ranges!Bounds(a, n - 1)
      BY <3>1 DEF Ranges!Within, Ranges!Refused
    <3>3. a \in 0..n /\ n - 1 \in 0..n - 1
      BY <3>1, <3>2
    <3> QED
      BY <1>1, <3>1, <3>2, <3>3
  <2>3. ASSUME NEW k \in Ranges!Lengths, h = Ranges!Suffix(k)
        PROVE  Right(Ranges!ParseRange(h, n), Ranges!Asked(h, n))
    <3>1. k \in Nat /\ Ranges!ParseRange(h, n) = Ranges!LastOnes(k, n)
          /\ Ranges!Asked(h, n) = {i \in 0..n - 1 : i >= n - k}
      BY <2>3 DEF Ranges!Suffix, Ranges!ParseRange, Ranges!Asked, Ranges!Lengths
    <3>2. CASE k >= n
      <4>1. {i \in 0..n - 1 : i >= n - k} = 0..n - 1
        BY <3>1, <3>2
      <4>2. Ranges!LastOnes(k, n) = Ranges!Bounds(0, n - 1)
        BY <3>2 DEF Ranges!LastOnes
      <4> QED
        BY <1>3, <3>1, <4>1, <4>2
    <3>3. CASE k < n
      <4>1. {i \in 0..n - 1 : i >= n - k} = n - k..n - 1
        BY <3>1, <3>3
      <4>2. Ranges!LastOnes(k, n) = Ranges!Bounds(n - k, n - 1)
        BY <3>1, <3>3 DEF Ranges!LastOnes
      <4>3. CASE k = 0
        <5>1. n - k = n /\ n - k..n - 1 = {}
          BY <4>3
        <5> QED
          BY <1>2, <3>1, <4>1, <4>2, <5>1
      <4>4. CASE k > 0
        <5>1. n - k \in 0..n /\ n - 1 \in 0..n - 1 /\ n - k <= n - 1
          BY <3>1, <3>3, <4>4
        <5> QED
          BY <1>1, <3>1, <4>1, <4>2, <5>1
      <4> QED
        BY <3>1, <4>3, <4>4
    <3> QED
      BY <3>1, <3>2, <3>3
  <2>4. ASSUME NEW a \in Ranges!Lengths, NEW b \in Ranges!Lengths, h = Ranges!Span(a, b)
        PROVE  Right(Ranges!ParseRange(h, n), Ranges!Asked(h, n))
    <3>1. a \in Nat /\ b \in Nat /\ Ranges!ParseRange(h, n) = Ranges!Within(a, b, n)
          /\ Ranges!Asked(h, n) = {i \in a..b : i < n}
      BY <2>4 DEF Ranges!Span, Ranges!ParseRange, Ranges!Asked, Ranges!Lengths
    <3>2. a <= b /\ b < n /\ Ranges!Within(a, b, n) = Ranges!Bounds(a, b)
      BY <3>1 DEF Ranges!Within, Ranges!Refused
    <3>3. {i \in a..b : i < n} = a..b /\ a \in 0..n /\ b \in 0..n - 1
      BY <3>1, <3>2
    <3> QED
      BY <1>1, <3>1, <3>2, <3>3
  <2> QED
    BY <2>1, <2>2, <2>3, <2>4 DEF Ranges!Headers
<1> QED
  BY <1>4 DEF Right

(* What is refused, of a file whose size the store knows.                  *)
LEMMA RefusedAsOutside ==
  ASSUME NEW h \in Ranges!Headers, NEW n \in Nat, MaxSize \in Nat, ~Ranges!ParseRange(h, n).ok
  PROVE  \/ Ranges!Asked(h, n) = {}
         \/ h.form = "span" /\ h.b >= n
<1> USE DEF Ranges!ParseRange, Ranges!Asked, Ranges!Lengths, Ranges!Within, Ranges!Bounds
<1>1. CASE h = Ranges!NoRange
  BY <1>1 DEF Ranges!NoRange
<1>2. ASSUME NEW a \in Ranges!Lengths, h = Ranges!From(a)
      PROVE  Ranges!Asked(h, n) = {}
  BY <1>2 DEF Ranges!From
<1>3. ASSUME NEW k \in Ranges!Lengths, h = Ranges!Suffix(k)
      PROVE  FALSE
  BY <1>3 DEF Ranges!Suffix, Ranges!LastOnes
<1>4. ASSUME NEW a \in Ranges!Lengths, NEW b \in Ranges!Lengths, h = Ranges!Span(a, b), b < n
      PROVE  Ranges!Asked(h, n) = {}
  <2>1. a \in Nat /\ b \in Nat /\ h.form = "span" /\ h.a = a /\ h.b = b
    BY <1>4 DEF Ranges!Span
  <2>2. a > b
    BY <1>4, <2>1
  <2>3. Ranges!Asked(h, n) = {i \in a..b : i < n}
    BY <2>1
  <2> QED
    BY <2>1, <2>2, <2>3
<1>5. ASSUME NEW a \in Ranges!Lengths, NEW b \in Ranges!Lengths, h = Ranges!Span(a, b), b >= n
      PROVE  h.form = "span" /\ h.b >= n
  BY <1>5 DEF Ranges!Span
<1> HIDE DEF Ranges!ParseRange, Ranges!Asked, Ranges!Lengths, Ranges!Within, Ranges!Bounds
<1>6. \/ h = Ranges!NoRange
      \/ \E a \in Ranges!Lengths : h = Ranges!From(a)
      \/ \E k \in Ranges!Lengths : h = Ranges!Suffix(k)
      \/ \E a \in Ranges!Lengths : \E b \in Ranges!Lengths : h = Ranges!Span(a, b)
  BY DEF Ranges!Headers
<1>7. \A b \in Ranges!Lengths : b < n \/ b >= n
  BY DEF Ranges!Lengths
<1> QED
  BY <1>1, <1>2, <1>3, <1>4, <1>5, <1>6, <1>7

(* Types, as far as the answers depend on them; and the answers.           *)
RangesType ==
  /\ size \in Ranges!Lengths /\ listed \in Ranges!Lengths
  /\ true \in [Holders -> Ranges!Lengths] /\ url \in Holders \cup {Ranges!Unknown}
  /\ req \in [Clients -> [head : Ranges!Headers, size : Ranges!Lengths, hang : BOOLEAN, from : Holders]]
  /\ DOMAIN resp = Clients

RightAnswer(a) ==
  a.size = true[a.from] =>
    LET asked == Ranges!Asked(a.head, a.size) IN
    /\ a.status \in {200, 206} => a.bytes = asked /\ a.promised = Ranges!Cardinality(asked)
    /\ a.status = 416 => \/ asked = {}
                         \/ a.head.form = "span" /\ a.head.b >= a.size

RangesInv == RangesType /\ \A c \in Clients : RightAnswer(resp[c])

LEMMA AnswerIsRight ==
  ASSUME RangesInv, UNCHANGED true, NEW c \in Clients,
         NEW status, NEW start, NEW promised, NEW bytes,
         Ranges!Answer(c, status, start, promised, bytes),
         RightAnswer([head |-> req[c].head, size |-> req[c].size, from |-> req[c].from,
                      status |-> status, start |-> start, promised |-> promised, bytes |-> bytes])
  PROVE  DOMAIN resp' = Clients /\ \A d \in Clients : RightAnswer(resp[d])'
<1> DEFINE a == [head |-> req[c].head, size |-> req[c].size, from |-> req[c].from,
                 status |-> status, start |-> start, promised |-> promised, bytes |-> bytes]
<1>1. resp' = [resp EXCEPT ![c] = a] /\ DOMAIN resp = Clients
  BY DEF Ranges!Answer, RangesInv, RangesType
<1> HIDE DEF a
<1>2. ASSUME NEW d \in Clients
      PROVE  RightAnswer(resp'[d])
  <2>1. CASE d = c
    BY <1>1, <2>1 DEF a
  <2>2. CASE d # c
    <3>1. resp'[d] = resp[d] /\ RightAnswer(resp[d])
      BY <1>1, <2>2 DEF RangesInv
    <3> QED
      BY <3>1
  <2> QED
    BY <2>1, <2>2
<1>3. ASSUME NEW d \in Clients
      PROVE  RightAnswer(resp[d])'
  BY <1>2 DEF RightAnswer
<1> QED
  BY <1>1, <1>3

(* A refusal because the range does not parse.                             *)
LEMMA RefusalIsRight ==
  ASSUME MaxSize \in Nat, RangesInv, NEW c \in Clients, NEW start, NEW promised, NEW bytes,
         ~Ranges!ParseRange(req[c].head, req[c].size).ok
  PROVE  RightAnswer([head |-> req[c].head, size |-> req[c].size, from |-> req[c].from,
                      status |-> 416, start |-> start, promised |-> promised, bytes |-> bytes])
<1>1. req[c].head \in Ranges!Headers /\ req[c].size \in Nat
  BY DEF RangesInv, RangesType, Ranges!Lengths
<1>2. \/ Ranges!Asked(req[c].head, req[c].size) = {}
      \/ req[c].head.form = "span" /\ req[c].head.b >= req[c].size
  BY <1>1, RefusedAsOutside
<1> QED
  BY <1>2 DEF RightAnswer

(* An answer of the CDN that the client gets, cut.                         *)
LEMMA StreamIsRight ==
  ASSUME MaxSize \in Nat, RangesInv, NEW c \in Clients, Ranges!Claimed(c).ok,
         req[c].size = true[req[c].from]
  PROVE  LET body == Ranges!CDN(Ranges!Claimed(c), true[req[c].from])
             n == Ranges!Length(Ranges!Claimed(c))
             asked == Ranges!Asked(req[c].head, req[c].size) IN
         body.status # 416 /\ Received(body, n) = asked /\ n = Ranges!Cardinality(asked)
<1>1. req[c].head \in Ranges!Headers /\ req[c].size \in Nat
  BY DEF RangesInv, RangesType, Ranges!Lengths
<1> QED
  BY <1>1, ServedAsAsked DEF Ranges!Claimed

LEMMA RangesInvStep ==
  ASSUME RangesInv, Ranges!Next
  PROVE  RangesInv'
<1> USE RangesAssumption DEF Ranges!world, Ranges!Goto
<1>1. RangesType
  BY DEF RangesInv
<1>2. ASSUME UNCHANGED <<resp, true>>
      PROVE  (\A c \in Clients : RightAnswer(resp[c]))' /\ DOMAIN resp' = Clients
  BY <1>2 DEF RangesInv, RangesType, RightAnswer
<1>3. ASSUME NEW c \in Clients, Ranges!Ask(c)
      PROVE  RangesInv'
  <2>1. PICK h \in Ranges!Headers : Ranges!Request(c, h)
    BY <1>3 DEF Ranges!Ask
  <2>2. UNCHANGED <<size, listed, true, url, resp>>
    BY <2>1 DEF Ranges!Request
  <2>3. req' \in [Clients -> [head : Ranges!Headers, size : Ranges!Lengths, hang : BOOLEAN, from : Holders]]
    BY <1>1, <2>1 DEF Ranges!Request, Ranges!Idle, RangesType
  <2> QED
    BY <1>1, <1>2, <2>2, <2>3 DEF RangesInv, RangesType
<1>4. ASSUME NEW c \in Clients, Ranges!Cached(c)
      PROVE  RangesInv'
  BY <1>1, <1>2, <1>4 DEF Ranges!Cached, RangesInv, RangesType
<1>5. ASSUME NEW c \in Clients, NEW h \in Holders, Ranges!Fetch(c, h)
      PROVE  RangesInv'
  BY <1>1, <1>2, <1>5 DEF Ranges!Fetch, RangesInv, RangesType
<1>6. ASSUME NEW c \in Clients, Ranges!BadRange(c)
      PROVE  RangesInv'
  <2>1. RightAnswer([head |-> req[c].head, size |-> req[c].size, from |-> req[c].from,
                     status |-> 416, start |-> 0, promised |-> 0, bytes |-> {}])
    BY <1>6, RefusalIsRight DEF Ranges!BadRange, Ranges!Claimed
  <2>2. UNCHANGED <<size, listed, true, url, req>> /\ Ranges!Answer(c, 416, 0, 0, {})
    BY <1>6 DEF Ranges!BadRange
  <2>3. DOMAIN resp' = Clients /\ \A d \in Clients : RightAnswer(resp[d])'
    BY <2>1, <2>2, AnswerIsRight
  <2> QED
    BY <1>1, <2>2, <2>3 DEF RangesInv, RangesType
<1>7. ASSUME NEW c \in Clients, Ranges!FetchFails(c)
      PROVE  RangesInv'
  <2>1. UNCHANGED <<size, listed, true, url>>
    BY <1>7 DEF Ranges!FetchFails
  <2>2. CASE Ranges!ParseRange(req[c].head, req[c].size).ok
    BY <1>1, <1>2, <1>7, <2>1, <2>2 DEF Ranges!FetchFails, RangesInv, RangesType
  <2>3. CASE ~Ranges!ParseRange(req[c].head, req[c].size).ok
    <3>1. RightAnswer([head |-> req[c].head, size |-> req[c].size, from |-> req[c].from,
                       status |-> 416, start |-> 0, promised |-> 0, bytes |-> {}])
      BY <2>3, RefusalIsRight
    <3>2. Ranges!Answer(c, 416, 0, 0, {}) /\ UNCHANGED req
      BY <1>7, <2>3 DEF Ranges!FetchFails
    <3>3. DOMAIN resp' = Clients /\ \A d \in Clients : RightAnswer(resp[d])'
      BY <2>1, <3>1, <3>2, AnswerIsRight
    <3> QED
      BY <1>1, <2>1, <3>2, <3>3 DEF RangesInv, RangesType
  <2> QED
    BY <2>2, <2>3
<1>8. ASSUME NEW c \in Clients, Ranges!Proxy(c)
      PROVE  RangesInv'
  <2> DEFINE body == Ranges!CDN(Ranges!Claimed(c), true[req[c].from])
             n == Ranges!Length(Ranges!Claimed(c))
             start == Ranges!Claimed(c).start
             status == Ranges!Status(req[c].head)
  <2>1. /\ Ranges!Claimed(c).ok /\ UNCHANGED <<listed, true, req>>
        /\ Ranges!Streams(c, body) \/ Ranges!Unsatisfiable(c, body)
    BY <1>8 DEF Ranges!Proxy
  <2>2. status \in {200, 206}
    BY DEF Ranges!Status
  <2> DEFINE asked == Ranges!Asked(req[c].head, req[c].size)
  <2>3. req[c].size = true[req[c].from] =>
          body.status # 416 /\ Received(body, n) = asked /\ n = Ranges!Cardinality(asked)
    BY <2>1, StreamIsRight
  <2>4. CASE Ranges!Streams(c, body)
    <3>1. Ranges!Answer(c, status, start, n, Received(body, n)) /\ UNCHANGED <<size, url>>
      BY <2>4 DEF Ranges!Streams, Received
    <3>2. RightAnswer([head |-> req[c].head, size |-> req[c].size, from |-> req[c].from,
                       status |-> status, start |-> start, promised |-> n,
                       bytes |-> Received(body, n)])
      BY <2>2, <2>3 DEF RightAnswer
    <3>3. DOMAIN resp' = Clients /\ \A d \in Clients : RightAnswer(resp[d])'
      BY <2>1, <3>1, <3>2, AnswerIsRight
    <3> QED
      BY <1>1, <2>1, <3>1, <3>3 DEF RangesInv, RangesType
  <2>5. CASE Ranges!Unsatisfiable(c, body)
    <3>1. true[req[c].from] # req[c].size
      BY <1>1, <2>3, <2>5 DEF Ranges!Unsatisfiable, RangesType
    <3>2. \A code, first, length, bytes :
            RightAnswer([head |-> req[c].head, size |-> req[c].size, from |-> req[c].from,
                         status |-> code, start |-> first, promised |-> length, bytes |-> bytes])
      BY <3>1 DEF RightAnswer
    <3>3. \E code, first, length, bytes : Ranges!Answer(c, code, first, length, bytes)
      BY <2>5 DEF Ranges!Unsatisfiable
    <3>4. DOMAIN resp' = Clients /\ \A d \in Clients : RightAnswer(resp[d])'
      BY <2>1, <3>2, <3>3, AnswerIsRight
    <3>5. size' \in Ranges!Lengths /\ url' \in Holders \cup {Ranges!Unknown}
      <4>1. req[c].from \in Holders /\ true[req[c].from] \in Ranges!Lengths
        BY <1>1 DEF RangesType
      <4> QED
        BY <1>1, <2>5, <4>1 DEF Ranges!Unsatisfiable, Ranges!Correct, RangesType
    <3> QED
      BY <1>1, <2>1, <3>4, <3>5 DEF RangesInv, RangesType
  <2> QED
    BY <2>1, <2>4, <2>5
<1>9. CASE Ranges!Sync
  BY <1>1, <1>2, <1>9 DEF Ranges!Sync, RangesInv, RangesType
<1>10. CASE Ranges!URLExpires
  BY <1>1, <1>2, <1>10 DEF Ranges!URLExpires, RangesInv, RangesType
<1>11. CASE Ranges!NegativeExpires
  BY <1>1, <1>2, <1>11 DEF Ranges!NegativeExpires, RangesInv, RangesType
<1>12. ASSUME NEW c \in Clients, Ranges!Redirect(c)
      PROVE  RangesInv'
  <2>1. RightAnswer([head |-> req[c].head, size |-> req[c].size, from |-> req[c].from,
                     status |-> 302, start |-> 0, promised |-> 0, bytes |-> {}])
    <3> DEFINE a == [head |-> req[c].head, size |-> req[c].size, from |-> req[c].from,
                     status |-> 302, start |-> 0, promised |-> 0, bytes |-> {}]
    <3>1. a.status \notin {200, 206} /\ a.status # 416
      OBVIOUS
    <3> HIDE DEF a
    <3>2. RightAnswer(a)
      BY <3>1, Zenon DEF RightAnswer
    <3> QED
      BY <3>2 DEF a
  <2>2. UNCHANGED <<size, listed, true, url, req>> /\ Ranges!Answer(c, 302, 0, 0, {})
    BY <1>12 DEF Ranges!Redirect
  <2>3. DOMAIN resp' = Clients /\ \A d \in Clients : RightAnswer(resp[d])'
    BY <2>1, <2>2, AnswerIsRight
  <2> QED
    BY <1>1, <2>2, <2>3 DEF RangesInv, RangesType
<1> QED
  BY <1>3, <1>4, <1>5, <1>6, <1>7, <1>8, <1>9, <1>10, <1>11, <1>12 DEF Ranges!Next, Ranges!Handle

LEMMA RangesInvAlways == Ranges!Spec => []RangesInv
<1>1. Ranges!Init => RangesInv
  <2> SUFFICES ASSUME Ranges!Init PROVE RangesInv
    OBVIOUS
  <2> USE RangesAssumption DEF Ranges!Init, Ranges!Idle, Ranges!NoAnswer, Ranges!Lengths, Ranges!Headers
  <2>1. RangesType
    BY DEF RangesType
  <2>2. \A c \in Clients : RightAnswer(resp[c])
    BY DEF RightAnswer
  <2> QED
    BY <2>1, <2>2 DEF RangesInv
<1>2. RangesInv /\ [Ranges!Next]_(Ranges!vars) => RangesInv'
  <2> SUFFICES ASSUME RangesInv, [Ranges!Next]_(Ranges!vars)
               PROVE  RangesInv'
    OBVIOUS
  <2>1. CASE Ranges!Next
    BY <2>1, RangesInvStep
  <2>2. CASE UNCHANGED Ranges!vars
    BY <2>2 DEF RangesInv, RangesType, RightAnswer, Ranges!vars, Ranges!world
  <2> QED
    BY <2>1, <2>2
<1> QED
  BY <1>1, <1>2, PTL DEF Ranges!Spec

(* Whoever the URL is from, whatever has become of the row meanwhile, and  *)
(* in hang mode too: with the size the file has at the CDN, a response is  *)
(* what its header asks for, for files of any size (get.go:1014, 134-155,  *)
(* 359-371).                                                               *)
THEOREM RightSizeIsServedExactly == Ranges!Spec => []Ranges!RightSizeServesExactly
<1>1. RangesInv => Ranges!RightSizeServesExactly
  BY DEF RangesInv, RightAnswer, Ranges!RightSizeServesExactly
<1> QED
  BY <1>1, RangesInvAlways, PTL

(* What is claimed of a file fits in it.                                   *)
LEMMA ClaimFits ==
  ASSUME NEW h \in Ranges!Headers, NEW n \in Ranges!Lengths, Ranges!ParseRange(h, n).ok
  PROVE  /\ Ranges!ParseRange(h, n).start \in Ranges!Lengths
         /\ Ranges!ParseRange(h, n).end \in Int
         /\ Ranges!Length(Ranges!ParseRange(h, n)) \in 0..MaxSize
<1> USE DEF Ranges!Bounds, Ranges!Length
<1>1. MaxSize \in Nat /\ n \in Nat /\ n <= MaxSize /\ Ranges!Lengths = 0..MaxSize
  BY RangesAssumption DEF Ranges!Lengths
<1>2. \A a, b \in Int : Ranges!Within(a, b, n).ok =>
        a \in 0..b /\ b < n /\ Ranges!Within(a, b, n) = Ranges!Bounds(a, b)
  BY <1>1 DEF Ranges!Within, Ranges!Refused
<1>3. ASSUME NEW a \in Nat, NEW b \in Int, a <= b, b < n
      PROVE  /\ Ranges!Bounds(a, b).start \in 0..MaxSize /\ Ranges!Bounds(a, b).end \in Int
             /\ Ranges!Length(Ranges!Bounds(a, b)) \in 0..MaxSize
  BY <1>1, <1>3
<1>4. CASE h = Ranges!NoRange
  BY <1>1, <1>4 DEF Ranges!ParseRange, Ranges!NoRange
<1>5. CASE \E k \in Ranges!Lengths : h = Ranges!Suffix(k)
  <2>1. PICK k \in Nat : h = Ranges!Suffix(k)
    BY <1>1, <1>5
  <2>2. Ranges!ParseRange(h, n) = Ranges!LastOnes(k, n)
    BY <2>1 DEF Ranges!ParseRange, Ranges!Suffix
  <2>3. CASE k >= n
    BY <1>1, <2>1, <2>2, <2>3 DEF Ranges!LastOnes
  <2>4. CASE k < n
    BY <1>1, <2>1, <2>2, <2>4 DEF Ranges!LastOnes
  <2> QED
    BY <1>1, <2>1, <2>3, <2>4
<1>6. CASE \E a \in Ranges!Lengths : h = Ranges!From(a)
  <2>1. PICK a \in Nat : h = Ranges!From(a)
    BY <1>1, <1>6
  <2>2. Ranges!ParseRange(h, n) = Ranges!Within(a, n - 1, n) /\ n - 1 \in Int
    BY <1>1, <2>1 DEF Ranges!ParseRange, Ranges!From
  <2> QED
    BY <1>1, <1>2, <1>3, <2>1, <2>2
<1>7. CASE \E a, b \in Ranges!Lengths : h = Ranges!Span(a, b)
  <2>1. PICK a \in Nat, b \in Nat : h = Ranges!Span(a, b)
    BY <1>1, <1>7
  <2>2. Ranges!ParseRange(h, n) = Ranges!Within(a, b, n)
    BY <2>1 DEF Ranges!ParseRange, Ranges!Span
  <2> QED
    BY <1>1, <1>2, <1>3, <2>1, <2>2
<1> QED
  BY <1>4, <1>5, <1>6, <1>7 DEF Ranges!Headers

(* What the CDN sends is of its file.                                      *)
LEMMA SentIsOfFile ==
  ASSUME NEW r, NEW n \in Ranges!Lengths, r.start \in Nat, r.end \in Int, NEW k
  PROVE  Received(Ranges!CDN(r, n), k) \subseteq Ranges!Lengths
<1>1. MaxSize \in Nat /\ n \in Nat /\ n <= MaxSize /\ Ranges!Lengths = 0..MaxSize
  BY RangesAssumption DEF Ranges!Lengths
<1> DEFINE body == Ranges!CDN(r, n)
<1>2. body.bytes \subseteq 0..MaxSize
  BY <1>1 DEF Ranges!CDN, Ranges!WholeFile
<1> HIDE DEF body
<1>3. Received(body, k) \subseteq body.bytes
  BY DEF Received, Ranges!Cut
<1> QED
  BY <1>1, <1>2, <1>3 DEF body

(* The responses have their types.                                         *)
AnswersOK(r) ==
  \A c \in Clients : /\ r[c].status \in {0, 200, 206, 302, 416}
                     /\ r[c].start \in Ranges!Lengths /\ r[c].promised \in 0..MaxSize
                     /\ r[c].bytes \subseteq Ranges!Lengths

LEMMA AnswerHasItsType ==
  ASSUME DOMAIN resp = Clients, AnswersOK(resp), NEW c \in Clients,
         NEW status \in {200, 206, 302, 416}, NEW start \in Ranges!Lengths, NEW promised \in 0..MaxSize,
         NEW bytes \in SUBSET Ranges!Lengths, Ranges!Answer(c, status, start, promised, bytes)
  PROVE  AnswersOK(resp')
<1> DEFINE a == [head |-> req[c].head, size |-> req[c].size, from |-> req[c].from,
                 status |-> status, start |-> start, promised |-> promised, bytes |-> bytes]
<1>1. resp' = [resp EXCEPT ![c] = a]
  BY DEF Ranges!Answer
<1>2. a.status = status /\ a.start = start /\ a.promised = promised /\ a.bytes = bytes
  OBVIOUS
<1> HIDE DEF a
<1>3. ASSUME NEW d \in Clients
      PROVE  resp'[d] = a \/ resp'[d] = resp[d]
  BY <1>1
<1> QED
  BY <1>2, <1>3 DEF AnswersOK

LEMMA AnswersStep ==
  ASSUME RangesInv, AnswersOK(resp), Ranges!Next
  PROVE  AnswersOK(resp')
<1> USE DEF Ranges!world, Ranges!Goto
<1>1. RangesType /\ DOMAIN resp = Clients
  BY DEF RangesInv, RangesType
<1>2. /\ 0 \in Ranges!Lengths /\ 0 \in 0..MaxSize /\ {} \in SUBSET Ranges!Lengths
      /\ 302 \in {200, 206, 302, 416} /\ 416 \in {200, 206, 302, 416}
  BY RangesAssumption DEF Ranges!Lengths
<1>3. ASSUME NEW c \in Clients, Ranges!Answer(c, 416, 0, 0, {})
      PROVE  AnswersOK(resp')
  BY <1>1, <1>2, <1>3, AnswerHasItsType
<1>4. ASSUME NEW c \in Clients, Ranges!Proxy(c)
      PROVE  AnswersOK(resp')
  <2> DEFINE claimed == Ranges!Claimed(c)
             body == Ranges!CDN(claimed, true[req[c].from])
             n == Ranges!Length(claimed)
             status == Ranges!Status(req[c].head)
  <2>1. /\ claimed.ok
        /\ Ranges!Streams(c, body) \/ Ranges!Unsatisfiable(c, body)
    BY <1>4 DEF Ranges!Proxy
  <2>2. status \in {200, 206, 302, 416}
    BY DEF Ranges!Status
  <2>3. /\ req[c].head \in Ranges!Headers /\ req[c].size \in Ranges!Lengths
        /\ true[req[c].from] \in Ranges!Lengths
    BY <1>1 DEF RangesType
  <2>4. claimed.start \in Ranges!Lengths /\ claimed.end \in Int /\ n \in 0..MaxSize
    BY <2>1, <2>3, ClaimFits DEF Ranges!Claimed
  <2>5. claimed.start \in Nat /\ claimed.end \in Int
    <3> HIDE DEF claimed, n
    <3> QED
      BY <2>4, RangesAssumption DEF Ranges!Lengths
  <2>6. Received(body, n) \in SUBSET Ranges!Lengths
    BY <2>3, <2>5, SentIsOfFile
  <2> HIDE DEF claimed, n, status
  <2>7. CASE Ranges!Streams(c, body)
    <3>1. Ranges!Answer(c, status, claimed.start, n, Received(body, n))
      BY <2>7 DEF Ranges!Streams, Received, claimed, n, status
    <3> HIDE DEF body
    <3> QED
      BY <1>1, <2>2, <2>4, <2>6, <3>1, AnswerHasItsType
  <2>8. CASE Ranges!Unsatisfiable(c, body)
    <3>1. Ranges!Answer(c, status, claimed.start, n, {}) \/ Ranges!Answer(c, 416, 0, 0, {})
      BY <2>8 DEF Ranges!Unsatisfiable, claimed, n, status
    <3> HIDE DEF body
    <3>2. CASE Ranges!Answer(c, status, claimed.start, n, {})
      BY <1>1, <1>2, <2>2, <2>4, <3>2, AnswerHasItsType
    <3> QED
      BY <1>3, <3>1, <3>2
  <2> QED
    BY <2>1, <2>7, <2>8
<1>5. ASSUME NEW c \in Clients, Ranges!BadRange(c)
      PROVE  AnswersOK(resp')
  BY <1>3, <1>5 DEF Ranges!BadRange
<1>6. ASSUME NEW c \in Clients, Ranges!FetchFails(c)
      PROVE  AnswersOK(resp')
  <2>1. UNCHANGED resp \/ Ranges!Answer(c, 416, 0, 0, {})
    BY <1>6 DEF Ranges!FetchFails
  <2> QED
    BY <1>3, <2>1
<1>7. ASSUME NEW c \in Clients,
             Ranges!Ask(c) \/ Ranges!Cached(c) \/ \E h \in Holders : Ranges!Fetch(c, h)
      PROVE  AnswersOK(resp')
  <2>1. UNCHANGED resp
    BY <1>7 DEF Ranges!Ask, Ranges!Request, Ranges!Cached, Ranges!Fetch
  <2> QED
    BY <2>1
<1>8. CASE Ranges!Sync \/ Ranges!URLExpires \/ Ranges!NegativeExpires
  <2>1. UNCHANGED resp
    BY <1>8 DEF Ranges!Sync, Ranges!URLExpires, Ranges!NegativeExpires
  <2> QED
    BY <2>1
<1>9. ASSUME NEW c \in Clients, Ranges!Redirect(c)
      PROVE  AnswersOK(resp')
  <2>1. Ranges!Answer(c, 302, 0, 0, {})
    BY <1>9 DEF Ranges!Redirect
  <2> QED
    BY <1>1, <1>2, <2>1, AnswerHasItsType
<1> QED
  BY <1>4, <1>5, <1>6, <1>7, <1>8, <1>9 DEF Ranges!Next, Ranges!Handle

LabelsOfRanges == {"idle", "resolve", "proxy"}

(* Nothing leaves its type, however often a size is corrected and synced   *)
(* back: what is promised is of a size a file can have, and what is sent   *)
(* is of the file at the CDN (get.go:1014, 134-155, 359-371).              *)
THEOREM RangesHaveTheirType == Ranges!Spec => []Ranges!TypeOK
<1> DEFINE Labels == refused \in BOOLEAN /\ clientPc \in [Clients -> LabelsOfRanges]
           Inv == Labels /\ AnswersOK(resp)
<1>1. Ranges!Init => Inv
  <2> SUFFICES ASSUME Ranges!Init PROVE Inv
    OBVIOUS
  <2>1. Labels
    BY DEF Ranges!Init, LabelsOfRanges
  <2>2. AnswersOK(resp)
    BY RangesAssumption DEF Ranges!Init, AnswersOK, Ranges!NoAnswer, Ranges!Lengths
  <2> QED
    BY <2>1, <2>2
<1>2. RangesInv /\ Inv /\ [Ranges!Next]_(Ranges!vars) => Inv'
  <2> SUFFICES ASSUME RangesInv, Inv, [Ranges!Next]_(Ranges!vars)
               PROVE  Inv'
    OBVIOUS
  <2>1. CASE UNCHANGED Ranges!vars
    BY <2>1 DEF Ranges!vars
  <2>2. CASE Ranges!Next
    <3>1. AnswersOK(resp')
      BY <2>2, AnswersStep
    <3>2. refused' \in BOOLEAN
      BY <2>2 DEF Ranges!Next, Ranges!Handle, Ranges!Ask, Ranges!Request, Ranges!Redirect, Ranges!Cached, Ranges!Fetch,
        Ranges!BadRange, Ranges!FetchFails, Ranges!Proxy, Ranges!Streams, Ranges!Unsatisfiable,
        Ranges!Correct, Ranges!Sync, Ranges!URLExpires, Ranges!NegativeExpires
    <3>3. \/ UNCHANGED clientPc
          \/ \E c \in Clients, l \in LabelsOfRanges : clientPc' = [clientPc EXCEPT ![c] = l]
      BY <2>2 DEF LabelsOfRanges, Ranges!Goto, Ranges!Next, Ranges!Handle, Ranges!Ask, Ranges!Request,
        Ranges!Redirect, Ranges!Cached, Ranges!Fetch, Ranges!BadRange, Ranges!FetchFails, Ranges!Proxy, Ranges!Streams,
        Ranges!Unsatisfiable, Ranges!Answer, Ranges!Sync, Ranges!URLExpires, Ranges!NegativeExpires
    <3>4. clientPc' \in [Clients -> LabelsOfRanges]
      BY <3>3
    <3> QED
      BY <3>1, <3>2, <3>4
  <2> QED
    BY <2>1, <2>2
<1>3. RangesInv /\ Inv => Ranges!TypeOK
  <2> SUFFICES ASSUME RangesType, Inv PROVE Ranges!TypeOK
    BY DEF RangesInv
  <2>1. \A c \in Clients : req[c].head \in Ranges!Headers /\ req[c].size \in Ranges!Lengths
                           /\ req[c].hang \in BOOLEAN
    BY DEF RangesType
  <2> QED
    BY <2>1 DEF RangesType, AnswersOK, LabelsOfRanges, Ranges!TypeOK
<1> HIDE DEF Inv
<1> QED
  BY <1>1, <1>2, <1>3, RangesInvAlways, PTL DEF Ranges!Spec

-----------------------------------------------------------------------------
(* The log ring buffer                                                     *)

(* Line i of the newest is where counting back from pos, around the end,   *)
(* finds it.                                                               *)
Back(i) == (pos - i + Capacity) % Capacity

BufferInv ==
  /\ buf \in [0..Capacity - 1 -> Messages \cup {Buffer!NoLine}]
  /\ pos \in 0..Capacity - 1 /\ full \in BOOLEAN
  /\ latest \in Seq(Messages) /\ Len(latest) = IF full THEN Capacity ELSE pos
  /\ \A i \in 1..Len(latest) : latest[i] = buf[Back(i)]

LEMMA AroundTheEnd ==
  ASSUME NEW a \in Nat, NEW k \in Nat, a < 2 * k
  PROVE  a % k = IF a < k THEN a ELSE a - k
<1>1. CASE a < k
  BY <1>1
<1>2. CASE a >= k
  BY <1>2
<1> QED
  BY <1>1, <1>2

LEMMA BackFrom ==
  ASSUME NEW p \in 0..Capacity - 1, NEW i \in 1..Capacity
  PROVE  (p - i + Capacity) % Capacity = IF i <= p THEN p - i ELSE p - i + Capacity
<1> DEFINE a == p - i + Capacity
<1>1. Capacity \in Nat /\ p \in Nat /\ i \in Nat
  BY BufferAssumption
<1>2. a \in Nat /\ a < 2 * Capacity /\ (a < Capacity <=> i > p)
  BY <1>1
<1>3. a - Capacity = p - i
  BY <1>1
<1>4. a % Capacity = IF a < Capacity THEN a ELSE a - Capacity
  <2> HIDE DEF a
  <2> QED
    BY <1>1, <1>2, AroundTheEnd
<1>5. CASE i <= p
  <2> HIDE DEF a
  <2> QED
    BY <1>1, <1>2, <1>3, <1>4, <1>5 DEF a
<1>6. CASE i > p
  BY <1>1, <1>2, <1>4, <1>6
<1> QED
  BY <1>1, <1>5, <1>6

(* The newest line is put in front, and the oldest drops out of the end.   *)
LEMMA PutInFront ==
  ASSUME NEW s \in Seq(Messages), NEW m \in Messages, NEW n \in 1..Len(s) + 1
  PROVE  /\ SubSeq(<<m>> \o s, 1, n) \in Seq(Messages) /\ Len(SubSeq(<<m>> \o s, 1, n)) = n
         /\ \A i \in 1..n : SubSeq(<<m>> \o s, 1, n)[i] = IF i = 1 THEN m ELSE s[i - 1]
<1>1. /\ <<m>> \in Seq(Messages) /\ Len(<<m>>) = 1 /\ <<m>>[1] = m
      /\ Len(s) \in Nat
  OBVIOUS
<1>2. /\ <<m>> \o s \in Seq(Messages) /\ Len(<<m>> \o s) = Len(s) + 1
      /\ \A i \in 1..Len(s) + 1 : (<<m>> \o s)[i] = IF i <= 1 THEN <<m>>[i] ELSE s[i - 1]
  BY <1>1, ConcatProperties
<1> DEFINE t == <<m>> \o s
<1>3. t \in Seq(Messages) /\ n \in Nat /\ 1 \in 1..Len(t) + 1 /\ n \in 1 - 1..Len(t)
  BY <1>1, <1>2
<1>4. \A i \in 1..n : t[i] = IF i = 1 THEN m ELSE s[i - 1]
  BY <1>1, <1>2
<1> HIDE DEF t
<1>5. /\ SubSeq(t, 1, n) \in Seq(Messages) /\ Len(SubSeq(t, 1, n)) = n
      /\ \A i \in 1..n : SubSeq(t, 1, n)[i] = t[i]
  BY <1>3, SubSeqProperties
<1> QED
  BY <1>4, <1>5 DEF t

LEMMA BufferInvStep ==
  ASSUME BufferInv, NEW w \in Writers, NEW m \in Messages, Buffer!Handle(w, m)
  PROVE  BufferInv'
<1>1. Capacity \in Nat /\ Capacity > 0
  BY BufferAssumption
<1>2. /\ buf \in [0..Capacity - 1 -> Messages \cup {Buffer!NoLine}]
      /\ pos \in 0..Capacity - 1 /\ full \in BOOLEAN
      /\ latest \in Seq(Messages) /\ Len(latest) = IF full THEN Capacity ELSE pos
      /\ \A i \in 1..Len(latest) : latest[i] = buf[Back(i)]
  BY DEF BufferInv
<1> DEFINE n == IF Len(latest) < Capacity THEN Len(latest) + 1 ELSE Capacity
<1>3. /\ pos' = (pos + 1) % Capacity /\ full' = (full \/ pos' = 0)
      /\ buf' = [buf EXCEPT ![pos] = m] /\ latest' = SubSeq(<<m>> \o latest, 1, n)
  BY DEF Buffer!Handle, Buffer!NextPos, Buffer!Full
<1>4. pos' = IF pos + 1 < Capacity THEN pos + 1 ELSE 0
  <2> HIDE DEF n
  <2>1. CASE pos + 1 < Capacity
    <3>1. pos + 1 \in Nat /\ pos + 1 < 2 * Capacity
      BY <1>1, <1>2, <2>1
    <3>2. (pos + 1) % Capacity = pos + 1
      BY <1>1, <2>1, <3>1
    <3> QED
      BY <1>3, <2>1, <3>2
  <2>2. CASE pos + 1 = Capacity
    <3>1. Capacity % Capacity = 0
      BY <1>1
    <3> QED
      BY <1>1, <1>3, <2>2, <3>1
  <2> QED
    BY <1>1, <1>2, <2>1, <2>2
<1>5. pos' \in 0..Capacity - 1 /\ n \in 1..Len(latest) + 1 /\ n \in 1..Capacity
  BY <1>1, <1>2, <1>4
<1>6. n = IF full' THEN Capacity ELSE pos'
  <2>1. full' <=> full \/ pos' = 0
    BY Zenon, <1>3
  <2>2. CASE full
    <3>1. n = Capacity
      BY <1>1, <1>2, <2>2
    <3> HIDE DEF n
    <3> QED
      BY <2>1, <2>2, <3>1
  <2>3. CASE ~full
    <3>1. Len(latest) = pos /\ pos < Capacity /\ n = pos + 1
      BY <1>1, <1>2, <2>3
    <3> HIDE DEF n
    <3>2. CASE pos + 1 < Capacity
      <4>1. pos' = pos + 1 /\ pos' # 0
        BY <1>2, <1>4, <3>2
      <4> QED
        BY <2>1, <2>3, <3>1, <4>1
    <3>3. CASE pos + 1 = Capacity
      <4>1. pos' = 0
        BY <1>4, <3>3
      <4> QED
        BY <2>1, <3>1, <3>3, <4>1
    <3>4. pos + 1 < Capacity \/ pos + 1 = Capacity
      BY <1>1, <1>2
    <3> QED
      BY <3>2, <3>3, <3>4
  <2> QED
    BY <2>2, <2>3
<1>7. /\ latest' \in Seq(Messages) /\ Len(latest') = n
      /\ \A i \in 1..n : latest'[i] = IF i = 1 THEN m ELSE latest[i - 1]
  BY <1>2, <1>3, <1>5, PutInFront
<1>8. ASSUME NEW i \in 1..n
      PROVE  latest'[i] = buf'[Back(i)']
  <2>1. i \in 1..Capacity
    BY <1>1, <1>5
  <2>2. Back(i)' = IF i <= pos' THEN pos' - i ELSE pos' - i + Capacity
    BY <1>5, <2>1, BackFrom DEF Back
  <2>3. CASE i = 1
    <3>1. Back(i)' = pos
      BY <1>1, <1>2, <1>4, <2>2, <2>3
    <3> QED
      BY <1>2, <1>3, <1>7, <2>3, <3>1
  <2>4. CASE i # 1
    <3>1. i - 1 \in 1..Len(latest) /\ i - 1 \in 1..Capacity
      BY <1>1, <1>2, <1>5, <2>1, <2>4
    <3>2. Back(i - 1) = IF i - 1 <= pos THEN pos - (i - 1) ELSE pos - (i - 1) + Capacity
      BY <1>2, <3>1, BackFrom DEF Back
    <3>3. Back(i)' = Back(i - 1) /\ Back(i - 1) # pos
      BY <1>1, <1>2, <1>4, <2>1, <2>2, <2>4, <3>2
    <3>4. latest'[i] = buf[Back(i - 1)]
      BY <1>2, <1>7, <2>4, <3>1
    <3>5. Back(i - 1) \in 0..Capacity - 1
      BY <1>1, <1>2, <3>1, <3>2
    <3> QED
      BY <1>2, <1>3, <3>3, <3>4, <3>5
  <2> QED
    BY <2>3, <2>4
<1>9. buf' \in [0..Capacity - 1 -> Messages \cup {Buffer!NoLine}] /\ full' \in BOOLEAN
  BY <1>2, <1>3
<1> HIDE DEF n
<1> QED
  BY <1>5, <1>6, <1>7, <1>8, <1>9 DEF BufferInv

(* The page, from the invariant.                                           *)
LEMMA BufferLines ==
  ASSUME BufferInv
  PROVE  Buffer!LinesExact
<1> SUFFICES ASSUME NEW n \in -1..Capacity + 1
             PROVE  Buffer!Lines(n) = IF n \in 1..Len(latest) THEN SubSeq(latest, 1, n) ELSE latest
  BY DEF Buffer!LinesExact
<1>1. Capacity \in Nat /\ Capacity > 0
  BY BufferAssumption
<1>2. /\ pos \in 0..Capacity - 1 /\ full \in BOOLEAN
      /\ latest \in Seq(Messages) /\ Len(latest) = IF full THEN Capacity ELSE pos
      /\ \A i \in 1..Len(latest) : latest[i] = buf[Back(i)]
  BY DEF BufferInv
<1>3. Len(latest) \in Nat /\ Len(latest) <= Capacity
  BY <1>1, <1>2
<1> DEFINE m == IF n \in 1..Len(latest) THEN n ELSE Len(latest)
<1>4. m \in 0..Len(latest)
  BY <1>3
<1>5. Buffer!Lines(n) = [i \in 1..m |-> latest[i]]
  <2> DEFINE asked == IF n <= 0 \/ n > Capacity THEN Capacity ELSE n
             count == IF full THEN Capacity ELSE pos
  <2>1. count = Len(latest)
    BY <1>2
  <2>2. (IF asked > count THEN count ELSE asked) = m
    <3>1. count \in Nat /\ count <= Capacity /\ n \in Int
      BY <1>1, <1>3, <2>1
    <3>2. m = IF n \in 1..count THEN n ELSE count
      BY <2>1
    <3> HIDE DEF count, m
    <3>3. CASE n <= 0 \/ n > Capacity
      BY <1>1, <3>1, <3>2, <3>3
    <3>4. CASE n >= 1 /\ n <= Capacity
      BY <1>1, <3>1, <3>2, <3>4
    <3> QED
      BY <1>1, <3>1, <3>3, <3>4
  <2>3. Buffer!Lines(n) = [i \in 1..m |-> buf[Back(i)]]
    BY <2>2 DEF Buffer!Lines, Back
  <2>4. \A i \in 1..m : latest[i] = buf[Back(i)]
    BY <1>2, <1>3, <1>4
  <2> HIDE DEF m
  <2> QED
    BY <2>3, <2>4
<1>6. SubSeq(latest, 1, m) = [i \in 1..m |-> latest[i]]
  <2>1. m \in Nat /\ m <= Len(latest)
    BY <1>3, <1>4
  <2>2. \A i \in 1..m : latest[i] \in Messages
    BY <1>2, <2>1
  <2> HIDE DEF m
  <2>3. /\ SubSeq(latest, 1, m) \in Seq(Messages)
        /\ Len(SubSeq(latest, 1, m)) = IF 1 <= m THEN m - 1 + 1 ELSE 0
        /\ \A i \in 1..m - 1 + 1 : SubSeq(latest, 1, m)[i] = latest[1 + i - 1]
    BY <2>1, <2>2, SubSeqProperties
  <2>4. /\ Len(SubSeq(latest, 1, m)) = m
        /\ \A i \in 1..m : SubSeq(latest, 1, m)[i] = latest[i]
    BY <2>1, <2>3
  <2> DEFINE t == SubSeq(latest, 1, m)
  <2>5. t = [i \in 1..Len(t) |-> t[i]]
    BY <2>3
  <2> QED
    BY <2>4, <2>5
<1>7. SubSeq(latest, 1, Len(latest)) = latest
  BY <1>2
<1> QED
  BY <1>5, <1>6, <1>7

LEMMA BufferInvAlways == Buffer!Spec => []BufferInv
<1>1. Buffer!Init => BufferInv
  <2> SUFFICES ASSUME Buffer!Init PROVE BufferInv
    OBVIOUS
  <2>1. Capacity \in Nat /\ Capacity > 0
    BY BufferAssumption
  <2>2. <<>> \in Seq(Messages) /\ Len(<<>>) = 0
    OBVIOUS
  <2> QED
    BY <2>1, <2>2 DEF Buffer!Init, BufferInv
<1>2. BufferInv /\ [Buffer!Next]_(Buffer!vars) => BufferInv'
  <2> SUFFICES ASSUME BufferInv, [Buffer!Next]_(Buffer!vars)
               PROVE  BufferInv'
    OBVIOUS
  <2>1. ASSUME NEW w \in Writers, NEW m \in Messages, Buffer!Handle(w, m)
        PROVE  BufferInv'
    BY <2>1, BufferInvStep
  <2>2. ASSUME UNCHANGED <<buf, pos, full, latest>>
        PROVE  BufferInv'
    BY <2>2 DEF BufferInv, Back
  <2>3. ASSUME NEW w \in Writers, Buffer!Delegate(w)
        PROVE  BufferInv'
    BY <2>2, <2>3 DEF Buffer!Delegate
  <2>4. CASE UNCHANGED Buffer!vars
    BY <2>2, <2>4 DEF Buffer!vars
  <2> QED
    BY <2>1, <2>3, <2>4 DEF Buffer!Next
<1> QED
  BY <1>1, <1>2, PTL DEF Buffer!Spec

(* The log page's lines are the newest stored, newest first, as many as    *)
(* were asked for and are there, whether or not the buffer has wrapped,    *)
(* for a buffer of any capacity (logs.go:80-105).                          *)
THEOREM LinesAreExact == Buffer!Spec => []Buffer!LinesExact
<1>1. BufferInv => Buffer!LinesExact
  BY BufferLines
<1> QED
  BY <1>1, BufferInvAlways, PTL

(* What waits to be handed on is a message, and the rest as above          *)
(* (logs.go:42-52).                                                        *)
THEOREM BufferHasItsType == Buffer!Spec => []Buffer!TypeOK
<1> DEFINE Waiting == pending \in [Writers -> Messages \cup {Buffer!NoLine}]
           Lines == /\ buf \in [0..Capacity - 1 -> Messages \cup {Buffer!NoLine}]
                    /\ pos \in 0..Capacity - 1 /\ full \in BOOLEAN
<1>1. Buffer!Init => Waiting
  BY DEF Buffer!Init
<1>2. Waiting /\ [Buffer!Next]_(Buffer!vars) => Waiting'
  BY DEF Buffer!Next, Buffer!Handle, Buffer!Delegate, Buffer!vars
<1>3. BufferInv => Lines
  BY DEF BufferInv
<1>4. Lines /\ Waiting => Buffer!TypeOK
  BY DEF Buffer!TypeOK
<1>5. Buffer!Spec => []BufferInv
  BY BufferInvAlways
<1> HIDE DEF Waiting, Lines
<1> QED
  BY <1>1, <1>2, <1>3, <1>4, <1>5, PTL DEF Buffer!Spec

-----------------------------------------------------------------------------
(* The listings                                                            *)

(* The table.                                                              *)
LEMMA TreeCardinality == \A S : Tree!Cardinality(S) = Cardinality(S)
  BY Zenon DEF Tree!Cardinality, Cardinality

FilesOK ==
  \E n \in Nat : files \subseteq [item : Items, path : Paths, size : Sizes, id : 1..n]

TableOK == IsFiniteSet(files) /\ Cardinality(files) <= HasAll /\ Tree!Legal(files)

-----------------------------------------------------------------------------
(* A least element, of any set by any measure.                             *)
LEMMA LeastExists ==
  ASSUME NEW S, S # {}, NEW f \in [S -> Nat]
  PROVE  \E x \in S : \A y \in S : f[x] <= f[y]
<1> DEFINE T == {f[x] : x \in S}
<1>1. T \subseteq Nat /\ T # {}
  OBVIOUS
<1>2. \E n \in T : \A k \in T : ~ (<<k, n>> \in OpToRel(<, Nat))
  <2> HIDE DEF T
  <2> QED
    BY <1>1, NatLessThanWellFounded, WFMin
<1>3. PICK n \in T : \A k \in T : ~ (<<k, n>> \in OpToRel(<, Nat))
  BY <1>2
<1> DEFINE Less == {ss \in Nat \X Nat : ss[1] < ss[2]}
<1>4. OpToRel(<, Nat) = Less
  BY Zenon DEF OpToRel
<1>5. \A k \in T : ~ (<<k, n>> \in Less)
  BY <1>3, <1>4, Zenon
<1>6. \A k \in T : n <= k
  <2> HIDE DEF T
  <2> SUFFICES ASSUME NEW k \in T PROVE n <= k
    OBVIOUS
  <2>1. k \in Nat /\ n \in Nat /\ ~ (<<k, n>> \in Less)
    BY <1>1, <1>5
  <2>2. k < n => <<k, n>> \in Less
    BY ONLY <2>1
  <2> QED
    BY ONLY <2>1, <2>2
<1> QED
  BY <1>6

(* A finite set has a bound, by any measure.                               *)
LEMMA FiniteIsBounded ==
  ASSUME NEW S, IsFiniteSet(S), NEW f \in [S -> Nat]
  PROVE  \E n \in Nat : \A x \in S : f[x] <= n
<1> DEFINE Bounded(U) == \E n \in Nat : \A x \in U : f[x] <= n
           T == {U \in SUBSET S : ~Bounded(U)}
           card == [U \in T |-> Cardinality(U)]
<1> SUFFICES ASSUME T # {} PROVE FALSE
  OBVIOUS
<1>1. \A U \in SUBSET S : IsFiniteSet(U) /\ Cardinality(U) \in Nat
  BY FS_Subset, FS_CardinalityType
<1>2. PICK U \in T : \A V \in T : card[U] <= card[V]
  <2>1. card \in [T -> Nat]
    BY <1>1
  <2> HIDE DEF card, T
  <2> QED
    BY <2>1, LeastExists
<1>3. U \in SUBSET S /\ ~Bounded(U)
  OBVIOUS
<1>4. PICK x \in U : TRUE
  BY <1>3
<1> DEFINE V == U \ {x}
<1>5. V \in SUBSET S /\ Cardinality(V) = Cardinality(U) - 1
  BY <1>1, <1>3, <1>4, FS_RemoveElement
<1>6. V \notin T
  <2> SUFFICES ASSUME V \in T PROVE FALSE
    OBVIOUS
  <2>1. Cardinality(U) <= Cardinality(V)
    <3> HIDE DEF T, V
    <3> QED
      BY <1>2
  <2> HIDE DEF V
  <2> QED
    BY <1>1, <1>3, <1>5, <2>1
<1>7. PICK n \in Nat : \A y \in V : f[y] <= n
  BY <1>5, <1>6
<1> DEFINE m == IF f[x] <= n THEN n ELSE f[x]
<1>8. f[x] \in Nat /\ \A y \in V : f[y] \in Nat
  BY <1>3, <1>4
<1>9. m \in Nat /\ f[x] <= m /\ \A y \in V : f[y] <= m
  BY <1>7, <1>8
<1> HIDE DEF m
<1>10. \A y \in U : f[y] <= m
  BY <1>9
<1> QED
  BY <1>3, <1>9, <1>10

(* The largest of the sizes.                                               *)
LEMMA LargestSize ==
  /\ Tree!Max(Sizes) \in Sizes /\ Tree!Max(Sizes) \in Nat
  /\ \A n \in Sizes : n \in Nat /\ n <= Tree!Max(Sizes)
<1>1. Sizes # {} /\ IsFiniteSet(Sizes) /\ \A n \in Sizes : n \in Nat
  BY TreeAssumption
<1> DEFINE f == [n \in Sizes |-> n]
<1>2. f \in [Sizes -> Nat]
  BY <1>1
<1>3. PICK top \in Nat : \A n \in Sizes : f[n] <= top
  <2> HIDE DEF f
  <2> QED
    BY <1>1, <1>2, FiniteIsBounded
<1> DEFINE g == [n \in Sizes |-> top - n]
<1>4. g \in [Sizes -> Nat]
  BY <1>1, <1>3
<1>5. PICK x \in Sizes : \A y \in Sizes : g[x] <= g[y]
  <2> HIDE DEF g
  <2> QED
    BY <1>1, <1>4, LeastExists
<1>6. \A y \in Sizes : x >= y
  BY <1>1, <1>3, <1>5
<1>7. Tree!Max(Sizes) \in Sizes /\ \A y \in Sizes : Tree!Max(Sizes) >= y
  BY <1>6 DEF Tree!Max
<1> QED
  BY <1>1, <1>7

LEMMA FirstIsIn ==
  ASSUME FilesOK, NEW S \in SUBSET files, S # {}
  PROVE  /\ Tree!First(S) \in S
         /\ \A q \in S : Rank[Tree!Name(Tree!First(S))] <= Rank[Tree!Name(q)]
<1> DEFINE f == [r \in S |-> Rank[Tree!Name(r)]]
<1>1. f \in [S -> Nat]
  BY TreeAssumption DEF FilesOK, Tree!Name, Tree!Last
<1>2. \E r \in S : \A q \in S : f[r] <= f[q]
  <2> HIDE DEF f
  <2> QED
    BY <1>1, LeastExists
<1>3. \E r \in S : \A q \in S : Rank[Tree!Name(r)] <= Rank[Tree!Name(q)]
  BY <1>2
<1> QED
  BY <1>3 DEF Tree!First

LEMMA LargestIsIn ==
  ASSUME FilesOK, NEW S \in SUBSET files, S # {}
  PROVE  /\ Tree!Largest(S) \in S /\ \A q \in S : q.size <= Tree!Largest(S).size
         /\ \A q \in S : (\A x \in S : x.size <= q.size) =>
              Rank[Tree!Name(Tree!Largest(S))] <= Rank[Tree!Name(q)]
<1> DEFINE Top == {r \in S : \A q \in S : q.size <= r.size}
<1>1. PICK n \in Nat : \A x \in Sizes : x \in 0..n
  BY LargestSize
<1> DEFINE f == [r \in S |-> n - r.size]
<1>2. \A r \in S : r.size \in 0..n
  BY <1>1 DEF FilesOK
<1>3. f \in [S -> Nat]
  BY <1>2
<1>4. \E r \in S : \A q \in S : f[r] <= f[q]
  <2> HIDE DEF f
  <2> QED
    BY <1>3, LeastExists
<1>5. Top # {} /\ Top \in SUBSET files
  BY <1>2, <1>4
<1>6. /\ Tree!First(Top) \in Top
      /\ \A q \in Top : Rank[Tree!Name(Tree!First(Top))] <= Rank[Tree!Name(q)]
  <2> HIDE DEF Top
  <2> QED
    BY <1>5, FirstIsIn
<1>7. Tree!Largest(S) = Tree!First(Top)
  BY DEF Tree!Largest
<1> QED
  BY <1>6, <1>7

(* A path has a newest row.                                                *)
Primaries == {r \in files : \A q \in files : q.path = r.path => q.id <= r.id}

LEMMA NewestExists ==
  ASSUME FilesOK, NEW r \in files
  PROVE  \E q \in Primaries : q.path = r.path
<1> DEFINE S == {q \in files : q.path = r.path}
<1>1. PICK n \in Nat : files \subseteq [item : Items, path : Paths, size : Sizes, id : 1..n]
  BY DEF FilesOK
<1> DEFINE f == [q \in S |-> n - q.id]
<1>2. \A q \in S : q.id \in 1..n
  BY <1>1
<1>3. f \in [S -> Nat] /\ S # {}
  BY <1>2
<1>4. PICK q \in S : \A p \in S : f[q] <= f[p]
  <2> HIDE DEF f, S
  <2> QED
    BY <1>3, LeastExists
<1>5. \A p \in S : p.id <= q.id
  BY <1>2, <1>4
<1> QED
  BY <1>5 DEF Primaries

-----------------------------------------------------------------------------
(* What is below a directory.                                              *)
LEMMA Beginning ==
  ASSUME NEW p \in Seq(Names), NEW j \in 0..Len(p)
  PROVE  /\ SubSeq(p, 1, j) \in Seq(Names) /\ Len(SubSeq(p, 1, j)) = j
         /\ \A i \in 1..j : SubSeq(p, 1, j)[i] = p[i]
         /\ Prefix(SubSeq(p, 1, j), p)
<1>1. j \in Int /\ 1 \in Int /\ Len(p) \in Nat /\ \A i \in 1..j : p[i] \in Names
  OBVIOUS
<1>2. /\ SubSeq(p, 1, j) \in Seq(Names)
      /\ Len(SubSeq(p, 1, j)) = IF 1 <= j THEN j - 1 + 1 ELSE 0
      /\ \A i \in 1..j - 1 + 1 : SubSeq(p, 1, j)[i] = p[1 + i - 1]
  BY <1>1, SubSeqProperties
<1>3. Len(SubSeq(p, 1, j)) = j /\ \A i \in 1..j : SubSeq(p, 1, j)[i] = p[i]
  BY <1>1, <1>2
<1> QED
  BY <1>1, <1>2, <1>3 DEF Prefix

LEMMA PrefixIsUnder ==
  ASSUME NEW d \in Seq(Names), NEW p \in Seq(Names), Prefix(d, p)
  PROVE  Tree!Under(d, p)
<1>1. Len(d) \in Nat /\ Len(p) \in Nat /\ (d = <<>> <=> Len(d) = 0)
  OBVIOUS
<1>2. CASE d = <<>>
  BY <1>2 DEF Tree!Under
<1>3. CASE d # <<>>
  <2>1. Len(d) \in 1..Len(d) /\ \A i \in 1..Len(d) - 1 : i \in 1..Len(d)
    BY <1>1, <1>3
  <2>2. Len(p) >= Len(d) /\ d[Len(d)] = p[Len(d)] /\ \A i \in 1..Len(d) - 1 : d[i] = p[i]
    BY <1>1, <2>1 DEF Prefix
  <2> QED
    BY <2>2 DEF Tree!Under
<1> QED
  BY <1>2, <1>3

(* Nothing is left of a directory itself only.                             *)
LEMMA SomethingLeft ==
  ASSUME NEW d \in Seq(Names), NEW p \in Seq(Names), Tree!Under(d, p), p # d
  PROVE  Tree!Relative(d, p) # <<>>
<1> DEFINE k == Len(d)
<1>1. k \in Nat /\ Len(p) \in Nat /\ (d = <<>> <=> k = 0)
  OBVIOUS
<1>2. CASE d = <<>>
  BY <1>2 DEF Tree!Relative
<1>3. CASE d # <<>>
  <2>1. k \in Nat \ {0} /\ k <= Len(p) /\ p # <<>>
    BY <1>1, <1>3 DEF Tree!Under
  <2> DEFINE rest == SubSeq(p, k + 1, Len(p))
  <2>2. rest \in Seq(Names) /\ (Len(p) > k => Len(rest) > 0)
    <3>1. /\ k + 1 \in Int /\ Len(p) \in Int /\ \A i \in k + 1..Len(p) : p[i] \in Names
      BY <1>1
    <3>2. /\ rest \in Seq(Names)
          /\ Len(rest) = IF k + 1 <= Len(p) THEN Len(p) - (k + 1) + 1 ELSE 0
      <4> HIDE DEF k
      <4> QED
        BY <3>1, SubSeqProperties
    <3> QED
      BY <1>1, <3>2
  <2> HIDE DEF rest
  <2>3. CASE SubSeq(p, 1, k - 1) = SubSeq(d, 1, k - 1) /\ p[k] = d[k]
    <3>1. Len(p) # k
      <4> SUFFICES ASSUME Len(p) = k PROVE FALSE
        OBVIOUS
      <4> DEFINE s == SubSeq(p, 1, k - 1)
                 t == SubSeq(d, 1, k - 1)
      <4>1. k - 1 \in 0..Len(p) /\ k - 1 \in 0..Len(d)
        BY <2>1
      <4>2. /\ \A i \in 1..k - 1 : s[i] = p[i]
            /\ \A i \in 1..k - 1 : t[i] = d[i]
        BY <4>1, Beginning
      <4>3. s = t
        BY <2>3
      <4> HIDE DEF s, t
      <4>4. \A i \in 1..k : i \in 1..k - 1 \/ i = k
        BY <2>1
      <4>5. \A i \in 1..k : p[i] = d[i]
        BY <2>3, <4>2, <4>3, <4>4
      <4> QED
        BY <4>5, SeqEqual
    <3>2. rest # <<>>
      BY <2>1, <2>2, <3>1
    <3>3. Tree!Relative(d, p) = rest
      BY <2>1, <2>3 DEF Tree!Relative, rest
    <3> QED
      BY <3>2, <3>3
  <2>4. CASE ~(SubSeq(p, 1, k - 1) = SubSeq(d, 1, k - 1) /\ p[k] = d[k])
    <3> DEFINE x == <<Rest[<<d[k], p[k]>>]>>
    <3>1. Tree!Relative(d, p) = p \/ Tree!Relative(d, p) = x \o rest
      BY <2>1, <2>4 DEF Tree!Relative, rest
    <3>2. x \o rest # <<>>
      <4> DEFINE N == Names \cup {Rest[<<d[k], p[k]>>]}
      <4>1. x \in Seq(N) /\ Len(x) = 1
        OBVIOUS
      <4>2. rest \in Seq(N) /\ Len(rest) \in Nat
        BY <2>2, SeqMonotonic
      <4> HIDE DEF x, N
      <4>3. Len(x \o rest) = Len(x) + Len(rest)
        BY <4>1, <4>2, ConcatProperties
      <4> QED
        BY <4>1, <4>2, <4>3
    <3> QED
      BY <2>1, <3>1, <3>2
  <2> QED
    BY <2>3, <2>4
<1> QED
  BY <1>2, <1>3

(* The part of a path below its directory, as far as the answers use it.   *)
LEMMA RelativeOfPrefix ==
  ASSUME NEW d \in Seq(Names), NEW p \in Seq(Names), Prefix(d, p)
  PROVE  /\ Tree!Relative(d, p) \in Seq(Names)
         /\ Len(Tree!Relative(d, p)) = Len(p) - Len(d)
         /\ Len(p) > Len(d) => Tree!Relative(d, p)[1] = p[Len(d) + 1]
<1>1. Len(d) \in Nat /\ Len(p) \in Nat /\ Len(d) <= Len(p)
  BY DEF Prefix
<1>2. CASE Len(d) = 0
  BY <1>1, <1>2 DEF Tree!Relative
<1>3. CASE Len(d) > 0
  <2>1. SubSeq(p, 1, Len(d) - 1) = SubSeq(d, 1, Len(d) - 1)
    <3>1. Len(d) - 1 \in 0..Len(d) /\ Len(d) - 1 \in 0..Len(p)
      BY <1>1, <1>3
    <3> DEFINE s == SubSeq(p, 1, Len(d) - 1)
               t == SubSeq(d, 1, Len(d) - 1)
    <3>2. /\ s \in Seq(Names) /\ t \in Seq(Names) /\ Len(s) = Len(d) - 1 /\ Len(t) = Len(d) - 1
          /\ \A i \in 1..Len(d) - 1 : s[i] = p[i] /\ t[i] = d[i]
      BY <3>1, Beginning
    <3>3. \A i \in 1..Len(s) : s[i] = t[i]
      BY <1>1, <3>2 DEF Prefix
    <3> HIDE DEF s, t
    <3>4. s = t
      BY <3>2, <3>3, SeqEqual
    <3> QED
      BY <3>4 DEF s, t
  <2>2. p[Len(d)] = d[Len(d)]
    BY <1>1, <1>3 DEF Prefix
  <2>3. Tree!Relative(d, p) = SubSeq(p, Len(d) + 1, Len(p))
    BY <1>3, <2>1, <2>2 DEF Tree!Relative
  <2>4. /\ SubSeq(p, Len(d) + 1, Len(p)) \in Seq(Names)
        /\ Len(SubSeq(p, Len(d) + 1, Len(p))) = IF Len(d) + 1 <= Len(p) THEN Len(p) - (Len(d) + 1) + 1 ELSE 0
        /\ \A i \in 1..Len(p) - (Len(d) + 1) + 1 :
             SubSeq(p, Len(d) + 1, Len(p))[i] = p[Len(d) + 1 + i - 1]
    <3>1. Len(d) + 1 \in Int /\ Len(p) \in Int /\ \A i \in Len(d) + 1..Len(p) : p[i] \in Names
      BY <1>1
    <3> QED
      BY <3>1, SubSeqProperties
  <2>5. Len(p) > Len(d) => 1 \in 1..Len(p) - (Len(d) + 1) + 1 /\ Len(d) + 1 + 1 - 1 = Len(d) + 1
    BY <1>1
  <2> QED
    BY <1>1, <2>3, <2>4, <2>5
<1> QED
  BY <1>1, <1>2, <1>3

(* The same for names that LIKE confuses.                                  *)
AnyNames == Names \cup {Rest[x] : x \in DOMAIN Rest}

LEMMA RelativeType ==
  ASSUME NEW d \in Seq(Names), NEW p \in Seq(Names), Tree!Under(d, p)
  PROVE  Tree!Relative(d, p) \in Seq(AnyNames)
<1> DEFINE k == Len(d)
<1>1. p \in Seq(AnyNames) /\ k \in Nat /\ Len(p) \in Nat
  BY SeqMonotonic DEF AnyNames
<1>2. SubSeq(p, k + 1, Len(p)) \in Seq(AnyNames)
  <2>1. k + 1 \in Int /\ Len(p) \in Int /\ \A i \in k + 1..Len(p) : p[i] \in AnyNames
    BY <1>1
  <2> HIDE DEF k
  <2> QED
    BY <2>1, SubSeqProperties
<1>3. CASE <<d[k], p[k]>> \in DOMAIN Rest
  <2> DEFINE x == <<Rest[<<d[k], p[k]>>]>>
  <2>1. x \in Seq(AnyNames)
    BY <1>3 DEF AnyNames
  <2>2. x \o SubSeq(p, k + 1, Len(p)) \in Seq(AnyNames)
    <3> HIDE DEF x, k
    <3> QED
      BY <1>2, <2>1, ConcatProperties
  <2> QED
    BY <1>1, <1>2, <2>2 DEF Tree!Relative
<1>4. CASE <<d[k], p[k]>> \notin DOMAIN Rest
  BY <1>1, <1>2, <1>4 DEF Tree!Relative
<1> QED
  BY <1>3, <1>4

-----------------------------------------------------------------------------
(* The children of a directory.                                            *)
Rel(d, r) == Tree!Relative(d, r.path)

LEMMA PathsAreSequences ==
  ASSUME FilesOK, NEW r \in files
  PROVE  r.path \in Paths /\ r.path \in Seq(Names) /\ r.path # <<>>
BY TreeAssumption DEF FilesOK

LEMMA SizesAreNumbers ==
  ASSUME FilesOK, NEW r \in files
  PROVE  r.size \in Nat
<1>1. r.size \in Sizes
  BY DEF FilesOK
<1>2. Sizes \subseteq Nat
  BY TreeAssumption
<1> QED
  BY <1>1, <1>2

LEMMA ChildrenAre ==
  ASSUME FilesOK, NEW d \in Seq(Names),
         NEW rows \in SUBSET files, \A r \in rows : Tree!Under(d, r.path)
  PROVE  /\ \A r \in rows : Rel(d, r) \in Seq(AnyNames)
         /\ \A e \in Tree!Children(d, rows) : \E r \in rows :
              /\ Rel(d, r) # <<>> /\ e.name = Head(Rel(d, r)) /\ e.isDir = (Len(Rel(d, r)) > 1)
              /\ ~e.isDir => e.size = r.size
         /\ \A r \in rows : Rel(d, r) # <<>> =>
              \E e \in Tree!Children(d, rows), q \in rows :
                /\ Rel(d, q) # <<>> /\ Head(Rel(d, q)) = Head(Rel(d, r))
                /\ e.name = Head(Rel(d, r)) /\ e.isDir = (Len(Rel(d, q)) > 1)
<1> DEFINE Below == {r \in rows : Rel(d, r) # <<>>}
           Of(n) == {q \in Below : Head(Rel(d, q)) = n}
           E(n) == Tree!Entry(n, Rel(d, Tree!First(Of(n))), Tree!First(Of(n)).size)
<1>1. ASSUME NEW r \in rows
      PROVE  Rel(d, r) \in Seq(AnyNames)
  BY PathsAreSequences, RelativeType DEF Rel
<1>2. Tree!Children(d, rows) = {E(n) : n \in {Head(Rel(d, r)) : r \in Below}}
  BY DEF Tree!Children, Rel
<1>3. ASSUME NEW n \in {Head(Rel(d, r)) : r \in Below}
      PROVE  Tree!First(Of(n)) \in Of(n)
  <2>1. Of(n) # {} /\ Of(n) \in SUBSET files
    BY <1>3
  <2> HIDE DEF Of
  <2> QED
    BY <2>1, FirstIsIn
<1>4. ASSUME NEW n
      PROVE  /\ E(n).name = n /\ E(n).isDir = (Len(Rel(d, Tree!First(Of(n)))) > 1)
             /\ ~E(n).isDir => E(n).size = Tree!First(Of(n)).size
  BY DEF Tree!Entry
<1> HIDE DEF E
<1>5. ASSUME NEW e \in Tree!Children(d, rows)
      PROVE  \E r \in rows :
               /\ Rel(d, r) # <<>> /\ e.name = Head(Rel(d, r)) /\ e.isDir = (Len(Rel(d, r)) > 1)
               /\ ~e.isDir => e.size = r.size
  <2>1. PICK n \in {Head(Rel(d, r)) : r \in Below} : e = E(n)
    BY <1>2
  <2> DEFINE q == Tree!First(Of(n))
  <2>2. q \in Of(n)
    BY <1>3
  <2>3. q \in rows /\ Rel(d, q) # <<>> /\ Head(Rel(d, q)) = n
    BY <2>2
  <2>4. e.name = n /\ e.isDir = (Len(Rel(d, q)) > 1) /\ (~e.isDir => e.size = q.size)
    BY <1>4, <2>1
  <2> HIDE DEF q
  <2> QED
    BY <2>3, <2>4
<1>6. ASSUME NEW r \in rows, Rel(d, r) # <<>>
      PROVE  \E e \in Tree!Children(d, rows), q \in rows :
               /\ Rel(d, q) # <<>> /\ Head(Rel(d, q)) = Head(Rel(d, r))
               /\ e.name = Head(Rel(d, r)) /\ e.isDir = (Len(Rel(d, q)) > 1)
  <2> DEFINE n == Head(Rel(d, r))
             q == Tree!First(Of(n))
  <2>1. n \in {Head(Rel(d, p)) : p \in Below}
    BY <1>6
  <2>2. q \in Of(n)
    BY <1>3, <2>1
  <2>3. q \in rows /\ Rel(d, q) # <<>> /\ Head(Rel(d, q)) = Head(Rel(d, r))
    BY <2>2
  <2>4. E(n) \in Tree!Children(d, rows)
    BY <1>2, <2>1
  <2>5. E(n).name = n /\ E(n).isDir = (Len(Rel(d, q)) > 1)
    BY <1>4
  <2> HIDE DEF q
  <2> QED
    BY <2>3, <2>4, <2>5
<1> QED
  BY <1>1, <1>5, <1>6

LEMMA KeptAreRows ==
  ASSUME FilesOK, NEW kept \in SUBSET files
  PROVE  Tree!KeepLargest(kept) \subseteq kept
<1> SUFFICES ASSUME NEW i \in {r.item : r \in kept}
             PROVE  Tree!Largest({r \in kept : r.item = i}) \in kept
  BY DEF Tree!KeepLargest
<1> DEFINE S == {r \in kept : r.item = i}
<1>1. S # {} /\ S \in SUBSET files
  OBVIOUS
<1>2. Tree!Largest(S) \in S
  <2> HIDE DEF S
  <2> QED
    BY <1>1, LargestIsIn
<1> QED
  BY <1>2

LEMMA FilteredAreRows ==
  ASSUME FilesOK, NEW view, NEW rows \in SUBSET files
  PROVE  Tree!Filtered(view, rows) \in SUBSET rows
<1>1. \A kept \in SUBSET files : Tree!KeepLargest(kept) \subseteq kept
  BY KeptAreRows
<1>2. \A f : Tree!Matching(f, rows) \in SUBSET rows
  BY DEF Tree!Matching
<1>3. \A f : Tree!Apply(f, rows) \in SUBSET rows
  BY <1>1, <1>2 DEF Tree!Apply
<1> QED
  BY <1>3 DEF Tree!Filtered

LEMMA DirectoriesAreSequences ==
  Tree!Dirs \cup Paths \subseteq Seq(Names)
<1>1. Paths \subseteq Seq(Names)
  BY TreeAssumption
<1>2. ASSUME NEW p \in Paths, NEW k \in 0..Len(p) - 1
      PROVE  SubSeq(p, 1, k) \in Seq(Names)
  <2>1. p \in Seq(Names) /\ k \in 0..Len(p)
    BY <1>1, <1>2
  <2> QED
    BY <2>1, Beginning
<1> QED
  BY <1>1, <1>2 DEF Tree!Dirs

(* The rows of a directory, and those that a view shows of them.           *)
LEMMA RowsOfDirectory ==
  ASSUME FilesOK, NEW view, NEW d \in Seq(Names)
  PROVE  /\ Tree!ListDir(d) = {r \in Primaries : Tree!Under(d, r.path)}
         /\ Tree!Filtered(view, Tree!ListDir(d)) \in SUBSET Tree!ListDir(d)
         /\ Tree!Filtered(view, Tree!ListDir(d)) \in SUBSET files
         /\ \A r \in Tree!Filtered(view, Tree!ListDir(d)) : Tree!Under(d, r.path)
<1>1. Tree!ListDir(d) = {r \in Primaries : Tree!Under(d, r.path)}
  BY DEF Tree!ListDir, Primaries
<1>2. Tree!ListDir(d) \in SUBSET files
  BY <1>1 DEF Primaries
<1>3. Tree!Filtered(view, Tree!ListDir(d)) \in SUBSET Tree!ListDir(d)
  BY <1>2, FilteredAreRows
<1> QED
  BY <1>1, <1>2, <1>3

-----------------------------------------------------------------------------
(* What a listing shows of its entries to tell them apart.                 *)
Kinds(entries) == {<<e.name, e.isDir>> : e \in entries}

LEMMA KindsEqual ==
  ASSUME NEW A, NEW B,
         \A a \in A : \E b \in B : b.name = a.name /\ b.isDir = a.isDir,
         \A b \in B : \E a \in A : b.name = a.name /\ b.isDir = a.isDir
  PROVE  Kinds(A) = Kinds(B)
<1>1. ASSUME NEW a \in A
      PROVE  <<a.name, a.isDir>> \in Kinds(B)
  BY DEF Kinds
<1>2. ASSUME NEW b \in B
      PROVE  <<b.name, b.isDir>> \in Kinds(A)
  BY DEF Kinds
<1> QED
  BY <1>1, <1>2 DEF Kinds

(* The last answer is that of its handler, to the table as it is.  At the  *)
(* root of all views the sizes are left out.                               *)
Listed(view, dir) ==
  /\ answer.kind \in {"propfind", "listing"}
  /\ answer.entries = Tree!Multistatus(view, dir)

Browsed(view, dir) ==
  /\ answer.kind = "http"
  /\ IF view = Tree!Root /\ dir = <<>> THEN Kinds(answer.entries) = Kinds(Tree!Synthetic)
     ELSE answer.entries = Tree!HTTPEntries(view, dir)

AnswerInv ==
  \/ answer = Tree!None
  \/ \E view \in Tree!Views, dir \in Tree!Dirs \cup Paths :
       /\ answer.view = view /\ answer.dir = dir
       /\ \/ answer.kind \in {"file", "not found"}
          \/ Listed(view, dir)
          \/ Browsed(view, dir)

ListingInv == FilesOK /\ TableOK /\ AnswerInv

LEMMA ListingInitially ==
  ASSUME Tree!Init
  PROVE  ListingInv
<1>1. Cardinality(Items) \in Nat /\ Tree!Cardinality(Items) = Cardinality(Items)
  BY FS_CardinalityType, TreeCardinality, TreeAssumption
<1>2. files \subseteq [item : Items, path : Paths, size : Sizes, id : 1..Tree!Cardinality(Items)]
  <2> DEFINE Rows == [item : Items, path : Paths, size : Sizes, id : 1..Tree!Cardinality(Items)]
  <2>1. files \in {{f[k] : k \in 1..HasAll} : f \in [1..HasAll -> Rows]}
    BY DEF Tree!Init, Tree!Tables
  <2> HIDE DEF Rows
  <2>2. PICK f \in [1..HasAll -> Rows] : files = {f[k] : k \in 1..HasAll}
    BY <2>1
  <2>3. files \subseteq Rows
    BY <2>2
  <2> QED
    BY <2>3 DEF Rows
<1>3. IsFiniteSet(files) /\ Cardinality(files) <= HasAll
  <2> DEFINE Rows == [item : Items, path : Paths, size : Sizes, id : 1..Tree!Cardinality(Items)]
             L == 1..HasAll
  <2>1. HasAll \in Nat /\ IsFiniteSet(L) /\ Cardinality(L) = HasAll
    BY TreeAssumption, FS_Interval
  <2>2. files \in {{f[k] : k \in 1..HasAll} : f \in [1..HasAll -> Rows]}
    BY DEF Tree!Init, Tree!Tables
  <2> HIDE DEF Rows
  <2>3. PICK f \in [L -> Rows] : files = {f[k] : k \in L}
    BY <2>2
  <2> HIDE DEF L
  <2>4. f \in Surjection(L, files)
    BY <2>3 DEF Surjection
  <2> QED
    BY <2>1, <2>4, FS_Surjection
<1>4. Tree!Legal(files)
  BY DEF Tree!Init, Tree!Tables
<1> QED
  BY <1>1, <1>2, <1>3, <1>4 DEF ListingInv, FilesOK, TableOK, AnswerInv, Tree!Init

LEMMA TopEntries ==
  Kinds({[name |-> m, isDir |-> TRUE, size |-> Tree!Totals(m)] : m \in {Tree!All} \cup Mounts})
    = Kinds(Tree!Synthetic)
<1> DEFINE H(m) == [name |-> m, isDir |-> TRUE, size |-> Tree!Totals(m)]
           W(m) == Tree!Entry(m, <<m, "">>, 0)
           Ms == {Tree!All} \cup Mounts
<1>1. ASSUME NEW m
      PROVE  H(m).name = m /\ H(m).isDir = TRUE /\ W(m).name = m /\ W(m).isDir = TRUE
  <2>1. Len(<<m, "">>) > 1
    OBVIOUS
  <2> QED
    BY <2>1 DEF Tree!Entry
<1>2. Tree!Synthetic = {W(m) : m \in Ms}
  BY DEF Tree!Synthetic
<1> HIDE DEF H, W, Ms
<1>3. ASSUME NEW a \in {H(m) : m \in Ms}
      PROVE  \E b \in {W(m) : m \in Ms} : b.name = a.name /\ b.isDir = a.isDir
  <2>1. PICK m \in Ms : a = H(m)
    OBVIOUS
  <2>2. W(m) \in {W(k) : k \in Ms} /\ W(m).name = a.name /\ W(m).isDir = a.isDir
    BY <1>1, <2>1
  <2> QED
    BY <2>2
<1>4. ASSUME NEW b \in {W(m) : m \in Ms}
      PROVE  \E a \in {H(m) : m \in Ms} : b.name = a.name /\ b.isDir = a.isDir
  <2>1. PICK m \in Ms : b = W(m)
    OBVIOUS
  <2>2. H(m) \in {H(k) : k \in Ms} /\ b.name = H(m).name /\ b.isDir = H(m).isDir
    BY <1>1, <2>1
  <2> QED
    BY <2>2
<1>5. Kinds({H(m) : m \in Ms}) = Kinds(Tree!Synthetic)
  BY <1>2, <1>3, <1>4, KindsEqual
<1> QED
  BY <1>5 DEF H, Ms

LEMMA ListingStep ==
  ASSUME ListingInv, [Tree!Next]_(Tree!vars)
  PROVE  ListingInv'
<1>1. UNCHANGED files /\ FilesOK' /\ TableOK'
  BY DEF ListingInv, FilesOK, TableOK, Tree!Next, Tree!vars
<1> USE <1>1
<1>2. ASSUME NEW view, NEW dir
      PROVE  /\ Tree!Multistatus(view, dir)' = Tree!Multistatus(view, dir)
             /\ Tree!HTTPEntries(view, dir)' = Tree!HTTPEntries(view, dir)
  <2>1. \A d : Tree!ListDir(d)' = Tree!ListDir(d)
    BY DEF Tree!ListDir
  <2>2. Tree!Multistatus(view, dir)' = Tree!Multistatus(view, dir)
    BY <2>1 DEF Tree!Multistatus
  <2>3. Tree!HTTPEntries(view, dir)' = Tree!HTTPEntries(view, dir)
    BY <2>1 DEF Tree!HTTPEntries, Tree!HTTPRows
  <2> QED
    BY <2>2, <2>3
<1>3. ASSUME NEW view \in Tree!Views, NEW dir \in Tree!Dirs \cup Paths,
             Tree!Propfind(view, dir) \/ Tree!Get(view, dir) \/ Tree!Browse(view, dir)
      PROVE  AnswerInv'
  <2>1. CASE Tree!Propfind(view, dir)
    <3>1. Listed(view, dir)' /\ answer'.view = view /\ answer'.dir = dir
      BY <1>2, <2>1 DEF Tree!Propfind, Listed
    <3> QED
      BY <3>1 DEF AnswerInv
  <2>2. CASE Tree!Get(view, dir)
    <3>1. /\ answer'.view = view /\ answer'.dir = dir
          /\ answer'.kind \in {"file", "not found"} \/ Listed(view, dir)'
      BY <1>2, <2>2 DEF Tree!Get, Listed
    <3> QED
      BY <3>1 DEF AnswerInv
  <2>3. CASE Tree!Browse(view, dir)
    <3> DEFINE Tops == {[name |-> m, isDir |-> TRUE, size |-> Tree!Totals(m)] : m \in {Tree!All} \cup Mounts}
    <3>1. Kinds(Tops) = Kinds(Tree!Synthetic)
      BY TopEntries
    <3>2. answer'.kind = "http" /\ answer'.entries = Tops => Kinds(answer'.entries) = Kinds(Tree!Synthetic)
      BY <3>1
    <3>3. /\ answer'.view = view /\ answer'.dir = dir
          /\ answer'.kind \in {"file", "not found"} \/ Browsed(view, dir)'
      BY <1>2, <2>3, <3>2 DEF Tree!Browse, Browsed, Kinds
    <3> QED
      BY <3>3 DEF AnswerInv
  <2> QED
    BY <1>3, <2>1, <2>2, <2>3
<1>4. ASSUME UNCHANGED answer
      PROVE  AnswerInv'
  <2>1. ASSUME NEW view, NEW dir
        PROVE  (Listed(view, dir) => Listed(view, dir)') /\ (Browsed(view, dir) => Browsed(view, dir)')
    BY <1>2, <1>4 DEF Listed, Browsed
  <2>2. CASE answer = Tree!None
    BY <1>4, <2>2 DEF AnswerInv
  <2>3. ASSUME NEW view \in Tree!Views, NEW dir \in Tree!Dirs \cup Paths,
               answer.view = view, answer.dir = dir,
               answer.kind \in {"file", "not found"} \/ Listed(view, dir) \/ Browsed(view, dir)
        PROVE  AnswerInv'
    <3>1. answer'.kind \in {"file", "not found"} \/ Listed(view, dir)' \/ Browsed(view, dir)'
      BY <1>4, <2>1, <2>3
    <3> QED
      BY <1>4, <2>3, <3>1 DEF AnswerInv
  <2> QED
    BY <2>2, <2>3 DEF ListingInv, AnswerInv
<1> QED
  BY <1>1, <1>3, <1>4 DEF ListingInv, Tree!Next, Tree!vars

LEMMA NamesLeft ==
  ASSUME NEW s \in Seq(AnyNames)
  PROVE  /\ s # <<>> => Len(s) > 1 \/ Len(s) = 1
         /\ Len(s) = 1 => s # <<>> /\ Tree!Last(s) = Head(s) /\ ~(Len(s) > 1)
         /\ Len(s) > 1 => s # <<>>
<1>1. Len(s) \in Nat /\ (s = <<>> <=> Len(s) = 0)
  OBVIOUS
<1>2. CASE Len(s) = 1
  <2>1. Tree!Last(s) = s[1] /\ Head(s) = s[1]
    BY <1>2 DEF Tree!Last
  <2> QED
    BY <1>1, <1>2, <2>1
<1>3. CASE Len(s) # 1
  BY <1>1, <1>3
<1> QED
  BY <1>2, <1>3

(* The browser's entries, as names and kinds.                              *)
LEMMA BrowserEntries ==
  ASSUME FilesOK, NEW view, NEW d \in Seq(Names)
  PROVE  LET rows == Tree!Filtered(view, Tree!ListDir(d)) IN
         /\ \A e \in Tree!HTTPEntries(view, d) : \E r \in rows :
              /\ Rel(d, r) # <<>> /\ e.name = Head(Rel(d, r)) /\ e.isDir = (Len(Rel(d, r)) > 1)
              /\ ~e.isDir => e.size = r.size
         /\ \A r \in rows : Rel(d, r) # <<>> =>
              \E e \in Tree!HTTPEntries(view, d) :
                e.name = Head(Rel(d, r)) /\ e.isDir = (Len(Rel(d, r)) > 1)
<1> DEFINE rows == Tree!Filtered(view, Tree!ListDir(d))
           deep == {r \in rows : Len(Rel(d, r)) > 1}
           flat == {r \in rows : Len(Rel(d, r)) = 1}
           D(n) == [name |-> n, isDir |-> TRUE,
                    size |-> Tree!SumSizes({r \in deep : Head(Rel(d, r)) = n})]
           F(r) == [name |-> Tree!Last(Rel(d, r)), isDir |-> FALSE, size |-> r.size]
<1>1. \A r \in rows : Rel(d, r) \in Seq(AnyNames)
  BY RowsOfDirectory, ChildrenAre
<1>2. Tree!HTTPEntries(view, d) = {D(n) : n \in {Head(Rel(d, r)) : r \in deep}} \cup {F(r) : r \in flat}
  BY DEF Tree!HTTPEntries, Tree!HTTPRows, Rel
<1>3. \A n : D(n).name = n /\ D(n).isDir = TRUE
  OBVIOUS
<1> HIDE DEF rows
<1>4. ASSUME NEW r \in flat
      PROVE  /\ Rel(d, r) # <<>> /\ F(r).name = Head(Rel(d, r))
             /\ F(r).isDir = FALSE /\ (Len(Rel(d, r)) > 1) = FALSE /\ F(r).size = r.size
  <2>1. Rel(d, r) \in Seq(AnyNames) /\ Len(Rel(d, r)) = 1
    BY <1>1
  <2>2. /\ Rel(d, r) # <<>> /\ Tree!Last(Rel(d, r)) = Head(Rel(d, r))
        /\ (Len(Rel(d, r)) > 1) = FALSE
    BY <2>1, NamesLeft
  <2> QED
    BY <2>2
<1>5. \A r \in deep : Rel(d, r) # <<>> /\ (Len(Rel(d, r)) > 1) = TRUE
  BY <1>1, NamesLeft
<1>6. ASSUME NEW r \in rows, Rel(d, r) # <<>>
      PROVE  r \in deep \/ r \in flat
  <2>1. Rel(d, r) \in Seq(AnyNames)
    BY <1>1
  <2>2. Len(Rel(d, r)) > 1 \/ Len(Rel(d, r)) = 1
    BY <1>6, <2>1, NamesLeft
  <2> QED
    BY <2>2
<1>7. ASSUME NEW e \in Tree!HTTPEntries(view, d)
      PROVE  \E r \in rows :
               /\ Rel(d, r) # <<>> /\ e.name = Head(Rel(d, r)) /\ e.isDir = (Len(Rel(d, r)) > 1)
               /\ ~e.isDir => e.size = r.size
  <2> HIDE DEF D, F
  <2>1. CASE \E r \in deep : e = D(Head(Rel(d, r)))
    BY <1>3, <1>5, <2>1
  <2>2. CASE \E r \in flat : e = F(r)
    BY <1>4, <2>2
  <2> QED
    BY <1>2, <2>1, <2>2
<1>8. ASSUME NEW r \in rows, Rel(d, r) # <<>>
      PROVE  \E e \in Tree!HTTPEntries(view, d) :
               e.name = Head(Rel(d, r)) /\ e.isDir = (Len(Rel(d, r)) > 1)
  <2> HIDE DEF D, F
  <2>1. CASE r \in deep
    <3>1. D(Head(Rel(d, r))) \in Tree!HTTPEntries(view, d)
      BY <1>2, <2>1
    <3> QED
      BY <1>3, <2>1, <3>1
  <2>2. CASE r \in flat
    <3>1. F(r) \in Tree!HTTPEntries(view, d)
      BY <1>2, <2>2
    <3> QED
      BY <1>4, <2>2, <3>1
  <2> QED
    BY <1>6, <1>8, <2>1, <2>2
<1> HIDE DEF deep, flat, D, F
<1>9. /\ \A e \in Tree!HTTPEntries(view, d) : \E r \in rows :
           /\ Rel(d, r) # <<>> /\ e.name = Head(Rel(d, r)) /\ e.isDir = (Len(Rel(d, r)) > 1)
           /\ ~e.isDir => e.size = r.size
      /\ \A r \in rows : Rel(d, r) # <<>> =>
           \E e \in Tree!HTTPEntries(view, d) :
             e.name = Head(Rel(d, r)) /\ e.isDir = (Len(Rel(d, r)) > 1)
  BY <1>7, <1>8
<1> QED
  BY ONLY <1>9 DEF rows

(* WebDAV and the browser show the same tree, however LIKE confuses the    *)
(* names, as long as none of a directory's entries is both a file and a    *)
(* directory (propfind.go:140-190, http_browser.go:105-180).               *)
THEOREM ViewsAlwaysAgree ==
  ASSUME \A d \in Tree!Dirs \cup Paths : SameKind(d)
  PROVE  Tree!Spec => []Tree!ViewsAgree
<1>1. ListingInv => Tree!ViewsAgree
  <2> SUFFICES ASSUME ListingInv, answer.kind = "http"
               PROVE  Kinds(answer.entries) = Kinds(Tree!Multistatus(answer.view, answer.dir))
    BY DEF Tree!ViewsAgree, Kinds
  <2>1. PICK view \in Tree!Views, d \in Tree!Dirs \cup Paths :
          answer.view = view /\ answer.dir = d /\ Browsed(view, d)
    BY DEF ListingInv, AnswerInv, Tree!None, Listed
  <2>2. CASE view = Tree!Root /\ d = <<>>
    BY <2>1, <2>2 DEF Browsed, Tree!Multistatus
  <2>3. CASE ~(view = Tree!Root /\ d = <<>>)
    <3> DEFINE rows == Tree!Filtered(view, Tree!ListDir(d))
    <3>1. d \in Seq(Names) /\ SameKind(d)
      BY DirectoriesAreSequences
    <3>2. /\ answer.entries = Tree!HTTPEntries(view, d)
          /\ Tree!Multistatus(answer.view, answer.dir) = Tree!Children(d, rows)
      BY <2>1, <2>3 DEF Browsed, Tree!Multistatus
    <3>3. rows \in SUBSET files /\ \A r \in rows : Tree!Under(d, r.path)
      BY <3>1, RowsOfDirectory DEF ListingInv
    <3>4. /\ \A e \in Tree!HTTPEntries(view, d) : \E r \in rows :
               Rel(d, r) # <<>> /\ e.name = Head(Rel(d, r)) /\ e.isDir = (Len(Rel(d, r)) > 1)
          /\ \A r \in rows : Rel(d, r) # <<>> =>
               \E e \in Tree!HTTPEntries(view, d) :
                 e.name = Head(Rel(d, r)) /\ e.isDir = (Len(Rel(d, r)) > 1)
      BY <3>1, BrowserEntries DEF ListingInv
    <3> HIDE DEF rows
    <3>5. /\ \A e \in Tree!Children(d, rows) : \E r \in rows :
               Rel(d, r) # <<>> /\ e.name = Head(Rel(d, r)) /\ e.isDir = (Len(Rel(d, r)) > 1)
          /\ \A r \in rows : Rel(d, r) # <<>> =>
               \E e \in Tree!Children(d, rows) :
                 e.name = Head(Rel(d, r)) /\ e.isDir = (Len(Rel(d, r)) > 1)
      <4>1. /\ \A e \in Tree!Children(d, rows) : \E r \in rows :
                 Rel(d, r) # <<>> /\ e.name = Head(Rel(d, r)) /\ e.isDir = (Len(Rel(d, r)) > 1)
            /\ \A r \in rows : Rel(d, r) # <<>> =>
                 \E e \in Tree!Children(d, rows), q \in rows :
                   /\ Rel(d, q) # <<>> /\ Head(Rel(d, q)) = Head(Rel(d, r))
                   /\ e.name = Head(Rel(d, r)) /\ e.isDir = (Len(Rel(d, q)) > 1)
        BY <3>1, <3>3, ChildrenAre DEF ListingInv
      <4>2. ASSUME NEW q \in rows, NEW r \in rows,
                   Rel(d, q) # <<>>, Rel(d, r) # <<>>, Head(Rel(d, q)) = Head(Rel(d, r))
            PROVE  (Len(Rel(d, q)) > 1) = (Len(Rel(d, r)) > 1)
        <5>1. q.path \in Paths /\ r.path \in Paths /\ Tree!Under(d, q.path) /\ Tree!Under(d, r.path)
          BY <3>3, PathsAreSequences DEF ListingInv
        <5>2. Len(Rel(d, q)) > 1 <=> Len(Rel(d, r)) > 1
          BY <3>1, <4>2, <5>1 DEF SameKind, Rel
        <5> QED
          BY <5>2
      <4> QED
        BY <4>1, <4>2
    <3>6. Kinds(Tree!HTTPEntries(view, d)) = Kinds(Tree!Children(d, rows))
      <4>1. \A a \in Tree!HTTPEntries(view, d) :
              \E b \in Tree!Children(d, rows) : b.name = a.name /\ b.isDir = a.isDir
        BY <3>4, <3>5
      <4>2. \A b \in Tree!Children(d, rows) :
              \E a \in Tree!HTTPEntries(view, d) : b.name = a.name /\ b.isDir = a.isDir
        BY <3>4, <3>5
      <4> QED
        BY <4>1, <4>2, KindsEqual
    <3> QED
      BY <3>2, <3>6
  <2> QED
    BY <2>2, <2>3
<1> QED
  BY <1>1, ListingInitially, ListingStep, PTL DEF Tree!Spec

-----------------------------------------------------------------------------
(* Names that can be told apart                                            *)

(* What two paths share.                                                   *)
LEMMA PrefixOfBoth ==
  ASSUME NEW p \in Seq(Names), NEW q \in Seq(Names), Prefix(p, q), Prefix(q, p)
  PROVE  p = q
<1>1. Len(p) = Len(q)
  BY DEF Prefix
<1> QED
  BY <1>1, SeqEqual DEF Prefix

LEMMA BelowDirectory ==
  ASSUME FilesOK, NEW d \in Seq(Names), NEW r \in files, Prefix(d, r.path)
  PROVE  /\ Len(r.path) \in Nat /\ Len(d) \in Nat
         /\ Rel(d, r) # <<>> <=> Len(r.path) > Len(d)
         /\ Len(Rel(d, r)) > 1 <=> Len(r.path) > Len(d) + 1
         /\ Rel(d, r) # <<>> => Head(Rel(d, r)) = r.path[Len(d) + 1]
<1>1. r.path \in Seq(Names)
  BY PathsAreSequences
<1>2. /\ Rel(d, r) \in Seq(Names) /\ Len(Rel(d, r)) = Len(r.path) - Len(d)
      /\ Len(r.path) > Len(d) => Rel(d, r)[1] = r.path[Len(d) + 1]
  BY <1>1, RelativeOfPrefix DEF Rel
<1>3. Len(r.path) \in Nat /\ Len(d) \in Nat /\ (Rel(d, r) = <<>> <=> Len(Rel(d, r)) = 0)
      /\ Len(Rel(d, r)) \in Nat
  BY <1>1, <1>2
<1>4. Rel(d, r) # <<>> => Head(Rel(d, r)) = Rel(d, r)[1]
  BY <1>2
<1> QED
  BY <1>1, <1>2, <1>3, <1>4

LEMMA AppendedName ==
  ASSUME NEW d \in Seq(Names), NEW q \in Seq(Names), Prefix(d, q), Len(q) > Len(d)
  PROVE  LET p == Append(d, q[Len(d) + 1]) IN
         /\ p \in Seq(Names) /\ Len(p) = Len(d) + 1 /\ p # <<>> /\ Prefix(p, q)
         /\ Len(q) = Len(d) + 1 => p = q
<1> DEFINE p == Append(d, q[Len(d) + 1])
<1>1. Len(d) \in Nat /\ Len(q) \in Nat /\ q[Len(d) + 1] \in Names
  OBVIOUS
<1>2. /\ p \in Seq(Names) /\ Len(p) = Len(d) + 1
      /\ \A i \in 1..Len(d) + 1 : p[i] = IF i <= Len(d) THEN d[i] ELSE q[Len(d) + 1]
  BY <1>1
<1> HIDE DEF p
<1>3. p # <<>>
  BY <1>1, <1>2
<1>4. Prefix(p, q)
  BY <1>1, <1>2 DEF Prefix
<1>5. Len(q) = Len(d) + 1 => p = q
  BY <1>2, <1>4, SeqEqual DEF Prefix
<1> QED
  BY <1>2, <1>3, <1>4, <1>5 DEF p

(* Whatever has the name of something in a directory is of its kind.       *)
LEMMA OneKind ==
  ASSUME NoFileIsDirectory, NEW d \in Seq(Names), StraysApart(d),
         NEW p \in Paths, NEW q \in Paths, Prefix(d, p), Tree!Under(d, q),
         Tree!Relative(d, p) # <<>>, Tree!Relative(d, q) # <<>>,
         Head(Tree!Relative(d, p)) = Head(Tree!Relative(d, q))
  PROVE  Len(Tree!Relative(d, p)) > 1 <=> Len(Tree!Relative(d, q)) > 1
<1> DEFINE x == Tree!Relative(d, p)
           y == Tree!Relative(d, q)
           k == Len(d)
<1>1. p \in Seq(Names) /\ q \in Seq(Names)
  BY TreeAssumption
<1>2. x \in Seq(Names) /\ Len(x) = Len(p) - k /\ (Len(p) > k => x[1] = p[k + 1])
  BY <1>1, RelativeOfPrefix
<1>3. k \in Nat /\ Len(p) \in Nat /\ Len(p) > k /\ Head(x) = p[k + 1]
  <2>1. k \in Nat /\ Len(p) \in Nat /\ Len(x) \in Nat \ {0} /\ Head(x) = x[1]
    BY <1>1, <1>2
  <2> HIDE DEF x, k
  <2> QED
    BY <1>2, <2>1
<1>4. Prefix(d, q)
  <2> SUFFICES ASSUME Stray(d, q) PROVE FALSE
    BY DEF Stray
  <2>1. Prefix(Append(d, p[k + 1]), p)
    BY <1>1, <1>3, AppendedName
  <2> QED
    BY <1>3, <2>1 DEF StraysApart
<1>5. y \in Seq(Names) /\ Len(y) = Len(q) - k /\ (Len(q) > k => y[1] = q[k + 1])
  BY <1>1, <1>4, RelativeOfPrefix
<1>6. Len(q) \in Nat /\ Len(q) > k /\ Head(y) = q[k + 1]
  <2>1. Len(q) \in Nat /\ Len(y) \in Nat \ {0} /\ Head(y) = y[1]
    BY <1>1, <1>5
  <2> HIDE DEF y, k
  <2> QED
    BY <1>3, <1>5, <2>1
<1>7. ASSUME NEW a \in Paths, NEW b \in Paths, Prefix(d, a), Prefix(d, b),
             Len(a) = k + 1, Len(b) > k, Len(b) \in Nat, a[k + 1] = b[k + 1]
      PROVE  a = b
  <2>1. \A i \in 1..k + 1 : i \in 1..k \/ i = k + 1
    BY <1>3
  <2>2. \A i \in 1..k : a[i] = b[i]
    BY <1>7 DEF Prefix
  <2>3. Prefix(a, b)
    BY <1>3, <1>7, <2>1, <2>2 DEF Prefix
  <2> QED
    BY <2>3 DEF NoFileIsDirectory
<1>8. p[k + 1] = q[k + 1]
  BY <1>3, <1>6
<1> HIDE DEF x, y, k
<1>9. Len(p) = k + 1 => p = q
  BY <1>3, <1>4, <1>6, <1>7, <1>8
<1>10. Len(q) = k + 1 => q = p
  BY <1>3, <1>4, <1>6, <1>7, <1>8
<1>11. Len(x) > 1 <=> Len(y) > 1
  BY <1>2, <1>3, <1>5, <1>6, <1>9, <1>10
<1> QED
  BY <1>11 DEF x, y

(* A directory that a view shows has something in it that the view shows.  *)
LEMMA ShownDirectory ==
  ASSUME NoFileIsDirectory, FilesOK, NEW view,
         NEW d \in Seq(Names), NEW r \in Tree!Filtered(view, Tree!ListDir(d)),
         NEW p \in Seq(Names), Prefix(p, r.path), p # r.path
  PROVE  \E q \in Tree!Filtered(view, Tree!ListDir(p)) : Rel(p, q) # <<>>
<1>1. /\ r \in Tree!ListDir(d) /\ r \in Primaries /\ r \in files
      /\ Tree!ListDir(p) = {q \in Primaries : Tree!Under(p, q.path)}
      /\ r.path \in Paths /\ r.path \in Seq(Names)
  BY RowsOfDirectory, PathsAreSequences DEF Primaries
<1>2. r \in Tree!ListDir(p) /\ Tree!ListDir(p) \in SUBSET files
  BY <1>1, PrefixIsUnder DEF Primaries
<1>3. \A q \in Tree!ListDir(p) : Rel(p, q) # <<>>
  <2> SUFFICES ASSUME NEW q \in Tree!ListDir(p), Rel(p, q) = <<>>
               PROVE  FALSE
    OBVIOUS
  <2>1. q.path \in Paths /\ q.path \in Seq(Names) /\ Tree!Under(p, q.path)
    BY <1>1, <1>2, PathsAreSequences
  <2>2. q.path = p
    BY <2>1, SomethingLeft DEF Rel
  <2> QED
    BY <1>1, <2>1, <2>2 DEF NoFileIsDirectory
<1>4. CASE view \notin Mounts
  BY <1>2, <1>3, <1>4 DEF Tree!Filtered
<1>5. CASE view \in Mounts
  <2> DEFINE f == Filter[view]
             kept == Tree!Matching(f, Tree!ListDir(p))
             i == r.item
             S == {q \in kept : q.item = i}
  <2>1. r \in kept
    <3>1. r \in Tree!Matching(f, Tree!ListDir(d))
      <4> DEFINE before == Tree!Matching(f, Tree!ListDir(d))
      <4>1. before \in SUBSET files
        BY RowsOfDirectory DEF Tree!Matching, Primaries
      <4>2. Tree!KeepLargest(before) \subseteq before
        BY <4>1, KeptAreRows
      <4> QED
        BY <1>5, <4>2 DEF Tree!Filtered, Tree!Apply
    <3> QED
      BY <1>2, <3>1 DEF Tree!Matching
  <2>2. CASE ~f.largest
    BY <1>3, <1>5, <2>1, <2>2 DEF Tree!Filtered, Tree!Apply, Tree!Matching
  <2>3. CASE f.largest
    <3>1. S \in SUBSET files /\ S # {} /\ S \subseteq Tree!ListDir(p)
      BY <1>2, <2>1 DEF Tree!Matching
    <3>2. Tree!Largest(S) \in S
      <4> HIDE DEF S
      <4> QED
        BY <3>1, LargestIsIn
    <3>3. Tree!Largest(S) \in Tree!KeepLargest(kept)
      <4> HIDE DEF kept, i
      <4>1. i \in {q.item : q \in kept}
        BY <2>1 DEF i
      <4> QED
        BY <4>1 DEF Tree!KeepLargest
    <3>4. Tree!Filtered(view, Tree!ListDir(p)) = Tree!KeepLargest(kept)
      BY <1>5, <2>3 DEF Tree!Filtered, Tree!Apply
    <3> HIDE DEF S, kept
    <3> QED
      BY <1>3, <3>1, <3>2, <3>3, <3>4
  <2> QED
    BY <2>2, <2>3
<1> QED
  BY <1>4, <1>5

(* Whatever is below a directory that LIKE does not confuse begins with it *)
(* in truth.                                                               *)
LEMMA UnconfusedIsPrefix ==
  ASSUME FilesOK, NEW d \in Seq(Names), ~Tree!Confused(d), NEW r \in files, Tree!Under(d, r.path)
  PROVE  Prefix(d, r.path)
<1>1. r.path \in Seq(Names) /\ Len(r.path) \in Nat /\ Len(d) \in Nat
  BY PathsAreSequences
<1>2. Len(d) <= Len(r.path)
  BY <1>1 DEF Tree!Under
<1>3. SubSeq(r.path, 1, Len(d)) = d
  BY DEF Tree!Confused
<1>4. Prefix(SubSeq(r.path, 1, Len(d)), r.path)
  BY <1>1, <1>2, Beginning
<1> QED
  BY <1>3, <1>4

(* What a listing shows is served as it shows it, although the listing and *)
(* the lookup choose among the rows of a path for themselves, and          *)
(* whichever of an item's files the filter leaves out; LIKE may confuse    *)
(* the names in it, but not the directory's own (store.go:212, 243,        *)
(* propfind.go:110).                                                       *)
THEOREM ListedIsAlwaysServed ==
  ASSUME NoFileIsDirectory
  PROVE  Tree!Spec => []Tree!ListedIsServed
<1>1. ListingInv => Tree!ListedIsServed
  <2> SUFFICES ASSUME ListingInv, answer.kind \in {"propfind", "listing", "http"},
                      <<answer.view, answer.dir>> # <<Tree!Root, <<>>>>, ~Tree!Confused(answer.dir),
                      NEW e \in answer.entries
               PROVE  LET p == Append(answer.dir, e.name)
                      IN  IF e.isDir THEN Tree!Multistatus(answer.view, p) # {}
                          ELSE \E r \in Tree!GetFileByPath(p) : r.size = e.size
    BY DEF Tree!ListedIsServed
  <2>1. PICK view \in Tree!Views, d \in Tree!Dirs \cup Paths :
          /\ answer.view = view /\ answer.dir = d
          /\ Listed(view, d) \/ Browsed(view, d)
    <3>1. answer # Tree!None
      BY DEF Tree!None
    <3>2. answer.kind \notin {"file", "not found"}
      OBVIOUS
    <3> QED
      BY <3>1, <3>2 DEF ListingInv, AnswerInv
  <2> DEFINE rows == Tree!Filtered(view, Tree!ListDir(d))
  <2>2. d \in Seq(Names) /\ FilesOK /\ ~(view = Tree!Root /\ d = <<>>)
    BY <2>1, DirectoriesAreSequences DEF ListingInv
  <2>3. /\ rows \in SUBSET files /\ rows \in SUBSET Tree!ListDir(d)
        /\ \A r \in rows : Tree!Under(d, r.path)
    BY <2>2, RowsOfDirectory
  <2>4. answer.entries = Tree!Children(d, rows) \/ answer.entries = Tree!HTTPEntries(view, d)
    BY <2>1, <2>2 DEF Listed, Browsed, Tree!Multistatus
  <2>5. \A x \in Tree!HTTPEntries(view, d) : \E r \in rows :
          /\ Rel(d, r) # <<>> /\ x.name = Head(Rel(d, r)) /\ x.isDir = (Len(Rel(d, r)) > 1)
          /\ ~x.isDir => x.size = r.size
    BY <2>2, BrowserEntries
  <2> HIDE DEF rows
  <2>6. \A x \in Tree!Children(d, rows) : \E r \in rows :
          /\ Rel(d, r) # <<>> /\ x.name = Head(Rel(d, r)) /\ x.isDir = (Len(Rel(d, r)) > 1)
          /\ ~x.isDir => x.size = r.size
    BY <2>2, <2>3, ChildrenAre
  <2>7. PICK r \in rows :
          /\ Rel(d, r) # <<>> /\ e.name = Head(Rel(d, r)) /\ e.isDir = (Len(Rel(d, r)) > 1)
          /\ ~e.isDir => e.size = r.size
    BY <2>4, <2>5, <2>6
  <2>8. /\ Prefix(d, r.path) /\ Len(r.path) \in Nat /\ Len(d) \in Nat /\ Len(r.path) > Len(d)
        /\ e.isDir => Len(r.path) > Len(d) + 1
        /\ ~e.isDir => Len(r.path) = Len(d) + 1
        /\ e.name = r.path[Len(d) + 1] /\ r.path \in Seq(Names)
    <3>1. r \in files /\ Prefix(d, r.path)
      BY <2>1, <2>2, <2>3, UnconfusedIsPrefix
    <3>2. /\ Len(r.path) \in Nat /\ Len(d) \in Nat
          /\ Rel(d, r) # <<>> <=> Len(r.path) > Len(d)
          /\ Len(Rel(d, r)) > 1 <=> Len(r.path) > Len(d) + 1
          /\ Rel(d, r) # <<>> => Head(Rel(d, r)) = r.path[Len(d) + 1]
      BY <2>2, <3>1, BelowDirectory
    <3> QED
      <4>1. e.isDir <=> Len(r.path) > Len(d) + 1
        BY <2>7, <3>2
      <4>2. e.name = r.path[Len(d) + 1] /\ Len(r.path) > Len(d)
        BY <2>7, <3>2
      <4>3. r.path \in Seq(Names)
        BY <2>2, <3>1, PathsAreSequences
      <4> QED
        BY <3>1, <3>2, <4>1, <4>2, <4>3
  <2> DEFINE p == Append(d, e.name)
  <2>9. /\ p \in Seq(Names) /\ Len(p) = Len(d) + 1 /\ p # <<>> /\ Prefix(p, r.path)
        /\ Len(r.path) = Len(d) + 1 => p = r.path
    BY <2>2, <2>8, AppendedName
  <2> HIDE DEF p
  <2>10. CASE e.isDir
    <3>1. p # r.path
      BY <2>8, <2>9, <2>10
    <3>2. PICK q \in Tree!Filtered(view, Tree!ListDir(p)) : Rel(p, q) # <<>>
      BY <2>2, <2>9, <3>1, ShownDirectory DEF rows
    <3>3. /\ Tree!Filtered(view, Tree!ListDir(p)) \in SUBSET files
          /\ \A x \in Tree!Filtered(view, Tree!ListDir(p)) : Tree!Under(p, x.path)
      BY <2>2, <2>9, RowsOfDirectory
    <3>5. Tree!Children(p, Tree!Filtered(view, Tree!ListDir(p))) # {}
      <4> DEFINE below == Tree!Filtered(view, Tree!ListDir(p))
      <4>1. q \in below /\ below \in SUBSET files /\ \A x \in below : Tree!Under(p, x.path)
        BY <3>2, <3>3
      <4> HIDE DEF below
      <4>2. Tree!Children(p, below) # {}
        BY <2>2, <2>9, <3>2, <4>1, ChildrenAre
      <4> QED
        BY <4>2 DEF below
    <3>6. Tree!Multistatus(view, p) = Tree!Children(p, Tree!Filtered(view, Tree!ListDir(p)))
      BY <2>9 DEF Tree!Multistatus
    <3> QED
      BY <2>1, <2>10, <3>5, <3>6 DEF p
  <2>11. CASE ~e.isDir
    <3>1. p = r.path /\ e.size = r.size
      BY <2>7, <2>8, <2>9, <2>11
    <3>2. r \in Primaries
      BY <2>2, <2>3, RowsOfDirectory
    <3>3. r \in Tree!GetFileByPath(p)
      BY <3>1, <3>2 DEF Tree!GetFileByPath, Primaries
    <3> QED
      BY <2>1, <2>11, <3>1, <3>3 DEF p
  <2> QED
    BY <2>10, <2>11
<1> QED
  BY <1>1, ListingInitially, ListingStep, PTL DEF Tree!Spec

-----------------------------------------------------------------------------
(* What the listings of a view lead to, level by level.                    *)
LevelShown(view, p, k) ==
  \E e \in Tree!Multistatus(view, SubSeq(p, 1, k - 1)) : e.name = p[k] /\ e.isDir = (k < Len(p))

StraysAreApart == \A d \in Tree!Dirs : StraysApart(d)

LEMMA DirectoryOf ==
  ASSUME NEW p \in Paths, NEW k \in 1..Len(p)
  PROVE  LET d == SubSeq(p, 1, k - 1) IN
         /\ p \in Seq(Names) /\ Len(p) \in Nat /\ k \in Nat /\ k <= Len(p)
         /\ d \in Tree!Dirs /\ d \in Seq(Names) /\ Len(d) = k - 1
         /\ \A i \in 1..k - 1 : d[i] = p[i]
         /\ Prefix(d, p) /\ Tree!Under(d, p)
<1>1. p \in Seq(Names) /\ Len(p) \in Nat
  BY TreeAssumption
<1>2. k \in Nat /\ k <= Len(p) /\ k - 1 \in 0..Len(p) /\ k - 1 \in 0..Len(p) - 1
  BY <1>1
<1> DEFINE d == SubSeq(p, 1, k - 1)
<1>3. d \in Tree!Dirs
  BY <1>2 DEF Tree!Dirs
<1>4. /\ d \in Seq(Names) /\ Len(d) = k - 1 /\ \A i \in 1..k - 1 : d[i] = p[i]
      /\ Prefix(d, p)
  BY <1>1, <1>2, Beginning
<1> HIDE DEF d
<1>5. Tree!Under(d, p)
  BY <1>1, <1>4, PrefixIsUnder
<1> QED
  BY <1>1, <1>2, <1>3, <1>4, <1>5 DEF d

LEMMA LevelOfRow ==
  ASSUME StraysAreApart, NoFileIsDirectory, FilesOK,
         NEW view, view # Tree!Root, NEW r \in files, NEW k \in 1..Len(r.path),
         r \in Tree!Filtered(view, Tree!ListDir(SubSeq(r.path, 1, k - 1)))
  PROVE  LevelShown(view, r.path, k)
<1> DEFINE d == SubSeq(r.path, 1, k - 1)
           rows == Tree!Filtered(view, Tree!ListDir(d))
<1>1. /\ r.path \in Paths /\ r.path \in Seq(Names) /\ Len(r.path) \in Nat /\ k \in Nat
      /\ k <= Len(r.path) /\ d \in Tree!Dirs /\ d \in Seq(Names) /\ Len(d) = k - 1
      /\ Prefix(d, r.path)
  BY PathsAreSequences, DirectoryOf
<1>2. rows \in SUBSET files /\ (\A q \in rows : Tree!Under(d, q.path)) /\ r \in rows
  <2> HIDE DEF d
  <2> QED
    BY <1>1, RowsOfDirectory DEF d
<1>3. Tree!Multistatus(view, d) = Tree!Children(d, rows)
  BY DEF Tree!Multistatus
<1> HIDE DEF d, rows
<1>4. /\ Rel(d, r) # <<>> /\ Head(Rel(d, r)) = r.path[k]
      /\ Len(Rel(d, r)) > 1 <=> k < Len(r.path)
  <2>1. /\ Rel(d, r) # <<>> <=> Len(r.path) > Len(d)
        /\ Len(Rel(d, r)) > 1 <=> Len(r.path) > Len(d) + 1
        /\ Rel(d, r) # <<>> => Head(Rel(d, r)) = r.path[Len(d) + 1]
    BY <1>1, <1>2, BelowDirectory
  <2>2. Len(r.path) > Len(d) /\ Len(d) + 1 = k
    BY <1>1
  <2> QED
    BY <2>1, <2>2
<1>5. PICK e \in Tree!Children(d, rows), q \in rows :
        /\ Rel(d, q) # <<>> /\ Head(Rel(d, q)) = Head(Rel(d, r))
        /\ e.name = Head(Rel(d, r)) /\ e.isDir = (Len(Rel(d, q)) > 1)
  BY <1>1, <1>2, <1>4, ChildrenAre
<1>6. Len(Rel(d, r)) > 1 <=> Len(Rel(d, q)) > 1
  <2>1. q.path \in Paths /\ Tree!Under(d, q.path) /\ StraysApart(d)
    BY <1>1, <1>2, PathsAreSequences DEF StraysAreApart
  <2> QED
    BY <1>1, <1>4, <1>5, <2>1, OneKind DEF Rel
<1>7. e \in Tree!Multistatus(view, d) /\ e.name = r.path[k] /\ e.isDir = (k < Len(r.path))
  <2>1. (Len(Rel(d, q)) > 1) = (k < Len(r.path))
    BY <1>4, <1>6
  <2> QED
    BY <1>3, <1>4, <1>5, <2>1
<1> QED
  BY <1>7 DEF LevelShown, d

LEMMA ShownIsEveryLevel ==
  ASSUME NEW view, NEW p \in Paths
  PROVE  p \in Tree!Shown(view) <=> \A k \in 1..Len(p) : LevelShown(view, p, k)
BY DEF Tree!Shown, LevelShown

(* The last level of what is shown is a row of the file's directory.       *)
LEMMA ShownIsRow ==
  ASSUME StraysAreApart, FilesOK,
         NEW view, view # Tree!Root, NEW p \in Tree!Shown(view)
  PROVE  \E d \in Seq(Names) : \E r \in Tree!Filtered(view, Tree!ListDir(d)) : r.path = p
<1> DEFINE k == Len(p)
           d == SubSeq(p, 1, k - 1)
           rows == Tree!Filtered(view, Tree!ListDir(d))
<1>1. /\ p \in Paths /\ p \in Seq(Names) /\ k \in Nat \ {0} /\ d \in Tree!Dirs
      /\ d \in Seq(Names) /\ Len(d) = k - 1 /\ \A i \in 1..k - 1 : d[i] = p[i]
      /\ Prefix(d, p)
  <2>1. p \in Paths /\ p \in Seq(Names) /\ p # <<>>
    BY TreeAssumption DEF Tree!Shown
  <2>2. k \in Nat \ {0} /\ k \in 1..Len(p)
    BY <2>1
  <2> HIDE DEF k
  <2> QED
    BY <2>1, <2>2, DirectoryOf
<1>2. /\ rows \in SUBSET files /\ \A q \in rows : Tree!Under(d, q.path)
  <2> HIDE DEF d
  <2> QED
    BY <1>1, RowsOfDirectory
<1>3. Tree!Multistatus(view, d) = Tree!Children(d, rows)
  BY DEF Tree!Multistatus
<1>4. PICK e \in Tree!Multistatus(view, d) : e.name = p[k] /\ ~e.isDir
  <2>1. k \in 1..Len(p) /\ ~(k < Len(p))
    BY <1>1
  <2>2. LevelShown(view, p, k)
    BY <1>1, <2>1, ShownIsEveryLevel
  <2>3. PICK e \in Tree!Multistatus(view, d) : e.name = p[k] /\ e.isDir = (k < Len(p))
    BY <2>2 DEF LevelShown
  <2> QED
    BY <2>1, <2>3
<1> HIDE DEF d, rows, k
<1>5. PICK r \in rows :
        Rel(d, r) # <<>> /\ e.name = Head(Rel(d, r)) /\ e.isDir = (Len(Rel(d, r)) > 1)
  <2>1. \A x \in Tree!Children(d, rows) : \E r \in rows :
          Rel(d, r) # <<>> /\ x.name = Head(Rel(d, r)) /\ x.isDir = (Len(Rel(d, r)) > 1)
    BY <1>1, <1>2, ChildrenAre
  <2> QED
    BY <1>3, <1>4, <2>1
<1>6. r.path \in Seq(Names) /\ Prefix(d, r.path) /\ Len(r.path) = k /\ r.path[k] = p[k]
  <2>1. r \in files /\ r.path \in Paths /\ r.path \in Seq(Names) /\ Prefix(d, r.path)
    <3>1. r \in files /\ r.path \in Paths /\ r.path \in Seq(Names) /\ Tree!Under(d, r.path)
      BY <1>2, PathsAreSequences
    <3>2. Prefix(Append(d, p[k]), p)
      <4>1. Len(p) > Len(d) /\ Len(d) + 1 = k
        BY <1>1 DEF k
      <4> QED
        BY <1>1, <4>1, AppendedName
    <3>3. ~Stray(d, r.path)
      BY <1>1, <1>4, <1>5, <3>1, <3>2 DEF StraysAreApart, StraysApart, Rel
    <3> QED
      BY <3>1, <3>3 DEF Stray
  <2>2. /\ Len(r.path) \in Nat /\ Len(d) \in Nat
        /\ Rel(d, r) # <<>> <=> Len(r.path) > Len(d)
        /\ Len(Rel(d, r)) > 1 <=> Len(r.path) > Len(d) + 1
        /\ Rel(d, r) # <<>> => Head(Rel(d, r)) = r.path[Len(d) + 1]
    BY <1>1, <2>1, BelowDirectory
  <2>3. ~(Len(Rel(d, r)) > 1) /\ Len(r.path) > Len(d) /\ ~(Len(r.path) > Len(d) + 1)
    BY <1>4, <1>5, <2>2
  <2>4. Len(r.path) = k /\ Len(d) + 1 = k
    BY <1>1, <2>2, <2>3
  <2> QED
    BY <1>4, <1>5, <2>1, <2>2, <2>4
<1>7. \A i \in 1..k : r.path[i] = p[i]
  BY <1>1, <1>6 DEF Prefix
<1>8. r.path = p
  BY <1>1, <1>6, <1>7, SeqEqual DEF k
<1> QED
  BY <1>1, <1>8 DEF rows

(* What a filter accepts, in the words of the property.                    *)
LEMMA AcceptedAreMatching ==
  ASSUME FilesOK, NEW m \in Mounts
  PROVE  /\ Tree!Primaries = Primaries
         /\ Tree!Accepted(Filter[m]) = Tree!Matching(Filter[m], Primaries)
<1>1. Tree!Primaries = Primaries
  BY DEF Tree!Primaries, Primaries, Tree!GetFileByPath
<1>2. ASSUME NEW r \in Primaries
      PROVE  (/\ r.path[1] \in Filter[m].dirs /\ Tree!Between(Filter[m].min, r.size, Filter[m].max)
              /\ SubSeq(r.path, IF Len(r.path) = 1 THEN 1 ELSE 2, Len(r.path)) \in Filter[m].files)
             <=> /\ Tree!MatchDirectory(Filter[m], r.path) /\ Tree!MatchFile(Filter[m], r.path)
                 /\ Tree!MatchSize(Filter[m], r.size)
  <2>1. r.path \in Seq(Names) /\ r.path # <<>> /\ r.size \in Nat
    <3>1. r \in files
      BY DEF Primaries
    <3> QED
      BY <3>1, PathsAreSequences, SizesAreNumbers
  <2>2. r.path[1] \in Filter[m].dirs <=> Tree!MatchDirectory(Filter[m], r.path)
    BY <2>1 DEF Tree!MatchDirectory
  <2>3. Tree!Between(Filter[m].min, r.size, Filter[m].max) <=> Tree!MatchSize(Filter[m], r.size)
    <3>1. Filter[m].min \in Nat /\ Filter[m].max \in Nat
      BY TreeAssumption
    <3> QED
      BY <2>1, <3>1 DEF Tree!Between, Tree!MatchSize
  <2>4. SubSeq(r.path, IF Len(r.path) = 1 THEN 1 ELSE 2, Len(r.path))
          = IF Len(r.path) = 1 THEN r.path ELSE Tail(r.path)
    <3>1. Tail(r.path) = SubSeq(r.path, 2, Len(r.path))
      BY <2>1, TailIsSubSeq
    <3>2. SubSeq(r.path, 1, Len(r.path)) = r.path
      BY <2>1
    <3> QED
      BY <3>1, <3>2
  <2>5. Tree!MatchFile(Filter[m], r.path) <=>
          SubSeq(r.path, IF Len(r.path) = 1 THEN 1 ELSE 2, Len(r.path)) \in Filter[m].files
    BY <2>4 DEF Tree!MatchFile
  <2> QED
    BY <2>2, <2>3, <2>5
<1> QED
  BY <1>1, <1>2 DEF Tree!Accepted, Tree!Matching

(* Where a filter keeps the largest files only, some largest file of an    *)
(* item is shown a level deeper than any that is shown so far.  Of those   *)
(* of one size every level takes one of the least rank.                    *)
Same(m, i) == {q \in Tree!Best(m) : q.item = i}
RankOf(r) == Rank[Tree!Name(r)]
Foremost(m, q) == \A r \in Same(m, q.item) : RankOf(q) <= RankOf(r)
RanksAreApart(m) == \A d \in Tree!Dirs : RanksApart(m, d)

LEMMA BestAreAccepted ==
  ASSUME FilesOK, NEW m \in Mounts, NEW q \in Tree!Best(m)
  PROVE  /\ q \in Tree!Matching(Filter[m], Primaries) /\ q \in Primaries /\ q \in files
         /\ q.path \in Paths /\ q.path \in Seq(Names) /\ Len(q.path) \in Nat
         /\ \A r \in Tree!Matching(Filter[m], Primaries) : r.item = q.item => r.size <= q.size
<1>1. /\ q \in Tree!Matching(Filter[m], Primaries)
      /\ \A r \in Tree!Matching(Filter[m], Primaries) : r.item = q.item => r.size <= q.size
  BY AcceptedAreMatching DEF Tree!Best
<1>2. q \in Primaries /\ q \in files
  BY <1>1 DEF Tree!Matching, Primaries
<1> QED
  BY <1>1, <1>2, PathsAreSequences

LEMMA RanksAreNumbers ==
  ASSUME FilesOK, NEW r \in files
  PROVE  RankOf(r) \in Nat
<1>1. r.path \in Paths
  BY PathsAreSequences
<1> QED
  BY <1>1, TreeAssumption DEF RankOf, Tree!Name, Tree!Last

LEMMA LargestOfLevel ==
  ASSUME StraysAreApart, NoFileIsDirectory, FilesOK,
         NEW m \in Mounts, Filter[m].largest, RanksAreApart(m),
         NEW q \in Tree!Best(m), Foremost(m, q), NEW k \in 1..Len(q.path)
  PROVE  \E b \in Tree!Best(m) :
           /\ b.item = q.item /\ Foremost(m, b) /\ k <= Len(b.path)
           /\ \A i \in 1..k - 1 : b.path[i] = q.path[i]
           /\ LevelShown(m, b.path, k)
<1> DEFINE d == SubSeq(q.path, 1, k - 1)
           kept == Tree!Matching(Filter[m], Tree!ListDir(d))
           S == {r \in kept : r.item = q.item}
           b == Tree!Largest(S)
<1>1. /\ q \in Tree!Matching(Filter[m], Primaries) /\ q \in Primaries /\ q \in files
      /\ q.path \in Paths /\ q.path \in Seq(Names) /\ Len(q.path) \in Nat
      /\ \A r \in Tree!Matching(Filter[m], Primaries) : r.item = q.item => r.size <= q.size
  BY BestAreAccepted
<1>2. /\ d \in Seq(Names) /\ Len(d) = k - 1 /\ \A i \in 1..k - 1 : d[i] = q.path[i]
      /\ Prefix(d, q.path) /\ Tree!Under(d, q.path) /\ k \in Nat /\ d \in Tree!Dirs
  BY <1>1, DirectoryOf
<1>3. Tree!ListDir(d) = {r \in Primaries : Tree!Under(d, r.path)}
  <2> HIDE DEF d
  <2> QED
    BY <1>2, RowsOfDirectory
<1> HIDE DEF d
<1>4. q \in S /\ S \in SUBSET files /\ kept \subseteq Tree!Matching(Filter[m], Primaries)
  BY <1>1, <1>2, <1>3 DEF Tree!Matching, Primaries
<1>5. /\ b \in S /\ q.size <= b.size
      /\ (\A x \in S : x.size <= q.size) => RankOf(b) <= RankOf(q)
  <2> HIDE DEF S
  <2> QED
    BY <1>4, LargestIsIn DEF RankOf
<1>6. /\ b \in kept /\ b.item = q.item /\ b \in Tree!Matching(Filter[m], Primaries)
      /\ b \in files /\ Tree!Under(d, b.path)
  BY <1>3, <1>4, <1>5 DEF Tree!Matching
<1>15. RankOf(b) <= RankOf(q)
  <2>1. \A x \in S : x \in Tree!Matching(Filter[m], Primaries) /\ x.item = q.item
    BY <1>4
  <2> HIDE DEF S, b
  <2> QED
    BY <1>1, <1>5, <2>1
<1>7. b \in Tree!KeepLargest(kept)
  <2>1. q.item \in {r.item : r \in kept}
    BY <1>4
  <2> HIDE DEF kept
  <2> QED
    BY <2>1 DEF Tree!KeepLargest
<1>8. b \in Tree!Filtered(m, Tree!ListDir(d))
  BY <1>7 DEF Tree!Filtered, Tree!Apply
<1> HIDE DEF kept, S, b
<1>9. b \in Tree!Best(m)
  <2>1. ASSUME NEW r \in Tree!Matching(Filter[m], Primaries), r.item = b.item
        PROVE  r.size <= b.size
    <3>1. r \in files
      BY DEF Tree!Matching, Primaries
    <3>2. r.size \in Nat /\ q.size \in Nat /\ b.size \in Nat
      BY <1>1, <1>6, <3>1, SizesAreNumbers
    <3>3. r.size <= q.size
      BY <1>1, <1>6, <2>1
    <3> QED
      BY <1>5, <3>2, <3>3
  <2> QED
    BY <1>6, <2>1, AcceptedAreMatching DEF Tree!Best
<1>16. RankOf(b) = RankOf(q) /\ Foremost(m, b)
  <2>1. RankOf(q) <= RankOf(b)
    BY <1>6, <1>9 DEF Foremost, Same
  <2>2. RankOf(b) = RankOf(q)
    BY <1>1, <1>6, <1>15, <2>1, RanksAreNumbers
  <2> QED
    BY <1>6, <2>2 DEF Foremost
<1>10. b.path \in Paths /\ b.path \in Seq(Names) /\ Len(b.path) \in Nat /\ Prefix(d, b.path)
  <2>1. b.path \in Paths /\ b.path \in Seq(Names) /\ Len(b.path) \in Nat
    BY <1>6, PathsAreSequences
  <2>2. ASSUME NEW r \in {b, q}
        PROVE  Tree!MatchDirectory(Filter[m], r.path) /\ Tree!MatchFile(Filter[m], r.path)
    BY <1>1, <1>6 DEF Tree!Matching
  <2>3. Rank[b.path[Len(b.path)]] = Rank[q.path[Len(q.path)]]
    BY <1>16 DEF RankOf, Tree!Name, Tree!Last
  <2>4. ~Stray(d, b.path)
    <3>1. \A path \in {b.path, q.path} :
            Tree!MatchDirectory(Filter[m], path) /\ Tree!MatchFile(Filter[m], path)
      BY <2>2
    <3>2. RanksApart(m, d)
      BY <1>2 DEF RanksAreApart
    <3> QED
      BY <1>1, <1>2, <2>1, <2>3, <3>1, <3>2 DEF RanksApart
  <2> QED
    BY <1>6, <2>1, <2>4 DEF Stray
<1>11. k <= Len(b.path)
  <2> SUFFICES ASSUME Len(b.path) < k PROVE FALSE
    BY <1>2, <1>10
  <2>1. Len(b.path) = k - 1 /\ \A i \in 1..k - 1 : b.path[i] = q.path[i]
    BY <1>2, <1>10 DEF Prefix
  <2>2. Prefix(b.path, q.path)
    BY <1>1, <1>2, <2>1 DEF Prefix
  <2>3. b.path = q.path
    BY <1>1, <1>10, <2>2 DEF NoFileIsDirectory
  <2> QED
    BY <1>1, <2>1, <2>3
<1>12. \A i \in 1..k - 1 : b.path[i] = q.path[i]
  BY <1>2, <1>10 DEF Prefix
<1>13. SubSeq(b.path, 1, k - 1) = d
  <2> DEFINE s == SubSeq(b.path, 1, k - 1)
  <2>1. k - 1 \in 0..Len(b.path)
    BY <1>2, <1>10, <1>11
  <2>2. s \in Seq(Names) /\ Len(s) = k - 1 /\ \A i \in 1..k - 1 : s[i] = b.path[i]
    BY <1>10, <2>1, Beginning
  <2> HIDE DEF s
  <2>3. \A i \in 1..k - 1 : s[i] = d[i]
    BY <1>2, <1>12, <2>2
  <2>4. s = d
    BY <1>2, <2>2, <2>3, SeqEqual
  <2> QED
    BY <2>4 DEF s
<1>14. LevelShown(m, b.path, k)
  <2>1. m # Tree!Root /\ k \in 1..Len(b.path)
    BY <1>2, <1>10, <1>11, TreeAssumption
  <2> QED
    BY <1>6, <1>8, <1>13, <2>1, LevelOfRow
<1> QED
  BY <1>6, <1>9, <1>11, <1>12, <1>14, <1>16

(* Paths that share their beginning share what is shown of it.             *)
LEMMA SameBeginning ==
  ASSUME NEW view, NEW p \in Seq(Names), NEW q \in Seq(Names), NEW j \in Nat,
         j < Len(p), j < Len(q), \A i \in 1..j : p[i] = q[i],
         NEW k \in 1..j, LevelShown(view, p, k)
  PROVE  LevelShown(view, q, k)
<1>1. SubSeq(p, 1, k - 1) = SubSeq(q, 1, k - 1)
  <2> DEFINE s == SubSeq(p, 1, k - 1)
             t == SubSeq(q, 1, k - 1)
  <2>1. k \in Nat /\ k - 1 \in 0..Len(p) /\ k - 1 \in 0..Len(q)
    OBVIOUS
  <2>2. /\ s \in Seq(Names) /\ t \in Seq(Names) /\ Len(s) = k - 1 /\ Len(t) = k - 1
        /\ \A i \in 1..k - 1 : s[i] = p[i] /\ t[i] = q[i]
    BY <2>1, Beginning
  <2> HIDE DEF s, t
  <2>3. \A i \in 1..Len(s) : s[i] = t[i]
    BY <2>1, <2>2
  <2>4. s = t
    BY <2>2, <2>3, SeqEqual
  <2> QED
    BY <2>4 DEF s, t
<1>2. p[k] = q[k] /\ (k < Len(p)) = (k < Len(q))
  OBVIOUS
<1> QED
  BY <1>1, <1>2 DEF LevelShown

LEMMA LargestIsShown ==
  ASSUME StraysAreApart, NoFileIsDirectory, FilesOK, TableOK,
         NEW m \in Mounts, Filter[m].largest, RanksAreApart(m), NEW r \in Tree!Best(m)
  PROVE  \E q \in Tree!Best(m) : q.item = r.item /\ q.path \in Tree!Shown(m)
<1> SUFFICES ASSUME \A q \in Tree!Best(m) : q.item = r.item => q.path \notin Tree!Shown(m)
             PROVE  FALSE
  OBVIOUS
<1> DEFINE Reached(j) ==
      \E q \in Tree!Best(m) :
        /\ q.item = r.item /\ Foremost(m, q) /\ j <= Len(q.path)
        /\ \A k \in 1..j : LevelShown(m, q.path, k)
           T == {j \in Nat : ~Reached(j)}
<1>1. PICK top \in Nat : \A q \in files : Len(q.path) <= top
  <2> DEFINE f == [q \in files |-> Len(q.path)]
  <2>1. \A q \in files : Len(q.path) \in Nat
    BY PathsAreSequences
  <2>2. f \in [files -> Nat]
    BY <2>1
  <2>3. \E n \in Nat : \A q \in files : f[q] <= n
    <3> HIDE DEF f
    <3> QED
      BY <2>2, FiniteIsBounded DEF TableOK
  <2> QED
    BY <2>3
<1>2. ~Reached(top + 1)
  <2> SUFFICES ASSUME NEW q \in Tree!Best(m), top + 1 <= Len(q.path)
               PROVE  FALSE
    OBVIOUS
  <2>1. q \in files /\ Len(q.path) \in Nat
    BY BestAreAccepted
  <2> QED
    BY <1>1, <2>1
<1>3. Reached(0)
  <2> DEFINE S == Same(m, r.item)
             f == [q \in S |-> RankOf(q)]
  <2>1. S # {} /\ \A q \in S : q \in Tree!Best(m) /\ q.item = r.item
    BY DEF Same
  <2>2. \A q \in S : RankOf(q) \in Nat /\ Len(q.path) \in Nat
    BY <2>1, BestAreAccepted, RanksAreNumbers
  <2> HIDE DEF S
  <2>3. f \in [S -> Nat]
    BY <2>2
  <2>4. PICK q \in S : \A x \in S : f[q] <= f[x]
    <3> HIDE DEF f
    <3> QED
      BY <2>1, <2>3, LeastExists
  <2>5. \A x \in S : RankOf(q) <= RankOf(x)
    BY <2>4
  <2>6. Foremost(m, q)
    BY <2>1, <2>5 DEF Foremost, S
  <2>7. 0 <= Len(q.path) /\ 1..0 = {}
    BY <2>2
  <2> QED
    BY <2>1, <2>6, <2>7
<1>4. ASSUME NEW j \in Nat, Reached(j)
      PROVE  Reached(j + 1)
  <2>1. PICK q \in Tree!Best(m) : /\ q.item = r.item /\ Foremost(m, q) /\ j <= Len(q.path)
                                  /\ \A k \in 1..j : LevelShown(m, q.path, k)
    BY <1>4
  <2>2. q.path \in Paths /\ q.path \in Seq(Names) /\ Len(q.path) \in Nat
    BY BestAreAccepted
  <2>3. j < Len(q.path)
    <3> SUFFICES ASSUME j = Len(q.path) PROVE FALSE
      BY <2>1, <2>2
    <3> QED
      BY <2>1, <2>2, ShownIsEveryLevel
  <2>4. PICK b \in Tree!Best(m) :
          /\ b.item = q.item /\ Foremost(m, b) /\ j + 1 <= Len(b.path)
          /\ \A i \in 1..j : b.path[i] = q.path[i]
          /\ LevelShown(m, b.path, j + 1)
    <3>1. j + 1 \in 1..Len(q.path) /\ j + 1 - 1 = j
      BY <2>2, <2>3
    <3> QED
      BY <2>1, <3>1, LargestOfLevel
  <2>5. b.path \in Seq(Names) /\ Len(b.path) \in Nat
    BY BestAreAccepted
  <2>6. ASSUME NEW k \in 1..j
        PROVE  LevelShown(m, b.path, k)
    <3>1. j < Len(q.path) /\ j < Len(b.path) /\ \A i \in 1..j : q.path[i] = b.path[i]
      BY <2>3, <2>4, <2>5
    <3>2. LevelShown(m, q.path, k)
      BY <2>1
    <3> QED
      BY <2>2, <2>5, <3>1, <3>2, SameBeginning
  <2>7. \A k \in 1..j + 1 : LevelShown(m, b.path, k)
    <3>1. \A k \in 1..j + 1 : k \in 1..j \/ k = j + 1
      OBVIOUS
    <3> QED
      BY <2>4, <2>6, <3>1
  <2> QED
    BY <2>1, <2>4, <2>7
<1> HIDE DEF Reached
<1>5. \E j \in T : \A k \in T : j <= k
  <2> DEFINE f == [j \in T |-> j]
  <2>1. f \in [T -> Nat] /\ T # {}
    BY <1>2
  <2>2. \E j \in T : \A k \in T : f[j] <= f[k]
    <3> HIDE DEF f, T
    <3> QED
      BY <2>1, LeastExists
  <2> QED
    BY <2>2
<1>6. PICK j \in T : \A k \in T : j <= k
  BY <1>5
<1>7. j # 0
  BY <1>3
<1>8. j - 1 \in Nat /\ j - 1 \notin T
  BY <1>6, <1>7
<1>9. Reached(j - 1) /\ j - 1 + 1 = j
  BY <1>8
<1>10. Reached(j)
  BY <1>4, <1>8, <1>9
<1> QED
  BY <1>10

(* Following the listings of a view leads to all files its filter accepts  *)
(* and to no other; and to a largest file of every item, where the filter  *)
(* keeps only those, although every level picks among the rows of its own  *)
(* directory (filter.go:92-150, propfind.go:133).                          *)
THEOREM TreeIsExact ==
  ASSUME NoFileIsDirectory, \A d \in Tree!Dirs : StraysApart(d) /\ \A m \in Mounts : RanksApart(m, d)
  PROVE  Tree!Spec => []Tree!TreeExact
<1>1. ListingInv => Tree!TreeExact
  <2> SUFFICES ASSUME ListingInv PROVE Tree!TreeExact
    OBVIOUS
  <2>1. /\ FilesOK /\ TableOK /\ Tree!All # Tree!Root /\ Tree!All \notin Mounts
        /\ StraysAreApart /\ \A m \in Mounts : RanksAreApart(m)
    BY TreeAssumption DEF ListingInv, Tree!All, Tree!Root, StraysAreApart, RanksAreApart
  <2>2. ASSUME NEW r \in Primaries, NEW k \in 1..Len(r.path)
        PROVE  r \in files /\ r \in Tree!ListDir(SubSeq(r.path, 1, k - 1))
    <3>1. r \in files
      BY DEF Primaries
    <3>2. r.path \in Paths
      BY <2>1, <3>1, PathsAreSequences
    <3>3. /\ SubSeq(r.path, 1, k - 1) \in Seq(Names)
          /\ Tree!Under(SubSeq(r.path, 1, k - 1), r.path)
      BY <3>2, DirectoryOf
    <3> QED
      BY <2>1, <3>1, <3>3, RowsOfDirectory
  <2>3. Tree!Shown(Tree!All) = {r.path : r \in files}
    <3>1. ASSUME NEW p \in Tree!Shown(Tree!All)
          PROVE  p \in {r.path : r \in files}
      <4>1. PICK d \in Seq(Names) :
              \E r \in Tree!Filtered(Tree!All, Tree!ListDir(d)) : r.path = p
        BY <2>1, ShownIsRow
      <4>2. Tree!Filtered(Tree!All, Tree!ListDir(d)) \in SUBSET files
        BY <2>1, RowsOfDirectory
      <4> QED
        BY <4>1, <4>2
    <3>2. ASSUME NEW r \in files
          PROVE  r.path \in Tree!Shown(Tree!All)
      <4>1. PICK q \in Primaries : q.path = r.path
        BY <2>1, NewestExists
      <4>2. ASSUME NEW k \in 1..Len(q.path)
            PROVE  LevelShown(Tree!All, q.path, k)
        <5>1. q \in files /\ q \in Tree!ListDir(SubSeq(q.path, 1, k - 1))
          BY <2>2
        <5>2. q \in Tree!Filtered(Tree!All, Tree!ListDir(SubSeq(q.path, 1, k - 1)))
          BY <2>1, <5>1 DEF Tree!Filtered
        <5> QED
          BY <2>1, <5>1, <5>2, LevelOfRow
      <4>3. q.path \in Paths
        BY <2>1, <4>1, PathsAreSequences
      <4> QED
        BY <4>1, <4>2, <4>3, ShownIsEveryLevel
    <3> QED
      BY <3>1, <3>2
  <2>4. ASSUME NEW m \in Mounts, ~Filter[m].largest
        PROVE  Tree!Shown(m) = {r.path : r \in Tree!Accepted(Filter[m])}
    <3> DEFINE f == Filter[m]
    <3>1. /\ m # Tree!Root /\ Tree!Accepted(f) = Tree!Matching(f, Primaries)
          /\ \A rows : Tree!Filtered(m, rows) = Tree!Matching(f, rows)
      BY <2>1, <2>4, AcceptedAreMatching, TreeAssumption DEF Tree!Filtered, Tree!Apply
    <3>2. ASSUME NEW p \in Tree!Shown(m)
          PROVE  p \in {r.path : r \in Tree!Matching(f, Primaries)}
      <4>1. PICK d \in Seq(Names) : \E r \in Tree!Filtered(m, Tree!ListDir(d)) : r.path = p
        BY <2>1, <3>1, ShownIsRow
      <4>2. Tree!ListDir(d) \subseteq Primaries
        BY <2>1, RowsOfDirectory
      <4> QED
        BY <3>1, <4>1, <4>2 DEF Tree!Matching
    <3>3. ASSUME NEW r \in Tree!Matching(f, Primaries)
          PROVE  r.path \in Tree!Shown(m)
      <4>1. r \in Primaries /\ r \in files
        BY DEF Tree!Matching, Primaries
      <4>2. ASSUME NEW k \in 1..Len(r.path)
            PROVE  LevelShown(m, r.path, k)
        <5>1. r \in Tree!ListDir(SubSeq(r.path, 1, k - 1))
          BY <2>2, <4>1
        <5>2. r \in Tree!Filtered(m, Tree!ListDir(SubSeq(r.path, 1, k - 1)))
          BY <3>1, <5>1 DEF Tree!Matching
        <5> QED
          BY <2>1, <3>1, <4>1, <5>2, LevelOfRow
      <4>3. r.path \in Paths
        BY <2>1, <4>1, PathsAreSequences
      <4> QED
        BY <4>2, <4>3, ShownIsEveryLevel
    <3> QED
      BY <3>1, <3>2, <3>3
  <2>5. ASSUME NEW m \in Mounts, Filter[m].largest, NEW r \in Tree!Best(m)
        PROVE  \E q \in Tree!Best(m) : q.item = r.item /\ q.path \in Tree!Shown(m)
    BY <2>1, <2>5, LargestIsShown
  <2> QED
    BY <2>3, <2>4, <2>5 DEF Tree!TreeExact
<1> QED
  BY <1>1, ListingInitially, ListingStep, PTL DEF Tree!Spec

-----------------------------------------------------------------------------
(* Sums of sizes                                                           *)

(* A fold over a set takes out one of its elements after another, always   *)
(* the one that CHOOSE gives: it is what a function of the subsets that is *)
(* defined by itself gives for the whole set.                              *)
OneOf(s) == CHOOSE r \in s : TRUE
Sums(D, f) == f = [s \in D |-> IF s = {} THEN 0 ELSE OneOf(s).size + f[s \ {OneOf(s)}]]

LEMMA SumIs ==
  ASSUME NEW S
  PROVE  Tree!SumSizes(S) = (CHOOSE f : Sums(SUBSET S, f))[S]
BY DEF Tree!SumSizes, Tree!MapThenSumSet, Tree!MapThenFoldSet, Sums, OneOf

LEMMA OneLess ==
  ASSUME NEW s, IsFiniteSet(s), s # {}
  PROVE  /\ OneOf(s) \in s /\ IsFiniteSet(s \ {OneOf(s)}) /\ s \ {OneOf(s)} \subseteq s
         /\ Cardinality(s) \in Nat \ {0} /\ Cardinality(s \ {OneOf(s)}) = Cardinality(s) - 1
<1>1. OneOf(s) \in s
  BY DEF OneOf
<1>2. Cardinality(s) \in Nat /\ Cardinality(s) # 0
  BY FS_CardinalityType, FS_EmptySet
<1> QED
  BY <1>1, <1>2, FS_RemoveElement

(* There is such a function of the subsets of a finite set, since there is *)
(* one of those of up to n elements, for every n.                          *)
LEMMA SumsExist ==
  ASSUME NEW S, IsFiniteSet(S)
  PROVE  \E f : Sums(SUBSET S, f)
<1> DEFINE Upto(n) == {s \in SUBSET S : Cardinality(s) <= n}
           T == {n \in Nat : ~\E f : Sums(Upto(n), f)}
<1>1. \A s \in SUBSET S : IsFiniteSet(s) /\ Cardinality(s) \in Nat
  BY FS_Subset, FS_CardinalityType
<1>2. ASSUME NEW n \in T, \A k \in T : n <= k
      PROVE  FALSE
  <2>1. CASE n = 0
    <3> DEFINE f == [s \in Upto(0) |-> 0]
    <3>1. \A s \in Upto(0) : s = {}
      BY <1>1, FS_EmptySet
    <3> HIDE DEF Upto
    <3>2. f = [s \in Upto(0) |-> IF s = {} THEN 0 ELSE OneOf(s).size + f[s \ {OneOf(s)}]]
      BY <3>1
    <3>3. Sums(Upto(0), f)
      BY ONLY <3>2 DEF Sums
    <3> QED
      BY <2>1, <3>3
  <2>2. CASE n # 0
    <3>1. n \in Nat /\ n - 1 \in Nat /\ n - 1 \notin T
      <4>1. n \in Nat
        OBVIOUS
      <4> HIDE DEF T
      <4> QED
        BY <1>2, <2>2, <4>1
    <3>2. PICK g : Sums(Upto(n - 1), g)
      BY <3>1
    <3> DEFINE Sum(h, s) == IF s = {} THEN 0 ELSE OneOf(s).size + h[s \ {OneOf(s)}]
               f == [s \in Upto(n) |-> Sum(g, s)]
    <3>3. \A s \in Upto(n - 1) : g[s] = Sum(g, s) /\ s \in Upto(n)
      <4>1. \A s \in Upto(n - 1) : s \in Upto(n)
        BY <1>1, <3>1
      <4> HIDE DEF Upto
      <4> QED
        BY <3>2, <4>1 DEF Sums
    <3>4. ASSUME NEW s \in Upto(n), s # {}
          PROVE  s \ {OneOf(s)} \in Upto(n - 1)
      <4>1. s \in SUBSET S /\ Cardinality(s) <= n
        OBVIOUS
      <4>2. /\ s \ {OneOf(s)} \subseteq s
            /\ Cardinality(s) \in Nat /\ Cardinality(s \ {OneOf(s)}) = Cardinality(s) - 1
        BY <1>1, <3>4, <4>1, OneLess
      <4>3. Cardinality(s \ {OneOf(s)}) <= n - 1
        BY <3>1, <4>1, <4>2
      <4> QED
        BY <4>1, <4>2, <4>3
    <3> HIDE DEF Upto
    <3>5. ASSUME NEW s \in Upto(n)
          PROVE  Sum(g, s) = Sum(f, s)
      <4>1. CASE s = {}
        BY <4>1
      <4>2. CASE s # {}
        <5>1. s \ {OneOf(s)} \in Upto(n - 1)
          BY <3>4, <4>2
        <5>2. f[s \ {OneOf(s)}] = g[s \ {OneOf(s)}]
          <6> DEFINE t == s \ {OneOf(s)}
          <6>1. t \in Upto(n) /\ g[t] = Sum(g, t)
            BY <3>3, <5>1
          <6> HIDE DEF t, Sum
          <6>2. f[t] = g[t]
            BY <6>1
          <6> QED
            BY <6>2 DEF t
        <5> HIDE DEF f
        <5> QED
          BY <4>2, <5>2
      <4> QED
        BY <4>1, <4>2
    <3> HIDE DEF Sum
    <3>6. f = [s \in Upto(n) |-> Sum(f, s)]
      <4> DEFINE e == [s \in Upto(n) |-> Sum(f, s)]
      <4>1. \A s \in Upto(n) : f[s] = e[s]
        <5> SUFFICES ASSUME NEW s \in Upto(n) PROVE f[s] = e[s]
          OBVIOUS
        <5>1. f[s] = Sum(g, s)
          OBVIOUS
        <5> HIDE DEF f
        <5>2. e[s] = Sum(f, s)
          OBVIOUS
        <5> QED
          BY <3>5, <5>1, <5>2
      <4>2. f = [s \in Upto(n) |-> f[s]]
        OBVIOUS
      <4> HIDE DEF f
      <4> QED
        BY <4>1, <4>2
    <3> HIDE DEF f
    <3>7. Sums(Upto(n), f)
      BY <3>6 DEF Sums, Sum
    <3> QED
      BY <1>2, <3>7
  <2> QED
    BY <2>1, <2>2
<1>3. T = {}
  <2> SUFFICES ASSUME T # {} PROVE FALSE
    OBVIOUS
  <2> DEFINE f == [n \in T |-> n]
  <2>1. f \in [T -> Nat]
    OBVIOUS
  <2>2. \E n \in T : \A k \in T : f[n] <= f[k]
    <3> HIDE DEF T, f
    <3> QED
      BY <2>1, LeastExists
  <2>3. \E n \in T : \A k \in T : n <= k
    <3> HIDE DEF T
    <3> QED
      BY <2>2
  <2> HIDE DEF T
  <2> QED
    BY <1>2, <2>3
<1>4. Cardinality(S) \in Nat /\ Upto(Cardinality(S)) = SUBSET S
  BY FS_CardinalityType, FS_Subset
<1>5. \E f : Sums(Upto(Cardinality(S)), f)
  BY <1>3, <1>4
<1> HIDE DEF Upto
<1> QED
  BY <1>4, <1>5

(* A sum of sizes is not more than as many times the largest.              *)
LEMMA SumIsBounded ==
  ASSUME NEW S, IsFiniteSet(S), NEW M \in Nat, \A r \in S : r.size \in 0..M
  PROVE  Tree!SumSizes(S) \in 0..Cardinality(S) * M
<1> DEFINE f == CHOOSE g : Sums(SUBSET S, g)
           Fits(s) == f[s] \in 0..Cardinality(s) * M
           T == {s \in SUBSET S : ~Fits(s)}
           c == [s \in T |-> Cardinality(s)]
<1>1. Tree!SumSizes(S) = f[S]
  BY SumIs
<1>2. Sums(SUBSET S, f)
  BY SumsExist
<1>3. \A s \in SUBSET S : f[s] = IF s = {} THEN 0 ELSE OneOf(s).size + f[s \ {OneOf(s)}]
  <2> HIDE DEF f
  <2> QED
    BY <1>2 DEF Sums
<1> HIDE DEF f
<1>4. \A s \in SUBSET S : IsFiniteSet(s) /\ Cardinality(s) \in Nat
  BY FS_Subset, FS_CardinalityType
<1>5. ASSUME NEW s \in T, \A t \in T : Cardinality(s) <= Cardinality(t)
      PROVE  FALSE
  <2>1. s \in SUBSET S /\ ~Fits(s)
    OBVIOUS
  <2>2. s # {}
    <3> SUFFICES ASSUME s = {} PROVE FALSE
      OBVIOUS
    <3>1. f[s] = 0 /\ Cardinality(s) = 0
      BY <1>3, FS_EmptySet
    <3>2. 0 * M = 0 /\ 0 \in 0..0
      OBVIOUS
    <3> QED
      BY <2>1, <3>1, <3>2
  <2> DEFINE t == s \ {OneOf(s)}
             n == Cardinality(s)
             x == OneOf(s).size
  <2>3. t \in SUBSET S /\ n \in Nat \ {0} /\ Cardinality(t) = n - 1 /\ x \in 0..M
    BY <1>4, <2>1, <2>2, OneLess
  <2>4. f[s] = x + f[t]
    BY <1>3, <2>1, <2>2
  <2>5. Fits(t)
    <3> SUFFICES ASSUME t \in T PROVE FALSE
      BY <2>3
    <3>1. n <= Cardinality(t)
      <4> HIDE DEF T, t
      <4> QED
        BY <1>5
    <3> HIDE DEF T, t, n, x
    <3> QED
      BY <2>3, <3>1
  <2> HIDE DEF t, n, x
  <2>6. f[t] \in 0..(n - 1) * M
    BY <2>3, <2>5
  <2>7. (n - 1) * M + M = n * M /\ (n - 1) * M \in Nat /\ n * M \in Nat
    BY <2>3
  <2>8. f[s] \in 0..n * M
    <3> DEFINE a == (n - 1) * M
               b == n * M
    <3>1. f[t] \in 0..a /\ a + M = b /\ a \in Nat /\ b \in Nat /\ f[s] = x + f[t] /\ x \in 0..M
      BY <2>3, <2>4, <2>6, <2>7
    <3> HIDE DEF a, b
    <3>2. f[s] \in 0..b
      BY ONLY <3>1, M \in Nat
    <3> QED
      BY <3>2 DEF b
  <2> QED
    BY <2>1, <2>8 DEF n
<1>6. T = {}
  <2> SUFFICES ASSUME T # {} PROVE FALSE
    OBVIOUS
  <2>1. c \in [T -> Nat]
    BY <1>4
  <2>2. \E s \in T : \A t \in T : c[s] <= c[t]
    <3> HIDE DEF T, c
    <3> QED
      BY <2>1, LeastExists
  <2>3. \E s \in T : \A t \in T : Cardinality(s) <= Cardinality(t)
    <3> HIDE DEF T
    <3> QED
      BY <2>2
  <2> HIDE DEF T
  <2> QED
    BY <1>5, <2>3
<1> QED
  BY <1>1, <1>6

-----------------------------------------------------------------------------
(* What is in an answer                                                    *)

Bound == HasAll * Tree!Max(Sizes)

(* One entry for each name and kind, of a size within the bound.           *)
EntriesOK(entries) ==
  /\ \A e \in entries : e.isDir \in BOOLEAN /\ e.size \in 0..Bound
  /\ \A e, d \in entries : e.name = d.name /\ e.isDir = d.isDir => e = d

(* What any rows of the table add up to is within the bound.               *)
LEMMA SizesFit ==
  ASSUME FilesOK, TableOK
  PROVE  /\ Bound \in Nat
         /\ \A r \in files : r.size \in 0..Bound
         /\ \A rows \in SUBSET files : Tree!SumSizes(rows) \in 0..Bound
<1> DEFINE M == Tree!Max(Sizes)
<1>1. M \in Nat /\ \A n \in Sizes : n \in 0..M
  BY LargestSize
<1>2. HasAll \in Nat
  BY TreeAssumption
<1>3. \A r \in files : r.size \in 0..M
  BY <1>1 DEF FilesOK
<1> HIDE DEF M
<1>4. ASSUME NEW c \in Nat, c <= HasAll
      PROVE  c * M \in Nat /\ c * M <= HasAll * M
  <2>1. HasAll - c \in Nat /\ HasAll = c + (HasAll - c)
    BY <1>2, <1>4
  <2> DEFINE k == HasAll - c
  <2>2. k \in Nat /\ HasAll = c + k
    BY <2>1
  <2> HIDE DEF k
  <2>3. (c + k) * M = c * M + k * M /\ c * M \in Nat /\ k * M \in Nat
    BY <1>1, <2>2
  <2> QED
    BY <2>2, <2>3
<1>5. HasAll * M \in Nat
  BY <1>1, <1>2
<1>6. ASSUME NEW rows \in SUBSET files
      PROVE  /\ IsFiniteSet(rows) /\ Cardinality(rows) \in Nat /\ Cardinality(rows) <= HasAll
             /\ Tree!SumSizes(rows) \in 0..HasAll * M
  <2>1. IsFiniteSet(rows) /\ Cardinality(rows) \in Nat /\ Cardinality(rows) <= HasAll
    <3>1. /\ IsFiniteSet(rows) /\ Cardinality(rows) <= Cardinality(files)
          /\ Cardinality(rows) \in Nat /\ Cardinality(files) \in Nat
      BY FS_Subset, FS_CardinalityType DEF TableOK
    <3> QED
      BY <1>2, <3>1 DEF TableOK
  <2>2. Tree!SumSizes(rows) \in 0..Cardinality(rows) * M
    BY <1>1, <1>3, <2>1, SumIsBounded
  <2>3. Cardinality(rows) * M \in Nat /\ Cardinality(rows) * M <= HasAll * M
    BY <1>4, <2>1
  <2> DEFINE a == Cardinality(rows) * M
             b == HasAll * M
  <2>4. a \in Nat /\ b \in Nat /\ a <= b /\ Tree!SumSizes(rows) \in 0..a
    BY <1>5, <2>2, <2>3
  <2> HIDE DEF a, b
  <2>5. Tree!SumSizes(rows) \in 0..b
    BY <2>4
  <2> QED
    BY <2>1, <2>5 DEF b
<1>7. ASSUME NEW r \in files
      PROVE  r.size \in 0..HasAll * M
  <2>1. Cardinality({r}) = 1 /\ Cardinality({r}) <= HasAll
    BY <1>6, FS_Singleton
  <2>2. 1 * M <= HasAll * M /\ 1 * M = M
    BY <1>1, <1>4, <2>1
  <2> QED
    BY <1>1, <1>3, <1>5, <2>2
<1> QED
  BY <1>5, <1>6, <1>7 DEF Bound, M

(* The newest row of a path is one row.                                    *)
LEMMA NewestIsOne ==
  ASSUME FilesOK, TableOK, NEW r \in Primaries, NEW q \in Primaries, r.path = q.path
  PROVE  r = q
<1>1. r \in files /\ q \in files /\ r.id <= q.id /\ q.id <= r.id
  BY DEF Primaries
<1>2. r.id \in Nat /\ q.id \in Nat
  BY <1>1 DEF FilesOK
<1>3. r.id = q.id
  BY <1>1, <1>2
<1> QED
  BY <1>1, <1>3 DEF TableOK, Tree!Legal

(* The answer to a file is one entry,                                      *)
LEMMA EntryOfFile ==
  ASSUME NEW n, NEW s
  PROVE  Tree!Entry(n, <<n>>, s) = [name |-> n, isDir |-> FALSE, size |-> s]
<1>1. Len(<<n>>) = 1 /\ (1 > 1) = FALSE
  OBVIOUS
<1> QED
  BY <1>1 DEF Tree!Entry

LEMMA FileEntry ==
  ASSUME FilesOK, TableOK, NEW dir
  PROVE  EntriesOK({Tree!Entry(Tree!Last(dir), <<Tree!Last(dir)>>, r.size) : r \in Tree!GetFileByPath(dir)})
<1> DEFINE F(r) == Tree!Entry(Tree!Last(dir), <<Tree!Last(dir)>>, r.size)
           S == Tree!GetFileByPath(dir)
<1>1. \A r, q \in S : r \in files /\ r = q
  <2>1. \A r \in S : r \in Primaries /\ r \in files /\ r.path = dir
    BY DEF Tree!GetFileByPath, Primaries
  <2> QED
    BY <2>1, NewestIsOne
<1>2. \A r : F(r) = [name |-> Tree!Last(dir), isDir |-> FALSE, size |-> r.size]
  <2> SUFFICES ASSUME NEW r
               PROVE  F(r) = [name |-> Tree!Last(dir), isDir |-> FALSE, size |-> r.size]
    OBVIOUS
  <2> QED
    BY Zenon, EntryOfFile
<1> HIDE DEF F, S
<1>3. \A e \in {F(r) : r \in S} : e.isDir \in BOOLEAN /\ e.size \in 0..Bound
  <2>1. \A r \in S : r.size \in 0..Bound
    BY <1>1, SizesFit
  <2>2. \A r \in S : F(r).isDir = FALSE /\ F(r).size = r.size
    BY <1>2
  <2> QED
    BY <2>1, <2>2
<1>4. \A e, d \in {F(r) : r \in S} : e = d
  BY <1>1
<1>5. EntriesOK({F(r) : r \in S})
  BY <1>3, <1>4 DEF EntriesOK
<1> QED
  BY <1>5 DEF F, S

(* and a listing has one for each name and kind: of mounts,                *)
LEMMA SyntheticEntries ==
  ASSUME FilesOK, TableOK
  PROVE  /\ EntriesOK(Tree!Synthetic)
         /\ EntriesOK({[name |-> m, isDir |-> TRUE, size |-> Tree!Totals(m)] : m \in {Tree!All} \cup Mounts})
<1> DEFINE Ms == {Tree!All} \cup Mounts
           W(m) == [name |-> m, isDir |-> TRUE, size |-> 0]
           H(m) == [name |-> m, isDir |-> TRUE, size |-> Tree!Totals(m)]
<1>1. \A m : Tree!Entry(m, <<m, "">>, 0) = W(m)
  <2> SUFFICES ASSUME NEW m PROVE Tree!Entry(m, <<m, "">>, 0) = W(m)
    OBVIOUS
  <2>1. Len(<<m, "">>) = 2 /\ (2 > 1) = TRUE
    OBVIOUS
  <2> QED
    BY <2>1 DEF Tree!Entry
<1>2. Tree!Synthetic = {W(m) : m \in Ms}
  BY <1>1 DEF Tree!Synthetic
<1>3. \A m : Tree!Totals(m) \in 0..Bound
  <2>1. Tree!ListDir(<<>>) \in SUBSET files
    BY DEF Tree!ListDir
  <2> QED
    BY <2>1, SizesFit DEF Tree!Totals
<1>4. 0 \in 0..Bound
  BY SizesFit
<1>5. \A m : /\ W(m).name = m /\ W(m).isDir = TRUE /\ W(m).size \in 0..Bound
             /\ H(m).name = m /\ H(m).isDir = TRUE /\ H(m).size \in 0..Bound
  BY <1>3, <1>4
<1> HIDE DEF W, H, Ms
<1>6. EntriesOK({W(m) : m \in Ms})
  <2>1. \A e \in {W(m) : m \in Ms} : e = W(e.name) /\ e.isDir \in BOOLEAN /\ e.size \in 0..Bound
    BY <1>5
  <2> QED
    BY <2>1 DEF EntriesOK
<1>7. EntriesOK({H(m) : m \in Ms})
  <2>1. \A e \in {H(m) : m \in Ms} : e = H(e.name) /\ e.isDir \in BOOLEAN /\ e.size \in 0..Bound
    BY <1>5
  <2> QED
    BY <2>1 DEF EntriesOK
<1> QED
  BY <1>2, <1>6, <1>7 DEF H, Ms

(* of what is below a directory,                                           *)
LEMMA ChildrenEntries ==
  ASSUME FilesOK, TableOK, NEW d \in Seq(Names), NEW rows \in SUBSET files
  PROVE  EntriesOK(Tree!Children(d, rows))
<1> DEFINE Below == {r \in rows : Rel(d, r) # <<>>}
           Of(n) == {q \in Below : Head(Rel(d, q)) = n}
           Ns == {Head(Rel(d, r)) : r \in Below}
           E(n) == Tree!Entry(n, Rel(d, Tree!First(Of(n))), Tree!First(Of(n)).size)
<1>1. Tree!Children(d, rows) = {E(n) : n \in Ns}
  BY DEF Tree!Children, Rel
<1>2. ASSUME NEW n \in Ns
      PROVE  Tree!First(Of(n)).size \in 0..Bound /\ 0 \in 0..Bound
  <2>1. Of(n) # {} /\ Of(n) \in SUBSET files
    OBVIOUS
  <2> HIDE DEF Of
  <2>2. Tree!First(Of(n)) \in files
    BY <2>1, FirstIsIn
  <2> QED
    BY <2>2, SizesFit
<1>3. ASSUME NEW n \in Ns
      PROVE  E(n).name = n /\ E(n).isDir \in BOOLEAN /\ E(n).size \in 0..Bound
  <2> HIDE DEF Of, Ns
  <2> QED
    BY <1>2 DEF Tree!Entry
<1> HIDE DEF E, Ns
<1>4. EntriesOK({E(n) : n \in Ns})
  BY <1>3 DEF EntriesOK
<1> QED
  BY <1>1, <1>4

(* of a whole listing,                                                     *)
LEMMA ListingEntries ==
  ASSUME FilesOK, TableOK, NEW view, NEW d \in Seq(Names)
  PROVE  EntriesOK(Tree!Multistatus(view, d))
<1> DEFINE rows == Tree!Filtered(view, Tree!ListDir(d))
<1>1. rows \in SUBSET files
  BY RowsOfDirectory
<1>2. EntriesOK(Tree!Children(d, rows))
  <2> HIDE DEF rows
  <2> QED
    BY <1>1, ChildrenEntries
<1> QED
  BY <1>2, SyntheticEntries DEF Tree!Multistatus

(* and of the browser's files, where two of a directory have two names.    *)
LEMMA BrowserEntriesOK ==
  ASSUME FilesOK, TableOK, NEW view, NEW d \in Seq(Names), LeavesApart(d)
  PROVE  EntriesOK(Tree!HTTPEntries(view, d))
<1> DEFINE rows == Tree!Filtered(view, Tree!ListDir(d))
           deep == {r \in rows : Len(Rel(d, r)) > 1}
           flat == {r \in rows : Len(Rel(d, r)) = 1}
           Ns == {Head(Rel(d, r)) : r \in deep}
           D(n) == [name |-> n, isDir |-> TRUE,
                    size |-> Tree!SumSizes({r \in deep : Head(Rel(d, r)) = n})]
           F(r) == [name |-> Tree!Last(Rel(d, r)), isDir |-> FALSE, size |-> r.size]
<1>1. /\ rows \in SUBSET files /\ rows \in SUBSET Primaries
      /\ \A r \in rows : Tree!Under(d, r.path) /\ Rel(d, r) \in Seq(AnyNames)
  <2>1. /\ Tree!ListDir(d) \subseteq Primaries /\ rows \in SUBSET Tree!ListDir(d)
        /\ rows \in SUBSET files /\ \A r \in rows : Tree!Under(d, r.path)
    BY RowsOfDirectory
  <2> HIDE DEF rows
  <2>2. \A r \in rows : Rel(d, r) \in Seq(AnyNames)
    BY <2>1, ChildrenAre
  <2> QED
    BY <2>1, <2>2
<1>2. Tree!HTTPEntries(view, d) = {D(n) : n \in Ns} \cup {F(r) : r \in flat}
  BY DEF Tree!HTTPEntries, Tree!HTTPRows, Rel
<1> HIDE DEF rows
<1>3. ASSUME NEW n
      PROVE  D(n).name = n /\ D(n).isDir = TRUE /\ D(n).size \in 0..Bound
  <2> DEFINE S == {r \in deep : Head(Rel(d, r)) = n}
  <2>1. S \in SUBSET files
    BY <1>1
  <2> HIDE DEF S
  <2>2. Tree!SumSizes(S) \in 0..Bound
    BY <2>1, SizesFit
  <2> QED
    BY <2>2 DEF S
<1>4. ASSUME NEW r \in flat
      PROVE  /\ F(r).name = Tree!Last(Rel(d, r)) /\ F(r).isDir = FALSE /\ F(r).size = r.size
             /\ r.size \in 0..Bound
  BY <1>1, SizesFit
<1>5. ASSUME NEW r \in flat, NEW q \in flat, F(r).name = F(q).name
      PROVE  r = q
  <2> DEFINE x == Rel(d, r)
             y == Rel(d, q)
  <2>1. x \in Seq(AnyNames) /\ y \in Seq(AnyNames) /\ Len(x) = 1 /\ Len(y) = 1
    BY <1>1
  <2>2. Tree!Last(x) = x[1] /\ Tree!Last(y) = y[1]
    BY <2>1 DEF Tree!Last
  <2>3. x[1] = y[1]
    BY <1>4, <1>5, <2>2
  <2> HIDE DEF x, y
  <2>4. x = y
    BY <2>1, <2>3, SeqEqual
  <2>5. /\ r.path \in Paths /\ q.path \in Paths /\ r \in Primaries /\ q \in Primaries
        /\ Tree!Under(d, r.path) /\ Tree!Under(d, q.path)
    BY <1>1, PathsAreSequences
  <2>6. r.path = q.path
    BY <2>1, <2>4, <2>5 DEF LeavesApart, Rel, x, y
  <2> QED
    BY <2>5, <2>6, NewestIsOne
<1> HIDE DEF deep, flat, Ns, D, F
<1>6. \A e \in {D(n) : n \in Ns} \cup {F(r) : r \in flat} : e.isDir \in BOOLEAN /\ e.size \in 0..Bound
  BY <1>3, <1>4
<1>7. ASSUME NEW e \in {D(n) : n \in Ns} \cup {F(r) : r \in flat},
             NEW g \in {D(n) : n \in Ns} \cup {F(r) : r \in flat},
             e.name = g.name, e.isDir = g.isDir
      PROVE  e = g
  <2>1. CASE e.isDir = TRUE
    <3>1. \E n \in Ns : e = D(n)
      BY <1>4, <1>7, <2>1
    <3>2. \E n \in Ns : g = D(n)
      BY <1>4, <1>7, <2>1
    <3>3. PICK n \in Ns : e = D(n)
      BY <3>1
    <3>4. PICK k \in Ns : g = D(k)
      BY <3>2
    <3>5. D(n).name = n /\ D(k).name = k
      BY <1>3
    <3>6. n = k
      BY <1>7, <3>3, <3>4, <3>5
    <3> QED
      BY <3>3, <3>4, <3>6
  <2>2. CASE e.isDir = FALSE
    <3>1. \E r \in flat : e = F(r)
      BY <1>3, <1>7, <2>2
    <3>2. \E r \in flat : g = F(r)
      BY <1>3, <1>7, <2>2
    <3>3. PICK r \in flat : e = F(r)
      BY <3>1
    <3>4. PICK q \in flat : g = F(q)
      BY <3>2
    <3>5. r = q
      BY <1>5, <1>7, <3>3, <3>4
    <3> QED
      BY <3>3, <3>4, <3>5
  <2> QED
    BY <1>6, <2>1, <2>2
<1> QED
  BY <1>2, <1>6, <1>7 DEF EntriesOK

(* The numbers of rows are numbers.                                        *)
LEMMA RowsHaveTheirType ==
  ASSUME NEW n \in Nat, NEW r \in [item : Items, path : Paths, size : Sizes, id : 1..n]
  PROVE  r \in Tree!Row
<1>1. r.id \in Nat
  OBVIOUS
<1>2. r = [item |-> r.item, path |-> r.path, size |-> r.size, id |-> r.id]
  OBVIOUS
<1> QED
  BY <1>1, <1>2 DEF Tree!Row

(* The table does not change and has what it may have, and an answer that  *)
(* has entries of one name and kind has one of them, no larger than all    *)
(* files together, although one query may find several rows of a path, or  *)
(* a directory of a name by many of its files (store.go:243,               *)
(* propfind.go:140-190, http_browser.go:105-180).                          *)
THEOREM AnswersHaveTheirType ==
  ASSUME \A d \in Tree!Dirs \cup Paths : LeavesApart(d)
  PROVE  Tree!Spec => []Tree!TypeOK
<1> DEFINE Inv == ListingInv /\ EntriesOK(answer.entries)
                  /\ answer.kind \in {"none", "propfind", "listing", "http", "file", "not found"}
<1>1. Tree!Init => Inv
  <2> SUFFICES ASSUME Tree!Init PROVE Inv
    OBVIOUS
  <2>1. answer.entries = {} /\ answer.kind = "none"
    BY DEF Tree!Init, Tree!None
  <2>2. EntriesOK(answer.entries)
    BY <2>1 DEF EntriesOK
  <2> QED
    BY <2>1, <2>2, ListingInitially
<1>2. Inv /\ [Tree!Next]_(Tree!vars) => Inv'
  <2> SUFFICES ASSUME Inv, [Tree!Next]_(Tree!vars)
               PROVE  Inv'
    OBVIOUS
  <2>1. ListingInv' /\ FilesOK /\ TableOK
    BY ListingStep DEF ListingInv
  <2>2. ASSUME NEW view \in Tree!Views, NEW dir \in Tree!Dirs \cup Paths,
               Tree!Propfind(view, dir) \/ Tree!Get(view, dir) \/ Tree!Browse(view, dir)
        PROVE  EntriesOK(answer'.entries) /\ answer'.kind \in {"propfind", "listing", "http", "file", "not found"}
    <3>1. dir \in Seq(Names) /\ LeavesApart(dir)
      BY DirectoriesAreSequences
    <3>2. /\ EntriesOK(Tree!Multistatus(view, dir)) /\ EntriesOK(Tree!HTTPEntries(view, dir))
          /\ EntriesOK({Tree!Entry(Tree!Last(dir), <<Tree!Last(dir)>>, r.size) : r \in Tree!GetFileByPath(dir)})
          /\ EntriesOK({[name |-> m, isDir |-> TRUE, size |-> Tree!Totals(m)] : m \in {Tree!All} \cup Mounts})
          /\ EntriesOK({})
      BY <2>1, <3>1, ListingEntries, BrowserEntriesOK, FileEntry, SyntheticEntries DEF EntriesOK
    <3>3. CASE Tree!Propfind(view, dir)
      BY <3>2, <3>3 DEF Tree!Propfind
    <3>4. CASE Tree!Get(view, dir)
      BY <3>2, <3>4 DEF Tree!Get
    <3>5. CASE Tree!Browse(view, dir)
      BY <3>2, <3>5 DEF Tree!Browse
    <3> QED
      BY <2>2, <3>3, <3>4, <3>5
  <2>3. UNCHANGED answer
        \/ \E view \in Tree!Views, dir \in Tree!Dirs \cup Paths :
             Tree!Propfind(view, dir) \/ Tree!Get(view, dir) \/ Tree!Browse(view, dir)
    BY DEF Tree!Next, Tree!vars
  <2>4. EntriesOK(answer'.entries) /\ answer'.kind \in {"none", "propfind", "listing", "http", "file", "not found"}
    BY <2>2, <2>3
  <2> QED
    BY <2>1, <2>4 DEF EntriesOK
<1>3. Inv => Tree!TypeOK
  <2> SUFFICES ASSUME Inv PROVE Tree!TypeOK
    OBVIOUS
  <2>1. FilesOK /\ Tree!Legal(files)
    BY DEF ListingInv, TableOK
  <2>3. ASSUME NEW r \in files PROVE r \in Tree!Row
    <3>1. PICK n \in Nat : files \subseteq [item : Items, path : Paths, size : Sizes, id : 1..n]
      BY <2>1 DEF FilesOK
    <3> QED
      BY Zenon, <3>1, RowsHaveTheirType
  <2>4. files \subseteq Tree!Row
    BY <2>3
  <2>2. EntriesOK(answer.entries)
    OBVIOUS
  <2> QED
    BY <2>1, <2>2, <2>4 DEF Tree!TypeOK, EntriesOK, Bound
<1> HIDE DEF Inv
<1> QED
  BY <1>1, <1>2, <1>3, PTL DEF Tree!Spec

-----------------------------------------------------------------------------
(* Listings page by page                                                   *)

(* The position of an item in the list, from 0: how many are newer.        *)
Newer(S, x) == {y \in S : y > x}
Pos(S, x) == Cardinality(Newer(S, x))

Numbered(S) == IsFiniteSet(S) /\ S \subseteq Nat

LEMMA PagesCardinality == \A S : Pages!Cardinality(S) = Cardinality(S)
  BY Zenon DEF Pages!Cardinality, Cardinality

LEMMA NewerFinite ==
  ASSUME NEW S, Numbered(S), NEW x
  PROVE  IsFiniteSet(Newer(S, x)) /\ Pos(S, x) \in Nat
<1>1. Newer(S, x) \in SUBSET S
  BY DEF Newer
<1>2. IsFiniteSet(Newer(S, x))
  BY <1>1, FS_Subset DEF Numbered
<1> QED
  BY <1>2, FS_CardinalityType DEF Pos

LEMMA NewerIsSooner ==
  ASSUME NEW S, Numbered(S), NEW x \in S, NEW y \in S, x > y
  PROVE  Pos(S, x) < Pos(S, y)
<1>1. Newer(S, x) \in SUBSET Newer(S, y) /\ Newer(S, x) # Newer(S, y)
  <2>1. x \in Nat /\ y \in Nat /\ S \subseteq Nat
    BY DEF Numbered
  <2>2. x \in Newer(S, y) /\ x \notin Newer(S, x)
    BY <2>1 DEF Newer
  <2>3. ASSUME NEW z \in Newer(S, x)
        PROVE  z \in Newer(S, y)
    <3>1. z \in S /\ z \in Nat /\ z > x
      BY <2>1 DEF Newer
    <3> QED
      BY <2>1, <3>1 DEF Newer
  <2> QED
    BY <2>2, <2>3
<1>2. IsFiniteSet(Newer(S, x)) /\ IsFiniteSet(Newer(S, y)) /\ Pos(S, x) \in Nat /\ Pos(S, y) \in Nat
  BY NewerFinite
<1>3. Pos(S, x) <= Pos(S, y) /\ Pos(S, x) # Pos(S, y)
  BY <1>1, <1>2, FS_Subset DEF Pos
<1> QED
  BY <1>2, <1>3

LEMMA FirstNumbers ==
  ASSUME NEW n \in Nat
  PROVE  IsFiniteSet(1..n) /\ Cardinality(1..n) = n
<1>1. IsFiniteSet(1..n) /\ Cardinality(1..n) = IF 1 > n THEN 0 ELSE n - 1 + 1
  BY FS_Interval
<1> QED
  BY <1>1

LEMMA OneAtEachPosition ==
  ASSUME NEW S, Numbered(S)
  PROVE  /\ Cardinality(S) \in Nat
         /\ \A x \in S : Pos(S, x) \in 0..Cardinality(S) - 1
         /\ \A x, y \in S : Pos(S, x) = Pos(S, y) => x = y
         /\ \A k \in 0..Cardinality(S) - 1 : \E x \in S : Pos(S, x) = k
<1>1. Cardinality(S) \in Nat
  BY FS_CardinalityType DEF Numbered
<1>2. \A x \in S : Pos(S, x) \in 0..Cardinality(S) - 1
  <2>1. TAKE x \in S
  <2>2. x \in Nat /\ x \notin Newer(S, x) /\ Newer(S, x) \in SUBSET S
    BY DEF Newer, Numbered
  <2>3. Pos(S, x) \in Nat /\ Pos(S, x) <= Cardinality(S) /\ Pos(S, x) # Cardinality(S)
    <3>1. /\ Cardinality(Newer(S, x)) <= Cardinality(S)
          /\ Cardinality(S) = Cardinality(Newer(S, x)) => S = Newer(S, x)
      BY <2>2, FS_Subset DEF Numbered
    <3> QED
      BY <2>2, <3>1, NewerFinite DEF Pos
  <2> QED
    BY <1>1, <2>3
<1>3. ASSUME NEW x \in S, NEW y \in S, Pos(S, x) = Pos(S, y)
      PROVE  x = y
  <2>1. x \in Nat /\ y \in Nat
    BY DEF Numbered
  <2>2. Pos(S, x) \in Nat
    BY NewerFinite
  <2>3. ~ x > y /\ ~ y > x
    BY <1>3, <2>2, NewerIsSooner
  <2> QED
    BY <2>1, <2>3
<1>4. \A k \in 0..Cardinality(S) - 1 : \E x \in S : Pos(S, x) = k
  <2> DEFINE f == [x \in S |-> Pos(S, x)]
             T == 0..Cardinality(S) - 1
  <2>1. IsFiniteSet(T) /\ Cardinality(T) = Cardinality(S)
    BY <1>1, FS_Interval
  <2>2. f \in Injection(S, T)
    BY <1>2, <1>3 DEF Injection, IsInjective
  <2>3. f \in Surjection(S, T)
    <3> HIDE DEF f, T
    <3> QED
      BY <2>1, <2>2, FS_Injection
  <2> QED
    BY <2>3 DEF Surjection
<1> QED
  BY <1>1, <1>2, <1>3, <1>4

(* An arrival moves everybody back by one, a departure forward by one at   *)
(* most.                                                                   *)
LEMMA PositionsAfterArrival ==
  ASSUME NEW S, Numbered(S), NEW n \in Nat, \A y \in S : y < n
  PROVE  /\ Numbered(S \cup {n})
         /\ \A x \in S : Pos(S \cup {n}, x) = Pos(S, x) + 1
<1>1. IsFiniteSet(S \cup {n})
  BY FS_AddElement DEF Numbered
<1>2. ASSUME NEW x \in S
      PROVE  Pos(S \cup {n}, x) = Pos(S, x) + 1
  <2>1. Newer(S \cup {n}, x) = Newer(S, x) \cup {n}
    BY DEF Newer, Numbered
  <2>2. n \notin Newer(S, x)
    BY DEF Newer, Numbered
  <2>3. Cardinality(Newer(S, x) \cup {n}) = Cardinality(Newer(S, x)) + 1
    BY <2>2, NewerFinite, FS_AddElement
  <2> QED
    BY Zenon, <2>1, <2>3 DEF Pos
<1> QED
  BY <1>1, <1>2 DEF Numbered

LEMMA PositionsAfterDeparture ==
  ASSUME NEW S, Numbered(S), NEW i
  PROVE  /\ Numbered(S \ {i})
         /\ \A x \in S : Pos(S \ {i}, x) \in {Pos(S, x) - 1, Pos(S, x)}
<1>1. IsFiniteSet(S \ {i})
  BY FS_RemoveElement DEF Numbered
<1>2. ASSUME NEW x \in S
      PROVE  Pos(S \ {i}, x) \in {Pos(S, x) - 1, Pos(S, x)}
  <2>1. Newer(S \ {i}, x) = Newer(S, x) \ {i}
    BY DEF Newer
  <2>2. Cardinality(Newer(S, x) \ {i}) \in {Cardinality(Newer(S, x)) - 1, Cardinality(Newer(S, x))}
    BY NewerFinite, FS_RemoveElement
  <2> QED
    BY Zenon, <2>1, <2>2 DEF Pos
<1> QED
  BY <1>1, <1>2 DEF Numbered

LEMMA NewestFirstIs ==
  ASSUME NEW S, Numbered(S), NEW i \in 1..Cardinality(S)
  PROVE  Pages!NewestFirst(S)[i] \in S /\ Pos(S, Pages!NewestFirst(S)[i]) = i - 1
<1>1. Cardinality(S) \in Nat /\ i - 1 \in 0..Cardinality(S) - 1
  BY OneAtEachPosition
<1>2. Pages!NewestFirst(S)[i] = CHOOSE x \in S : Pages!Cardinality({y \in S : y > x}) = i - 1
  BY PagesCardinality DEF Pages!NewestFirst
<1>3. \A x : Pages!Cardinality({y \in S : y > x}) = Pos(S, x)
  BY Zenon, PagesCardinality DEF Pos, Newer
<1>4. Pages!NewestFirst(S)[i] = CHOOSE x \in S : Pos(S, x) = i - 1
  BY Zenon, <1>2, <1>3
<1>5. \E x \in S : Pos(S, x) = i - 1
  BY <1>1, OneAtEachPosition
<1> QED
  BY Zenon, <1>4, <1>5

(* A page has the items of its positions, each once, and all from there on *)
(* if it is short.                                                         *)
LEMMA PageIs ==
  ASSUME NEW S, Numbered(S), NEW o \in Nat
  PROVE  LET page == Pages!Response(S, o, PageSize) IN
         /\ page \in Seq(S)
         /\ Len(page) < PageSize => o + Len(page) >= Cardinality(S)
         /\ \A x : x \in Range(page) <=> x \in S /\ o <= Pos(S, x) /\ Pos(S, x) < o + Len(page)
         /\ \A i, j \in 1..Len(page) : page[i] = page[j] => i = j
<1> DEFINE m == Cardinality(S)
           list == Pages!NewestFirst(S)
           last == IF o + PageSize < m THEN o + PageSize ELSE m
           page == Pages!Response(S, o, PageSize)
<1>1. m \in Nat /\ PageSize \in Nat /\ PageSize > 0 /\ Cap \in Nat /\ Cap >= PageSize
  BY OneAtEachPosition, PagesAssumption
<1>2. page = SubSeq(list, o + 1, last)
  BY <1>1, PagesCardinality DEF Pages!Response
<1>3. \A i \in 1..m : list[i] \in S /\ Pos(S, list[i]) = i - 1
  BY NewestFirstIs
<1>4. last \in Nat /\ last <= m /\ last <= o + PageSize /\ (last < o + PageSize => last = m)
  BY <1>1
<1> HIDE DEF m, list, last, page
<1>5. /\ page \in Seq(S) /\ Len(page) = IF o + 1 <= last THEN last - o ELSE 0
      /\ \A i \in 1..last - o : page[i] = list[o + i]
  <2>1. \A i \in o + 1..last : list[i] \in S
    BY <1>1, <1>3, <1>4
  <2>2. /\ SubSeq(list, o + 1, last) \in Seq(S)
        /\ Len(SubSeq(list, o + 1, last)) = IF o + 1 <= last THEN last - (o + 1) + 1 ELSE 0
        /\ \A i \in 1..last - (o + 1) + 1 : SubSeq(list, o + 1, last)[i] = list[o + 1 + i - 1]
    BY <1>4, <2>1, SubSeqProperties
  <2>3. last - (o + 1) + 1 = last - o
    BY <1>4
  <2>4. ASSUME NEW i \in 1..last - o
        PROVE  page[i] = list[o + i]
    <3>1. page[i] = list[o + 1 + i - 1]
      BY Zenon, <1>2, <2>2, <2>3
    <3>2. o + 1 + i - 1 = o + i
      BY <1>4
    <3> QED
      BY Zenon, <3>1, <3>2
  <2>5. page \in Seq(S) /\ Len(page) = IF o + 1 <= last THEN last - o ELSE 0
    BY Zenon, <1>2, <2>2, <2>3
  <2> QED
    BY <2>4, <2>5
<1>6. \A i \in 1..Len(page) : /\ i \in 1..last - o /\ o + i \in 1..m /\ page[i] = list[o + i]
                              /\ Pos(S, page[i]) = o + i - 1 /\ page[i] \in S
  <2>1. TAKE i \in 1..Len(page)
  <2>2. i \in 1..last - o /\ o + i \in 1..m
    BY <1>1, <1>4, <1>5
  <2> QED
    BY <1>3, <1>5, <2>2
<1>7. Len(page) \in Nat
  BY <1>4, <1>5
<1>8. Len(page) < PageSize => o + Len(page) >= m
  BY <1>1, <1>4, <1>5
<1>9. ASSUME NEW x
      PROVE  x \in Range(page) <=> x \in S /\ o <= Pos(S, x) /\ Pos(S, x) < o + Len(page)
  <2>1. Range(page) = {page[i] : i \in 1..Len(page)}
    BY <1>5 DEF Range
  <2>2. ASSUME x \in Range(page)
        PROVE  x \in S /\ o <= Pos(S, x) /\ Pos(S, x) < o + Len(page)
    <3>1. PICK i \in 1..Len(page) : x = page[i]
      BY <2>1, <2>2
    <3>2. Pos(S, x) = o + i - 1 /\ x \in S
      BY <1>6, <3>1
    <3> QED
      BY <1>7, <3>1, <3>2
  <2>3. ASSUME x \in S, o <= Pos(S, x), Pos(S, x) < o + Len(page)
        PROVE  x \in Range(page)
    <3>1. Pos(S, x) \in Nat
      BY NewerFinite
    <3>2. PICK i \in 1..Len(page) : o + i - 1 = Pos(S, x)
      <4>1. Pos(S, x) - o + 1 \in 1..Len(page) /\ o + (Pos(S, x) - o + 1) - 1 = Pos(S, x)
        BY <1>7, <2>3, <3>1
      <4> QED
        BY <4>1
    <3>3. page[i] \in S /\ Pos(S, page[i]) = Pos(S, x)
      BY <1>6, <3>2
    <3>4. page[i] = x
      BY <2>3, <3>3, OneAtEachPosition
    <3> QED
      BY <2>1, <3>4
  <2> QED
    BY <2>2, <2>3
<1>10. ASSUME NEW i \in 1..Len(page), NEW j \in 1..Len(page), page[i] = page[j]
       PROVE  i = j
  <2>1. o + i - 1 = o + j - 1
    BY <1>6, <1>10
  <2> QED
    BY <1>7, <2>1
<1> QED
  BY <1>5, <1>8, <1>9, <1>10 DEF page, m

(* What the listing so far, of the elements R and up to offset o, has      *)
(* missed for good of the items T that stayed, and what of the library L   *)
(* it has and will be shown again.                                         *)
Missed(L, T, R, o) == {x \in T \ R : Pos(L, x) < o}
Again(L, R, o) == {x \in R \cap L : Pos(L, x) >= o}

LEMMA AtMostOneMore ==
  ASSUME NEW A, IsFiniteSet(A), NEW B, NEW x, B \subseteq A \cup {x}
  PROVE  /\ IsFiniteSet(B) /\ Cardinality(A) \in Nat /\ Cardinality(B) \in Nat
         /\ Cardinality(B) <= Cardinality(A) + 1
<1>1. /\ IsFiniteSet(A \cup {x})
      /\ Cardinality(A \cup {x}) = IF x \in A THEN Cardinality(A) ELSE Cardinality(A) + 1
  BY FS_AddElement
<1>2. IsFiniteSet(B) /\ Cardinality(B) <= Cardinality(A \cup {x})
  BY <1>1, FS_Subset
<1>3. Cardinality(A) \in Nat /\ Cardinality(B) \in Nat /\ Cardinality(A \cup {x}) \in Nat
  BY <1>1, <1>2, FS_CardinalityType
<1> QED
  BY <1>1, <1>2, <1>3

LEMMA NoMore ==
  ASSUME NEW A, IsFiniteSet(A), NEW B, B \subseteq A
  PROVE  /\ IsFiniteSet(B) /\ Cardinality(A) \in Nat /\ Cardinality(B) \in Nat
         /\ Cardinality(B) <= Cardinality(A)
<1>1. IsFiniteSet(B) /\ Cardinality(B) <= Cardinality(A)
  BY FS_Subset
<1> QED
  BY <1>1, FS_CardinalityType

LEMMA ErrorsFinite ==
  ASSUME NEW L, Numbered(L), NEW T, T \subseteq L, NEW R, NEW o
  PROVE  IsFiniteSet(Missed(L, T, R, o)) /\ IsFiniteSet(Again(L, R, o)) /\ IsFiniteSet(T)
<1>1. Missed(L, T, R, o) \in SUBSET L /\ Again(L, R, o) \in SUBSET L /\ T \in SUBSET L
  BY DEF Missed, Again
<1> QED
  BY <1>1, FS_Subset DEF Numbered

LEMMA ErrorsAfterArrival ==
  ASSUME NEW L, Numbered(L), NEW T, T \subseteq L, NEW R, NEW o \in Nat,
         NEW n \in Nat, \A y \in L : y < n, n \notin R
  PROVE  /\ Cardinality(Missed(L \cup {n}, T, R, o)) <= Cardinality(Missed(L, T, R, o))
         /\ Cardinality(Again(L \cup {n}, R, o)) <= Cardinality(Again(L, R, o)) + 1
<1>1. \A x \in L : Pos(L \cup {n}, x) = Pos(L, x) + 1 /\ Pos(L, x) \in Nat
  BY PositionsAfterArrival, NewerFinite
<1>2. Missed(L \cup {n}, T, R, o) \subseteq Missed(L, T, R, o)
  BY <1>1 DEF Missed
<1>3. \E x : Again(L \cup {n}, R, o) \subseteq Again(L, R, o) \cup {x}
  <2>1. CASE \E x \in L : Pos(L, x) = o - 1
    <3>1. PICK x \in L : Pos(L, x) = o - 1
      BY <2>1
    <3>2. ASSUME NEW y \in Again(L \cup {n}, R, o), y # x
          PROVE  y \in Again(L, R, o)
      <4>1. y \in R /\ y \in L /\ Pos(L \cup {n}, y) >= o
        BY DEF Again
      <4>2. Pos(L, y) # o - 1
        BY <3>1, <3>2, <4>1, OneAtEachPosition
      <4>3. Pos(L, y) \in Nat /\ Pos(L, y) + 1 >= o
        BY <1>1, <4>1
      <4> QED
        BY <4>1, <4>2, <4>3 DEF Again
    <3> QED
      BY <3>2
  <2>2. CASE ~ \E x \in L : Pos(L, x) = o - 1
    <3>1. ASSUME NEW y \in Again(L \cup {n}, R, o)
          PROVE  y \in Again(L, R, o)
      <4>1. y \in R /\ y \in L /\ Pos(L \cup {n}, y) >= o
        BY DEF Again
      <4>2. Pos(L, y) \in Nat /\ Pos(L, y) + 1 >= o /\ Pos(L, y) # o - 1
        BY <1>1, <2>2, <4>1
      <4> QED
        BY <4>1, <4>2 DEF Again
    <3> QED
      BY <3>1
  <2> QED
    BY <2>1, <2>2
<1> QED
  BY <1>2, <1>3, ErrorsFinite, NoMore, AtMostOneMore

LEMMA ErrorsAfterDeparture ==
  ASSUME NEW L, Numbered(L), NEW T, T \subseteq L, NEW R, NEW o \in Nat, NEW i
  PROVE  /\ Cardinality(Missed(L \ {i}, T \ {i}, R, o)) <= Cardinality(Missed(L, T, R, o)) + 1
         /\ Cardinality(Again(L \ {i}, R, o)) <= Cardinality(Again(L, R, o))
<1> DEFINE M == L \ {i}
           U == T \ {i}
<1>1. \A x \in L : /\ Pos(L, x) \in Nat /\ Pos(M, x) \in Int
                  /\ Pos(L, x) - 1 <= Pos(M, x) /\ Pos(M, x) <= Pos(L, x)
  <2>1. TAKE x \in L
  <2>2. Pos(L, x) \in Nat
    BY NewerFinite
  <2>3. Pos(M, x) = Pos(L, x) - 1 \/ Pos(M, x) = Pos(L, x)
    BY PositionsAfterDeparture
  <2> QED
    BY <2>2, <2>3
<1>0. M \subseteq L /\ U \subseteq T
  OBVIOUS
<1> HIDE DEF M, U
<1>2. Again(M, R, o) \subseteq Again(L, R, o)
  <2>1. SUFFICES ASSUME NEW y \in Again(M, R, o) PROVE y \in Again(L, R, o)
    OBVIOUS
  <2>2. y \in R /\ y \in L /\ Pos(M, y) >= o
    BY <1>0 DEF Again
  <2>3. Pos(L, y) >= o
    BY <1>1, <2>2
  <2> QED
    BY <2>2, <2>3 DEF Again
<1>3. \E x : Missed(M, U, R, o) \subseteq Missed(L, T, R, o) \cup {x}
  <2>1. CASE \E x \in L : Pos(L, x) = o
    <3>1. PICK x \in L : Pos(L, x) = o
      BY <2>1
    <3>2. ASSUME NEW y \in Missed(M, U, R, o), y # x
          PROVE  y \in Missed(L, T, R, o)
      <4>1. y \in T /\ y \notin R /\ y \in L /\ Pos(M, y) < o
        BY <1>0 DEF Missed
      <4>2. Pos(L, y) # o
        BY <3>1, <3>2, <4>1, OneAtEachPosition
      <4>3. Pos(L, y) \in Nat /\ Pos(L, y) - 1 < o
        BY <1>1, <4>1
      <4> QED
        BY <4>1, <4>2, <4>3 DEF Missed
    <3> QED
      BY <3>2
  <2>2. CASE ~ \E x \in L : Pos(L, x) = o
    <3>1. ASSUME NEW y \in Missed(M, U, R, o)
          PROVE  y \in Missed(L, T, R, o)
      <4>1. y \in T /\ y \notin R /\ y \in L /\ Pos(M, y) < o
        BY <1>0 DEF Missed
      <4>2. Pos(L, y) # o
        BY <2>2, <4>1
      <4>3. Pos(L, y) \in Nat /\ Pos(L, y) - 1 < o
        BY <1>1, <4>1
      <4> QED
        BY <4>1, <4>2, <4>3 DEF Missed
    <3> QED
      BY <3>1
  <2> QED
    BY <2>1, <2>2
<1> QED
  BY <1>2, <1>3, ErrorsFinite, NoMore, AtMostOneMore DEF M, U

(* A page misses nothing more and shows no item again but those it was to, *)
(* and a short page leaves nothing out but what was missed before.         *)
LEMMA ErrorsAfterPage ==
  ASSUME NEW L, Numbered(L), NEW T, T \subseteq L, NEW R, IsFiniteSet(R), NEW o \in Nat,
         NEW page \in Seq(L), page = Pages!Response(L, o, PageSize)
  PROVE  LET S == R \cup Range(page)
             q == o + Len(page) IN
         /\ IsFiniteSet(S)
         /\ Cardinality(Missed(L, T, S, q)) <= Cardinality(Missed(L, T, R, o))
         /\ Cardinality(S) + Cardinality(Again(L, R, o))
              = Cardinality(R) + Len(page) + Cardinality(Again(L, S, q))
         /\ Len(page) < PageSize => Cardinality(T \ S) <= Cardinality(Missed(L, T, R, o))
<1> DEFINE P == Range(page)
           S == R \cup P
           q == o + Len(page)
<1>1. /\ Len(page) < PageSize => q >= Cardinality(L)
      /\ \A x : x \in P <=> x \in L /\ o <= Pos(L, x) /\ Pos(L, x) < q
      /\ \A i, j \in 1..Len(page) : page[i] = page[j] => i = j
  BY PageIs
<1>2. Len(page) \in Nat /\ q \in Nat /\ q = o + Len(page)
  OBVIOUS
<1>3. IsFiniteSet(P) /\ Cardinality(P) = Len(page)
  <2>1. page \in Bijection(1..Len(page), P)
    <3>1. page \in [1..Len(page) -> P] /\ P = {page[i] : i \in 1..Len(page)}
      BY DEF Range
    <3> HIDE DEF P
    <3>2. \A y \in P : \E i \in 1..Len(page) : page[i] = y
      BY <3>1
    <3> QED
      BY <1>1, <3>1, <3>2 DEF Bijection, Injection, Surjection, IsInjective
  <2>2. IsFiniteSet(1..Len(page)) /\ Cardinality(1..Len(page)) = Len(page)
    BY <1>2, FirstNumbers
  <2> HIDE DEF P
  <2>3. ExistsBijection(1..Len(page), P)
    BY <2>1 DEF ExistsBijection
  <2> QED
    BY <2>2, <2>3, FS_Bijection
<1> HIDE DEF P, q
<1>4. /\ IsFiniteSet(S) /\ Cardinality(S) = Cardinality(R) + Cardinality(P) - Cardinality(R \cap P)
      /\ Cardinality(R) \in Nat /\ Cardinality(R \cap P) \in Nat /\ Cardinality(S) \in Nat
  BY <1>3, FS_Union, FS_Intersection, FS_CardinalityType
<1>5. \A x \in L : Pos(L, x) \in Nat /\ Pos(L, x) < Cardinality(L)
  <2>1. \A x \in L : Pos(L, x) \in 0..Cardinality(L) - 1 /\ Cardinality(L) \in Nat
    BY OneAtEachPosition
  <2> QED
    BY <2>1
<1>6. Cardinality(Missed(L, T, S, q)) <= Cardinality(Missed(L, T, R, o))
  <2>1. Missed(L, T, S, q) \subseteq Missed(L, T, R, o)
    BY <1>1, <1>2, <1>5 DEF Missed
  <2> QED
    BY <2>1, ErrorsFinite, NoMore
<1>7. Len(page) < PageSize => Cardinality(T \ S) <= Cardinality(Missed(L, T, R, o))
  <2>1. ASSUME Len(page) < PageSize
        PROVE  T \ S \subseteq Missed(L, T, R, o)
    <3>1. Cardinality(L) \in Nat
      BY OneAtEachPosition
    <3> QED
      BY <1>1, <1>2, <1>5, <2>1, <3>1 DEF Missed
  <2> QED
    BY <2>1, ErrorsFinite, NoMore
<1>8. /\ Cardinality(Again(L, S, q)) = Cardinality(Again(L, R, o)) - Cardinality(R \cap P)
      /\ Cardinality(Again(L, R, o)) \in Nat
  <2>1. Again(L, S, q) = Again(L, R, o) \ P
    <3>1. ASSUME NEW x
          PROVE  x \in Again(L, S, q) <=> x \in Again(L, R, o) /\ x \notin P
      BY <1>1, <1>2, <1>5 DEF Again
    <3> QED
      BY <3>1
  <2>2. Again(L, R, o) \cap P = R \cap P
    <3>1. ASSUME NEW x \in P
          PROVE  x \in Again(L, R, o) <=> x \in R
      BY <1>1, <1>5 DEF Again
    <3> QED
      BY <3>1
  <2>3. IsFiniteSet(Again(L, R, o))
    BY ErrorsFinite
  <2>4. Cardinality(Again(L, R, o) \ P) = Cardinality(Again(L, R, o)) - Cardinality(Again(L, R, o) \cap P)
    BY <2>3, FS_Difference
  <2>5. Cardinality(Again(L, R, o)) \in Nat
    BY <2>3, FS_CardinalityType
  <2> QED
    BY Zenon, <2>1, <2>2, <2>4, <2>5
<1>9. Cardinality(S) + Cardinality(Again(L, R, o)) = Cardinality(R) + Len(page) + Cardinality(Again(L, S, q))
  BY <1>2, <1>3, <1>4, <1>8
<1> QED
  BY <1>4, <1>6, <1>7, <1>9 DEF P, q

(* The inductive invariant.  What a listing under way has missed and is to *)
(* repeat is counted before it is seen.                                    *)
PagesType ==
  /\ created \in Nat /\ library \subseteq seen /\ seen \subseteq 1..created
  /\ stayed \subseteq library
  /\ all \in Seq(Nat) /\ Range(all) \subseteq seen /\ offset \in Nat
  /\ adds \in Nat /\ addsFrom \in 0..adds
  /\ removals \in Nat /\ removalsFrom \in 0..removals

UnderWay == pagePc \in {"request", "backoff"}

UnderWayInv ==
  UnderWay =>
    /\ offset = Len(all)
    /\ Cardinality(Missed(library, stayed, Range(all), offset)) <= removals - removalsFrom
    /\ Len(all) + Cardinality(Again(library, Range(all), offset))
         <= Cardinality(Range(all)) + (adds - addsFrom)

ListedInv ==
  pagePc = "listed" =>
    /\ Cardinality(stayed \ Range(all)) <= removals - removalsFrom
    /\ Len(all) <= Cardinality(Range(all)) + (adds - addsFrom)

PagesInv == PagesType /\ UnderWayInv /\ ListedInv

LEMMA PagesFinite ==
  ASSUME PagesType
  PROVE  /\ Numbered(library) /\ IsFiniteSet(Range(all)) /\ Cardinality(Range(all)) \in Nat
         /\ \A x \in library : x < created + 1
         /\ created + 1 \notin Range(all) /\ Len(all) \in Nat
         /\ \A o : /\ Cardinality(Missed(library, stayed, Range(all), o)) \in Nat
                   /\ Cardinality(Again(library, Range(all), o)) \in Nat
         /\ IsFiniteSet(stayed) /\ Cardinality(stayed \ Range(all)) \in Nat
<1>1. IsFiniteSet(1..created)
  BY FS_Interval DEF PagesType
<1>2. library \in SUBSET (1..created) /\ Range(all) \in SUBSET (1..created)
  BY DEF PagesType
<1>3. Numbered(library) /\ IsFiniteSet(Range(all)) /\ Cardinality(Range(all)) \in Nat
  <2>1. IsFiniteSet(library) /\ IsFiniteSet(Range(all))
    BY <1>1, <1>2, FS_Subset
  <2>2. library \subseteq Nat
    BY <1>2
  <2> QED
    BY <2>1, <2>2, FS_CardinalityType DEF Numbered
<1>4. stayed \subseteq library
  BY DEF PagesType
<1>5. IsFiniteSet(stayed) /\ Cardinality(stayed \ Range(all)) \in Nat
  <2>1. IsFiniteSet(stayed)
    BY <1>3, <1>4, ErrorsFinite
  <2> QED
    BY <2>1, NoMore
<1>6. \A o : /\ Cardinality(Missed(library, stayed, Range(all), o)) \in Nat
             /\ Cardinality(Again(library, Range(all), o)) \in Nat
  BY <1>3, <1>4, ErrorsFinite, FS_CardinalityType
<1> QED
  BY <1>2, <1>3, <1>5, <1>6 DEF PagesType

LEMMA PagesInitially == Pages!Init => PagesInv
<1> SUFFICES ASSUME Pages!Init PROVE PagesInv
  OBVIOUS
<1>1. Range(<<>>) = {} /\ <<>> \in Seq(Nat)
  BY DEF Range
<1>2. PagesType
  BY <1>1, PagesAssumption DEF Pages!Init, PagesType
<1> QED
  BY <1>2 DEF Pages!Init, PagesInv, UnderWayInv, UnderWay, ListedInv

LEMMA ArriveStep ==
  ASSUME PagesInv, Pages!Arrive
  PROVE  PagesInv'
<1> DEFINE n == created + 1
<1>1. PagesType /\ UnderWayInv /\ ListedInv
  BY DEF PagesInv
<1>2. /\ created' = n /\ library' = library \cup {n} /\ adds' = adds + 1 /\ seen' = seen \cup {n}
      /\ pagePc' = pagePc /\ offset' = offset /\ all' = all /\ stayed' = stayed
      /\ addsFrom' = addsFrom /\ removalsFrom' = removalsFrom /\ removals' = removals
  BY DEF Pages!Arrive, Pages!client
<1>3. /\ Numbered(library) /\ n \in Nat /\ (\A x \in library : x < n) /\ n \notin Range(all)
      /\ stayed \subseteq library /\ offset \in Nat
  BY <1>1, PagesFinite DEF PagesType
<1>4. PagesType'
  BY <1>1, <1>2 DEF PagesType
<1>5. /\ adds \in Nat /\ addsFrom \in Nat /\ removals \in Nat /\ removalsFrom \in Nat
      /\ Len(all) \in Nat /\ Cardinality(Range(all)) \in Nat
  BY <1>1, PagesFinite DEF PagesType
<1>6. UnderWayInv'
  <2> DEFINE missed == Cardinality(Missed(library, stayed, Range(all), offset))
             missedNow == Cardinality(Missed(library \cup {n}, stayed, Range(all), offset))
             again == Cardinality(Again(library, Range(all), offset))
             againNow == Cardinality(Again(library \cup {n}, Range(all), offset))
  <2>1. missedNow <= missed /\ againNow <= again + 1
    BY <1>3, ErrorsAfterArrival
  <2>2. missed \in Nat /\ again \in Nat /\ missedNow \in Nat /\ againNow \in Nat
    <3>1. Numbered(library \cup {n}) /\ stayed \subseteq library \cup {n}
      BY <1>3, PositionsAfterArrival
    <3>2. /\ IsFiniteSet(Missed(library \cup {n}, stayed, Range(all), offset))
          /\ IsFiniteSet(Again(library \cup {n}, Range(all), offset))
      BY <3>1, ErrorsFinite
    <3> QED
      BY <1>1, <3>2, PagesFinite, FS_CardinalityType
  <2>3. UnderWay =>
          /\ offset = Len(all) /\ missed <= removals - removalsFrom
          /\ Len(all) + again <= Cardinality(Range(all)) + (adds - addsFrom)
    BY <1>1 DEF UnderWayInv
  <2>4. /\ Missed(library, stayed, Range(all), offset)' = Missed(library \cup {n}, stayed, Range(all), offset)
        /\ Again(library, Range(all), offset)' = Again(library \cup {n}, Range(all), offset)
    BY <1>2
  <2>5. Cardinality(Missed(library, stayed, Range(all), offset))' = missedNow
    BY Zenon, <2>4
  <2>6. Cardinality(Again(library, Range(all), offset))' = againNow
    BY Zenon, <2>4
  <2> HIDE DEF missed, missedNow, again, againNow
  <2>7. UnderWay =>
          /\ offset = Len(all) /\ missedNow <= removals - removalsFrom
          /\ Len(all) + againNow <= Cardinality(Range(all)) + (adds + 1 - addsFrom)
    BY <1>5, <2>1, <2>2, <2>3
  <2>8. /\ UnderWay' <=> UnderWay
        /\ offset' = offset /\ Len(all)' = Len(all) /\ Cardinality(Range(all))' = Cardinality(Range(all))
    BY Zenon, <1>2 DEF UnderWay
  <2>9. removals' - removalsFrom' = removals - removalsFrom /\ adds' - addsFrom' = adds + 1 - addsFrom
    BY <1>2, <1>5
  <2> QED
    BY <2>5, <2>6, <2>7, <2>8, <2>9 DEF UnderWayInv
<1>7. ListedInv'
  BY <1>1, <1>2, <1>5 DEF ListedInv
<1> QED
  BY <1>4, <1>6, <1>7 DEF PagesInv

LEMMA LeaveStep ==
  ASSUME PagesInv, Pages!Leave
  PROVE  PagesInv'
<1>1. PagesType /\ UnderWayInv /\ ListedInv
  BY DEF PagesInv
<1>2. PICK i \in library :
        /\ library' = library \ {i} /\ stayed' = stayed \ {i} /\ removals' = removals + 1
        /\ created' = created /\ pagePc' = pagePc /\ offset' = offset /\ all' = all
        /\ seen' = seen /\ adds' = adds /\ addsFrom' = addsFrom /\ removalsFrom' = removalsFrom
  BY DEF Pages!Leave, Pages!client
<1>3. Numbered(library) /\ stayed \subseteq library /\ offset \in Nat
  BY <1>1, PagesFinite DEF PagesType
<1>4. PagesType'
  BY <1>1, <1>2 DEF PagesType
<1>5. /\ adds \in Nat /\ addsFrom \in Nat /\ removals \in Nat /\ removalsFrom \in Nat
      /\ Len(all) \in Nat /\ Cardinality(Range(all)) \in Nat
  BY <1>1, PagesFinite DEF PagesType
<1>6. UnderWayInv'
  <2> DEFINE missed == Cardinality(Missed(library, stayed, Range(all), offset))
             missedNow == Cardinality(Missed(library \ {i}, stayed \ {i}, Range(all), offset))
             again == Cardinality(Again(library, Range(all), offset))
             againNow == Cardinality(Again(library \ {i}, Range(all), offset))
  <2>1. missedNow <= missed + 1 /\ againNow <= again
    BY <1>3, ErrorsAfterDeparture
  <2>2. missed \in Nat /\ again \in Nat /\ missedNow \in Nat /\ againNow \in Nat
    <3>1. Numbered(library \ {i}) /\ stayed \ {i} \subseteq library \ {i}
      BY <1>3, PositionsAfterDeparture
    <3>2. /\ IsFiniteSet(Missed(library \ {i}, stayed \ {i}, Range(all), offset))
          /\ IsFiniteSet(Again(library \ {i}, Range(all), offset))
      BY <3>1, ErrorsFinite
    <3> QED
      BY <1>1, <3>2, PagesFinite, FS_CardinalityType
  <2>3. UnderWay =>
          /\ offset = Len(all) /\ missed <= removals - removalsFrom
          /\ Len(all) + again <= Cardinality(Range(all)) + (adds - addsFrom)
    BY <1>1 DEF UnderWayInv
  <2>4. /\ Missed(library, stayed, Range(all), offset)' = Missed(library \ {i}, stayed \ {i}, Range(all), offset)
        /\ Again(library, Range(all), offset)' = Again(library \ {i}, Range(all), offset)
    BY <1>2
  <2>5. Cardinality(Missed(library, stayed, Range(all), offset))' = missedNow
    BY Zenon, <2>4
  <2>6. Cardinality(Again(library, Range(all), offset))' = againNow
    BY Zenon, <2>4
  <2> HIDE DEF missed, missedNow, again, againNow
  <2>7. UnderWay =>
          /\ offset = Len(all) /\ missedNow <= removals + 1 - removalsFrom
          /\ Len(all) + againNow <= Cardinality(Range(all)) + (adds - addsFrom)
    BY <1>5, <2>1, <2>2, <2>3
  <2>8. /\ UnderWay' <=> UnderWay
        /\ offset' = offset /\ Len(all)' = Len(all) /\ Cardinality(Range(all))' = Cardinality(Range(all))
    BY Zenon, <1>2 DEF UnderWay
  <2>9. removals' - removalsFrom' = removals + 1 - removalsFrom /\ adds' - addsFrom' = adds - addsFrom
    BY <1>2, <1>5
  <2> QED
    BY <2>5, <2>6, <2>7, <2>8, <2>9 DEF UnderWayInv
<1>7. ListedInv'
  <2>1. /\ Cardinality(stayed' \ Range(all)) <= Cardinality(stayed \ Range(all))
        /\ Cardinality(stayed' \ Range(all)) \in Nat /\ Cardinality(stayed \ Range(all)) \in Nat
    <3>1. IsFiniteSet(stayed \ Range(all))
      BY <1>1, PagesFinite, NoMore
    <3>2. stayed' \ Range(all) \subseteq stayed \ Range(all)
      BY <1>2
    <3> QED
      BY <3>1, <3>2, NoMore
  <2> QED
    BY <1>1, <1>2, <1>5, <2>1 DEF ListedInv
<1> QED
  BY <1>4, <1>6, <1>7 DEF PagesInv

LEMMA PageStep ==
  ASSUME PagesInv, Pages!Page
  PROVE  PagesInv'
<1> DEFINE page == Pages!Response(library, offset, PageSize)
           S == Range(all) \cup Range(page)
           q == offset + Len(page)
<1>1. PagesType /\ UnderWayInv /\ UnderWay
  BY DEF PagesInv, Pages!Page, UnderWay
<1>2. /\ all' = all \o page
      /\ Len(page) < PageSize => pagePc' = "listed" /\ offset' = offset
      /\ ~(Len(page) < PageSize) => pagePc' = "request" /\ offset' = q
      /\ library' = library /\ created' = created /\ stayed' = stayed /\ seen' = seen
      /\ adds' = adds /\ removals' = removals
      /\ addsFrom' = addsFrom /\ removalsFrom' = removalsFrom
  BY DEF Pages!Page, Pages!upstream
<1>3. /\ Numbered(library) /\ stayed \subseteq library /\ IsFiniteSet(Range(all))
      /\ offset \in Nat /\ all \in Seq(Nat)
  BY <1>1, PagesFinite DEF PagesType
<1>4. page \in Seq(library) /\ page \in Seq(Nat) /\ Range(page) \subseteq library /\ Len(page) \in Nat
  <2>1. /\ page \in Seq(library)
        /\ \A x : x \in Range(page) <=> x \in library /\ offset <= Pos(library, x)
                                       /\ Pos(library, x) < offset + Len(page)
    BY <1>3, PageIs
  <2> HIDE DEF page
  <2>2. \A x \in library : x \in Nat
    BY <1>3 DEF Numbered
  <2>3. page \in Seq(Nat) /\ Len(page) \in Nat
    BY <2>1, <2>2
  <2>4. Range(page) \subseteq library
    BY <2>1
  <2> QED
    BY <2>1, <2>3, <2>4
<1>5. /\ IsFiniteSet(S)
      /\ Cardinality(Missed(library, stayed, S, q))
           <= Cardinality(Missed(library, stayed, Range(all), offset))
      /\ Cardinality(S) + Cardinality(Again(library, Range(all), offset))
           = Cardinality(Range(all)) + Len(page) + Cardinality(Again(library, S, q))
      /\ Len(page) < PageSize =>
           Cardinality(stayed \ S) <= Cardinality(Missed(library, stayed, Range(all), offset))
  BY <1>3, <1>4, ErrorsAfterPage
<1> HIDE DEF page
<1>6. all' \in Seq(Nat) /\ Len(all') = Len(all) + Len(page) /\ Range(all') = S
  BY <1>2, <1>3, <1>4, ConcatProperties, RangeConcatenation
<1>7. q \in Nat /\ q = offset + Len(page) /\ offset = Len(all)
  BY <1>1, <1>3, <1>4 DEF UnderWayInv
<1> HIDE DEF S, q
<1>8. PagesType'
  <2>1. S \subseteq seen
    BY <1>1, <1>4 DEF PagesType, S
  <2>2. offset' \in Nat
    BY <1>2, <1>3, <1>7
  <2> QED
    BY <1>1, <1>2, <1>6, <2>1, <2>2 DEF PagesType
<1>9. /\ Cardinality(Missed(library, stayed, Range(all), offset)) <= removals - removalsFrom
      /\ Len(all) + Cardinality(Again(library, Range(all), offset))
           <= Cardinality(Range(all)) + (adds - addsFrom)
  BY <1>1 DEF UnderWayInv
<1>10. /\ adds \in Nat /\ addsFrom \in Nat /\ removals \in Nat /\ removalsFrom \in Nat
       /\ Len(all) \in Nat /\ Cardinality(Range(all)) \in Nat
       /\ Cardinality(Missed(library, stayed, Range(all), offset)) \in Nat
       /\ Cardinality(Again(library, Range(all), offset)) \in Nat
  BY <1>1, PagesFinite DEF PagesType
<1>11. /\ Cardinality(S) \in Nat /\ Cardinality(Missed(library, stayed, S, q)) \in Nat
       /\ Cardinality(Again(library, S, q)) \in Nat /\ Cardinality(stayed \ S) \in Nat
  <2>1. IsFiniteSet(stayed)
    BY <1>1, PagesFinite
  <2>2. IsFiniteSet(Missed(library, stayed, S, q)) /\ IsFiniteSet(Again(library, S, q))
    BY <1>3, ErrorsFinite
  <2> QED
    BY <1>5, <2>1, <2>2, NoMore, FS_CardinalityType
<1>12. /\ Cardinality(Missed(library, stayed, S, q)) <= removals - removalsFrom
       /\ Len(all) + Len(page) + Cardinality(Again(library, S, q)) <= Cardinality(S) + (adds - addsFrom)
       /\ Len(page) < PageSize => Cardinality(stayed \ S) <= removals - removalsFrom
       /\ Len(all) + Len(page) <= Cardinality(S) + (adds - addsFrom)
  <2> DEFINE missed == Cardinality(Missed(library, stayed, Range(all), offset))
             again == Cardinality(Again(library, Range(all), offset))
             missedNow == Cardinality(Missed(library, stayed, S, q))
             againNow == Cardinality(Again(library, S, q))
             n == Cardinality(S)
             m == Cardinality(Range(all))
             left == Cardinality(stayed \ S)
  <2>1. /\ missedNow <= missed /\ n + again = m + Len(page) + againNow
        /\ Len(page) < PageSize => left <= missed
    BY <1>5
  <2>2. missed <= removals - removalsFrom /\ Len(all) + again <= m + (adds - addsFrom)
    BY <1>9
  <2>3. /\ missed \in Nat /\ again \in Nat /\ missedNow \in Nat /\ againNow \in Nat
        /\ n \in Nat /\ m \in Nat /\ left \in Nat
    BY <1>10, <1>11
  <2> HIDE DEF missed, again, missedNow, againNow, n, m, left
  <2>4. /\ missedNow <= removals - removalsFrom
        /\ Len(page) < PageSize => left <= removals - removalsFrom
    BY <1>10, <2>1, <2>2, <2>3
  <2>5. Len(all) + Len(page) + againNow <= n + (adds - addsFrom)
    BY <1>4, <1>10, <2>1, <2>2, <2>3
  <2>6. Len(all) + Len(page) <= n + (adds - addsFrom)
    BY <1>4, <1>10, <2>3, <2>5
  <2> QED
    BY <2>4, <2>5, <2>6 DEF missedNow, againNow, n, left
<1>13. removals' - removalsFrom' = removals - removalsFrom /\ adds' - addsFrom' = adds - addsFrom
  BY Zenon, <1>2
<1>14. /\ Cardinality(Range(all))' = Cardinality(S) /\ Cardinality(stayed \ Range(all))' = Cardinality(stayed \ S)
       /\ offset' = q => /\ Cardinality(Missed(library, stayed, Range(all), offset))'
                             = Cardinality(Missed(library, stayed, S, q))
                         /\ Cardinality(Again(library, Range(all), offset))'
                             = Cardinality(Again(library, S, q))
  BY Zenon, <1>2, <1>6
<1>15. CASE Len(page) < PageSize
  <2>1. pagePc' = "listed"
    BY <1>2, <1>15
  <2>2. ListedInv'
    BY <1>6, <1>12, <1>13, <1>14, <1>15 DEF ListedInv
  <2> QED
    BY <1>8, <2>1, <2>2 DEF PagesInv, UnderWayInv, UnderWay
<1>16. CASE ~(Len(page) < PageSize)
  <2>1. pagePc' = "request" /\ offset' = q
    BY <1>2, <1>16
  <2>2. UnderWayInv'
    BY <1>6, <1>7, <1>12, <1>13, <1>14, <2>1 DEF UnderWayInv
  <2> QED
    BY <1>8, <2>1, <2>2 DEF PagesInv, ListedInv
<1> QED
  BY <1>15, <1>16

LEMMA BeginStep ==
  ASSUME PagesInv, Pages!Begin
  PROVE  PagesInv'
<1>1. /\ pagePc' = "request" /\ offset' = 0 /\ all' = <<>> /\ stayed' = library /\ seen' = library
      /\ addsFrom' = adds /\ removalsFrom' = removals /\ adds' = adds /\ removals' = removals
      /\ library' = library /\ created' = created
  BY DEF Pages!Begin
<1>2. Range(<<>>) = {} /\ <<>> \in Seq(Nat) /\ Len(<<>>) = 0
  BY DEF Range
<1>3. PagesType'
  BY <1>1, <1>2 DEF PagesInv, PagesType
<1>4. Missed(library, stayed, Range(all), offset)' = {} /\ Again(library, Range(all), offset)' = {}
  <2>1. Missed(library, library, {}, 0) = {}
    <3>1. \A x \in library : Pos(library, x) \in Nat
      BY PagesFinite, NewerFinite DEF PagesInv
    <3> QED
      BY <3>1 DEF Missed
  <2>2. Again(library, {}, 0) = {}
    BY DEF Again
  <2> QED
    BY <1>1, <1>2, <2>1, <2>2
<1>5. /\ Cardinality(Missed(library, stayed, Range(all), offset))' = 0
      /\ Cardinality(Again(library, Range(all), offset))' = 0 /\ Cardinality(Range(all))' = 0
  BY Zenon, <1>1, <1>2, <1>4, FS_EmptySet
<1>6. UnderWayInv'
  <2>1. adds \in Nat /\ removals \in Nat
    BY DEF PagesInv, PagesType
  <2> QED
    BY <1>1, <1>2, <1>5, <2>1 DEF UnderWayInv
<1> QED
  BY <1>1, <1>3, <1>6 DEF PagesInv, ListedInv

LEMMA PagesStepInv ==
  ASSUME PagesInv, [Pages!Next]_(Pages!vars)
  PROVE  PagesInv'
<1> DEFINE same == UNCHANGED <<library, created, stayed, seen, adds, removals, addsFrom, removalsFrom>>
<1>1. ASSUME same, UNCHANGED <<all, offset>>,
             UnderWay' => UnderWay, pagePc' = "listed" => pagePc = "listed"
      PROVE  PagesInv'
  <2>1. PagesType'
    BY <1>1 DEF PagesInv, PagesType
  <2>2. UnderWayInv'
    BY <1>1 DEF PagesInv, UnderWayInv
  <2>3. ListedInv'
    BY <1>1 DEF PagesInv, ListedInv
  <2> QED
    BY <2>1, <2>2, <2>3 DEF PagesInv
<1>2. CASE Pages!PageRetried
  BY <1>1, <1>2 DEF Pages!PageRetried, Pages!upstream, UnderWay
<1>3. CASE Pages!BackoffEnds
  BY <1>1, <1>3 DEF Pages!BackoffEnds, Pages!upstream, UnderWay
<1>4. CASE Pages!GiveUp
  BY <1>1, <1>4 DEF Pages!GiveUp, Pages!GiveUpWith, Pages!upstream, UnderWay
<1>5. CASE Pages!Return
  <2>1. pagePc' = "idle" /\ all' = <<>> /\ offset' = 0 /\ same
    BY <1>5 DEF Pages!Return, Pages!upstream
  <2>2. Range(<<>>) = {} /\ <<>> \in Seq(Nat)
    BY DEF Range
  <2>3. PagesType'
    BY <2>1, <2>2 DEF PagesInv, PagesType
  <2> QED
    BY <2>1, <2>3 DEF PagesInv, UnderWayInv, UnderWay, ListedInv
<1>6. CASE UNCHANGED Pages!vars
  BY <1>1, <1>6 DEF Pages!vars, Pages!upstream, Pages!client, UnderWay
<1> QED
  BY <1>2, <1>3, <1>4, <1>5, <1>6, ArriveStep, LeaveStep, BeginStep, PageStep DEF Pages!Next, Pages!List

(* A listing page by page, retries and all, errs by no more than the       *)
(* changes during it, whatever the library, the page size and the changes  *)
(* (client.go:181-260).                                                    *)
THEOREM PagesErrByChanges == Pages!Spec => []Pages!ListingErrsByChanges
<1>1. PagesInv => Pages!ListingErrsByChanges
  <2> SUFFICES ASSUME PagesInv, pagePc = "listed"
               PROVE  /\ Cardinality(stayed \ Range(all)) <= removals - removalsFrom
                      /\ Len(all) - Cardinality(Range(all)) <= adds - addsFrom
                      /\ Range(all) \subseteq seen
    <3>1. \A f : Pages!Range(f) = Range(f)
      BY DEF Pages!Range, Range
    <3>2. \A S : Pages!Cardinality(S) = Cardinality(S)
      BY PagesCardinality
    <3> QED
      BY Zenon, <3>1, <3>2 DEF Pages!ListingErrsByChanges
  <2>1. /\ Cardinality(stayed \ Range(all)) <= removals - removalsFrom
        /\ Len(all) <= Cardinality(Range(all)) + (adds - addsFrom)
        /\ Range(all) \subseteq seen
    BY DEF PagesInv, ListedInv, PagesType
  <2>2. /\ Len(all) \in Nat /\ Cardinality(Range(all)) \in Nat /\ adds \in Nat /\ addsFrom \in Nat
    BY PagesFinite DEF PagesInv, PagesType
  <2> QED
    BY <2>1, <2>2
<1> QED
  BY <1>1, PagesInitially, PagesStepInv, PTL DEF Pages!Spec

(* The numbers of a listing stay in their bounds.                          *)
PagesBounds ==
  /\ pagePc \in {"idle", "request", "backoff", "listed", "failed"}
  /\ attempt \in 0..RetryAttempts /\ pageFailures \in 0..MaxPageFailures
  /\ created = AtFirst + adds /\ adds <= MaxAdds /\ removals <= MaxRemovals
  /\ offset <= Len(all)

(* The offset moves by what is appended, or back to where there is nothing.*)
LEMMA OffsetStep ==
  ASSUME PagesInv, offset <= Len(all), [Pages!Next]_(Pages!vars)
  PROVE  offset' <= Len(all')
<1>1. all \in Seq(Nat) /\ offset \in Nat /\ Len(all) \in Nat
  BY DEF PagesInv, PagesType
<1>2. CASE UNCHANGED <<all, offset>>
  BY <1>2
<1>3. CASE all' = <<>> /\ offset' = 0
  BY <1>3
<1>4. CASE Pages!Page
  <2> DEFINE page == Pages!Response(library, offset, PageSize)
  <2>1. Numbered(library)
    BY PagesFinite DEF PagesInv
  <2>2. page \in Seq(library)
    BY <1>1, <2>1, PageIs
  <2>3. /\ all' = all \o page
        /\ offset' = offset \/ offset' = offset + Len(page)
    BY <1>4 DEF Pages!Page
  <2> HIDE DEF page
  <2>4. \A x \in library : x \in Nat
    BY <2>1 DEF Numbered
  <2>5. page \in Seq(Nat) /\ Len(page) \in Nat
    BY <2>2, <2>4
  <2>6. Len(all') = Len(all) + Len(page)
    BY <1>1, <2>3, <2>5, ConcatProperties
  <2> QED
    BY <1>1, <2>3, <2>5, <2>6
<1> QED
  BY <1>2, <1>3, <1>4 DEF Pages!Next, Pages!List, Pages!Arrive, Pages!Leave, Pages!Begin, Pages!PageRetried,
    Pages!BackoffEnds, Pages!GiveUp, Pages!GiveUpWith, Pages!Return, Pages!vars, Pages!client

LEMMA BoundsStep ==
  ASSUME PagesInv, PagesBounds, [Pages!Next]_(Pages!vars)
  PROVE  PagesBounds'
<1> USE DEF PagesBounds, Pages!client, Pages!upstream
<1>1. /\ AtFirst \in Nat /\ RetryAttempts \in Nat /\ MaxAdds \in Nat /\ MaxRemovals \in Nat
      /\ MaxPageFailures \in Nat /\ adds \in Nat /\ removals \in Nat
  BY PagesAssumption DEF PagesInv, PagesType
<1>2. offset' <= Len(all')
  BY OffsetStep
<1>3. CASE Pages!Arrive
  <2>1. created' = created + 1 /\ adds' = adds + 1 /\ adds < MaxAdds
    BY <1>3 DEF Pages!Arrive
  <2>2. created' = AtFirst + adds' /\ adds' <= MaxAdds
    BY <1>1, <2>1
  <2> QED
    BY <1>2, <1>3, <2>2 DEF Pages!Arrive
<1>4. CASE Pages!Leave
  <2>1. removals' = removals + 1 /\ removals < MaxRemovals
    BY <1>4 DEF Pages!Leave
  <2>2. removals' <= MaxRemovals
    BY <1>1, <2>1
  <2> QED
    BY <1>2, <1>4, <2>2 DEF Pages!Leave
<1>5. CASE Pages!List \/ UNCHANGED Pages!vars
  <2>1. UNCHANGED <<created, adds, removals>>
    BY <1>5 DEF Pages!List, Pages!Begin, Pages!Page, Pages!PageRetried, Pages!BackoffEnds, Pages!GiveUp,
      Pages!GiveUpWith, Pages!Return, Pages!vars
  <2>2. pagePc' \in {"idle", "request", "backoff", "listed", "failed"}
    BY <1>5 DEF Pages!List, Pages!Begin, Pages!Page, Pages!PageRetried, Pages!BackoffEnds, Pages!GiveUp,
      Pages!GiveUpWith, Pages!Return, Pages!vars
  <2>3. attempt' \in 0..RetryAttempts
    BY <1>1, <1>5 DEF Pages!List, Pages!Begin, Pages!Page, Pages!PageRetried, Pages!BackoffEnds, Pages!GiveUp,
      Pages!GiveUpWith, Pages!Return, Pages!vars
  <2>4. pageFailures' \in 0..MaxPageFailures
    BY <1>1, <1>5 DEF Pages!List, Pages!Begin, Pages!Page, Pages!PageRetried, Pages!BackoffEnds, Pages!GiveUp,
      Pages!GiveUpWith, Pages!Return, Pages!vars
  <2> QED
    BY <1>2, <2>1, <2>2, <2>3, <2>4
<1> QED
  BY <1>3, <1>4, <1>5 DEF Pages!Next

(* A sequence of numbers all in T is one of elements of T.                 *)
LEMMA InSequence ==
  ASSUME NEW s \in Seq(Nat), NEW T, \A i \in 1..Len(s) : s[i] \in T
  PROVE  s \in Seq(T)
OBVIOUS

(* Nothing leaves its type: the offset is where the pages so far end,  *)
(* and what is listed is from the library, new items or not                *)
(* (client.go:181-260).                                                    *)
THEOREM PagesHaveTheirType == Pages!Spec => []Pages!TypeOK
<1> DEFINE Inv == PagesInv /\ PagesBounds
<1>1. Pages!Init => Inv
  <2>1. Pages!Init => PagesBounds
    <3> SUFFICES ASSUME Pages!Init PROVE PagesBounds
      OBVIOUS
    <3>1. Len(<<>>) = 0
      OBVIOUS
    <3> QED
      BY <3>1, PagesAssumption DEF Pages!Init, PagesBounds
  <2> QED
    BY <2>1, PagesInitially
<1>2. Inv /\ [Pages!Next]_(Pages!vars) => Inv'
  BY PagesStepInv, BoundsStep
<1>3. Inv => Pages!TypeOK
  <2> SUFFICES ASSUME PagesType, UnderWayInv, PagesBounds PROVE Pages!TypeOK
    BY DEF PagesInv
  <2> DEFINE n == AtFirst + MaxAdds
  <2>1. /\ AtFirst \in Nat /\ MaxAdds \in Nat /\ MaxRemovals \in Nat /\ adds \in Nat /\ removals \in Nat
        /\ addsFrom \in 0..adds /\ removalsFrom \in 0..removals
        /\ all \in Seq(Nat) /\ offset \in Nat /\ Len(all) \in Nat
        /\ stayed \subseteq library /\ library \subseteq seen /\ seen \subseteq 1..created
        /\ Range(all) \subseteq seen
    BY PagesAssumption DEF PagesType
  <2>2. created \in 0..n /\ n \in Nat
    BY <2>1 DEF PagesBounds
  <2>3. 1..created \subseteq 1..n
    BY <2>2
  <2>4. library \subseteq 1..n /\ seen \subseteq 1..n
    BY <2>1, <2>3
  <2>5. all \in Seq(1..n)
    <3>1. \A i \in 1..Len(all) : all[i] \in Range(all)
      BY <2>1 DEF Range
    <3>2. Range(all) \subseteq 1..n
      BY <2>1, <2>4
    <3> QED
      BY <2>1, <3>1, <3>2, InSequence
  <2>6. adds \in 0..MaxAdds /\ removals \in 0..MaxRemovals /\ offset \in 0..Len(all)
    BY <2>1 DEF PagesBounds
  <2>7. pagePc \in {"request", "backoff"} => offset = Len(all)
    BY DEF UnderWayInv, UnderWay
  <2> HIDE DEF n
  <2>8. Pages!Numbers = 1..n
    BY DEF Pages!Numbers, n
  <2> QED
    BY <2>1, <2>2, <2>4, <2>5, <2>6, <2>7, <2>8 DEF Pages!TypeOK, PagesBounds, n
<1> HIDE DEF Inv
<1> QED
  BY <1>1, <1>2, <1>3, PTL DEF Pages!Spec

-----------------------------------------------------------------------------
(* The parts together                                                      *)

(* Whichever part takes the steps does so by its own specification.        *)
LEMMA PartRuns ==
  /\ Init /\ part = "pages" => Pages!Init
  /\ Init /\ part = "level" => Level!Init
  /\ Init /\ part = "buffer" => Buffer!Init
  /\ Init /\ part = "tree" => Tree!Init
  /\ Init /\ part = "ranges" => Ranges!Init
  /\ [Next]_vars => UNCHANGED part
  /\ [Next]_vars /\ part = "pages" => [Pages!Next]_(Pages!vars)
  /\ [Next]_vars /\ part = "level" => [Level!Next]_(Level!vars)
  /\ [Next]_vars /\ part = "buffer" => [Buffer!Next]_(Buffer!vars)
  /\ [Next]_vars /\ part = "tree" => [Tree!Next]_(Tree!vars)
  /\ [Next]_vars /\ part = "ranges" => [Ranges!Next]_(Ranges!vars)
<1> USE DEF Next, PagesStep, LevelStep, BufferStep, TreeStep, RangesStep, Others,
            vars, pagesVars, levelVars, bufferVars, listingVars, rangesVars
<1>1. [Next]_vars => UNCHANGED part
  OBVIOUS
<1>2. [Next]_vars /\ part = "level" => [Level!Next]_(Level!vars)
  BY DEF Level!vars, Level!files, Level!levels, Level!requests, Level!budget
<1>3. [Next]_vars /\ part = "buffer" => [Buffer!Next]_(Buffer!vars)
  BY DEF Buffer!vars
<1>4. [Next]_vars /\ part = "tree" => [Tree!Next]_(Tree!vars)
  BY DEF Tree!vars
<1>5. [Next]_vars /\ part = "ranges" => [Ranges!Next]_(Ranges!vars)
  BY DEF Ranges!vars, Ranges!world
<1>6. [Next]_vars /\ part = "pages" => [Pages!Next]_(Pages!vars)
  BY DEF Pages!vars, Pages!upstream, Pages!client
<1> QED
  BY <1>1, <1>2, <1>3, <1>4, <1>5, <1>6 DEF Init

(* Whichever part runs, its variables have their types (and in the tree an *)
(* answer one entry for each name and kind), with any number of rows,      *)
(* requests, lines and pages.                                              *)
THEOREM TypesStayOK ==
  ASSUME \A d \in Tree!Dirs \cup Paths : LeavesApart(d)
  PROVE  Spec => []TypesOK
<1>1. Init => part \in Parts
  BY DEF Init
<1>2. UNCHANGED part =>
        /\ (part = "pages") <=> (part = "pages")'
        /\ (part = "level") <=> (part = "level")'
        /\ (part = "buffer") <=> (part = "buffer")'
        /\ (part = "tree") <=> (part = "tree")'
        /\ (part = "ranges") <=> (part = "ranges")'
  OBVIOUS
<1>3. part \in Parts <=> \/ part = "pages" \/ part = "level" \/ part = "buffer"
                        \/ part = "tree" \/ part = "ranges"
  BY DEF Parts
<1>4. /\ part = "pages" /\ Pages!TypeOK => TypesOK
      /\ part = "level" /\ Level!TypeOK => TypesOK
      /\ part = "buffer" /\ Buffer!TypeOK => TypesOK
      /\ part = "tree" /\ Tree!TypeOK => TypesOK
      /\ part = "ranges" /\ Ranges!TypeOK => TypesOK
  BY DEF TypesOK
<1>5. Tree!Spec => []Tree!TypeOK
  BY AnswersHaveTheirType
<1> QED
  BY <1>1, <1>2, <1>3, <1>4, <1>5, PartRuns, PagesHaveTheirType, LevelHasItsType, BufferHasItsType,
    RangesHaveTheirType, PTL DEF Spec, Pages!Spec, Level!Spec, Buffer!Spec, Tree!Spec, Ranges!Spec

(* A listing errs by the changes during it (client.go:181-260).            *)
THEOREM ListingsErrByChanges == Spec => []ListingErrsByChanges
<1>1. (part = "pages" => Pages!ListingErrsByChanges) <=> ListingErrsByChanges
  BY DEF ListingErrsByChanges
<1>2. UNCHANGED part => ((part = "pages") <=> (part = "pages")')
  OBVIOUS
<1> QED
  BY <1>1, <1>2, PartRuns, PagesErrByChanges, PTL DEF Spec, Pages!Spec

(* The level, the file and the page stay together (config.go:487,          *)
(* actions.go:94).                                                         *)
THEOREM LevelStaysPersisted == Spec => []LevelPersisted
<1>1. (part = "level" => Level!LevelPersisted) <=> LevelPersisted
  BY DEF LevelPersisted
<1>2. UNCHANGED part => ((part = "level") <=> (part = "level")')
  OBVIOUS
<1> QED
  BY <1>1, <1>2, PartRuns, LevelIsPersisted, PTL DEF Spec, Level!Spec

(* With the right size in the store a client gets the bytes it asked for   *)
(* (get.go:1014, 134-155, 359-371).                                        *)
THEOREM RightSizesServeExactly == Spec => []RightSizeServesExactly
<1>1. (part = "ranges" => Ranges!RightSizeServesExactly) <=> RightSizeServesExactly
  BY DEF RightSizeServesExactly
<1>2. UNCHANGED part => ((part = "ranges") <=> (part = "ranges")')
  OBVIOUS
<1> QED
  BY <1>1, <1>2, PartRuns, RightSizeIsServedExactly, PTL DEF Spec, Ranges!Spec

(* The log page shows the newest lines in order (logs.go:80-105).          *)
THEOREM LinesStayExact == Spec => []LinesExact
<1>1. (part = "buffer" => Buffer!LinesExact) <=> LinesExact
  BY DEF LinesExact
<1>2. UNCHANGED part => ((part = "buffer") <=> (part = "buffer")')
  OBVIOUS
<1> QED
  BY <1>1, <1>2, PartRuns, LinesAreExact, PTL DEF Spec, Buffer!Spec

(* WebDAV and the browser show the same tree (propfind.go:140-190,         *)
(* http_browser.go:105-180).                                               *)
THEOREM ViewsStayAgreed ==
  ASSUME \A d \in Tree!Dirs \cup Paths : SameKind(d)
  PROVE  Spec => []ViewsAgree
<1>1. (part = "tree" => Tree!ViewsAgree) <=> ViewsAgree
  BY DEF ViewsAgree
<1>2. UNCHANGED part => ((part = "tree") <=> (part = "tree")')
  OBVIOUS
<1>3. Tree!Spec => []Tree!ViewsAgree
  BY ViewsAlwaysAgree
<1> QED
  BY <1>1, <1>2, <1>3, PartRuns, PTL DEF Spec, Tree!Spec

(* What a listing shows is served as it shows it (store.go:212, 243).      *)
THEOREM ListedStaysServed ==
  ASSUME NoFileIsDirectory
  PROVE  Spec => []ListedIsServed
<1>1. (part = "tree" => Tree!ListedIsServed) <=> ListedIsServed
  BY DEF ListedIsServed
<1>2. UNCHANGED part => ((part = "tree") <=> (part = "tree")')
  OBVIOUS
<1>3. Tree!Spec => []Tree!ListedIsServed
  BY ListedIsAlwaysServed
<1> QED
  BY <1>1, <1>2, <1>3, PartRuns, PTL DEF Spec, Tree!Spec

(* Listings lead to the files of their view and to no other                *)
(* (propfind.go:133, filter.go:92).                                        *)
THEOREM TreeStaysExact ==
  ASSUME NoFileIsDirectory, \A d \in Tree!Dirs : StraysApart(d) /\ \A m \in Mounts : RanksApart(m, d)
  PROVE  Spec => []TreeExact
<1>1. (part = "tree" => Tree!TreeExact) <=> TreeExact
  BY DEF TreeExact
<1>2. UNCHANGED part => ((part = "tree") <=> (part = "tree")')
  OBVIOUS
<1>3. Tree!Spec => []Tree!TreeExact
  BY TreeIsExact
<1> QED
  BY <1>1, <1>2, <1>3, PartRuns, PTL DEF Spec, Tree!Spec
================================================================================
