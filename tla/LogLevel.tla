------------------------------ MODULE LogLevel ------------------------------
(***************************************************************************)
(* The log level in its three places: the configuration file, the LevelVar *)
(* that filters, and the name the landing page shows; and the POST action  *)
(* that changes it, each request in a goroutine of its own, with no lock.  *)
(*                                                                         *)
(* A file name refers to an inode and an open file to another, maybe the   *)
(* same; os.WriteFile empties the file when it opens it and writes it in   *)
(* one go.  Of the content only the level matters here, and whether there  *)
(* is any.                                                                 *)
(***************************************************************************)
EXTENDS Integers, FiniteSets

CONSTANTS
  Requests,     \* goroutines serving POST /actions/loglevel
  Levels,
  Default,      \* setDefaults' level, one of Levels
  MaxFailures,  \* bound: file operations that fail
  MaxCrashes    \* bound

VARIABLES
  config, tmp,  \* what the two names refer to, 0: nothing
  data,         \* [Inodes -> content]
  levelVar,     \* s.cfg.LevelVar
  shown,        \* s.cfg.LogLevel
  up,           \* the process runs
  pc, want, fd, \* each request
  failures, crashes,
  \* History
  overlapped    \* two requests have been under way at once

files == <<config, tmp, data>>
levels == <<levelVar, shown>>
requests == <<pc, want, fd>>
budget == <<failures, crashes>>
vars == <<files, levels, up, requests, budget, overlapped>>

(* Enough for both names and for every open file to be of its own.         *)
Inodes == 1..Cardinality(Requests) + 2
Unset == "unset"     \* a file without logging.level
Empty == "empty"
LevelIn(content) == IF content = Unset THEN Default ELSE content

Init ==
  /\ config = 1 /\ tmp = 0
  /\ data \in [Inodes -> {Empty, Unset}] /\ \A n \in Inodes : data[n] = Unset <=> n = 1
  /\ levelVar = Default /\ shown = Default
  /\ up = TRUE
  /\ pc = [r \in Requests |-> "idle"]
  /\ want = [r \in Requests |-> Default]
  /\ fd = [r \in Requests |-> 0]
  /\ failures = 0 /\ crashes = 0
  /\ overlapped = FALSE

Goto(r, label) == pc' = [pc EXCEPT ![r] = label]

-----------------------------------------------------------------------------
(* handleLogLevel, with UpdateLogLevel inside                              *)

(* A level that ParseLevel accepts.                                        *)
Post(r) ==
  /\ up /\ pc[r] = "idle"
  /\ \E l \in Levels : want' = [want EXCEPT ![r] = l]
  /\ Goto(r, "read")
  /\ UNCHANGED <<files, levels, up, fd, budget>>

(* An answer, 200 or 500; the locals are gone.                             *)
Reply(r) ==
  /\ Goto(r, "idle")
  /\ want' = [want EXCEPT ![r] = Default]
  /\ fd' = [fd EXCEPT ![r] = 0]

(* The level is there already: nothing is written.                         *)
ReadSame(r) ==
  /\ up /\ pc[r] = "read" /\ data[config] = want[r]
  /\ Goto(r, "set")
  /\ UNCHANGED <<files, levels, up, want, fd, budget>>

ReadOther(r) ==
  /\ up /\ pc[r] = "read" /\ data[config] \notin {want[r], Empty}
  /\ Goto(r, "open")
  /\ UNCHANGED <<files, levels, up, want, fd, budget>>

(* No document in it: "unexpected YAML structure".                         *)
ReadEmpty(r) ==
  /\ up /\ pc[r] = "read" /\ data[config] = Empty
  /\ Reply(r)
  /\ UNCHANGED <<files, levels, up, budget>>

(* os.WriteFile, opening: the file at path + ".tmp" or a new one, emptied. *)
(* The mutant opens the configuration file itself.                         *)
Opened(r, n) ==
  /\ up /\ pc[r] = "open"
  /\ fd' = [fd EXCEPT ![r] = n]
  /\ data' = [data EXCEPT ![n] = Empty]
  /\ Goto(r, "write")
  /\ UNCHANGED <<config, levels, up, want, budget>>

FreeInode ==
  CHOOSE n \in Inodes : n # config /\ n # tmp /\ \A r \in Requests : fd[r] # n

OpenInPlace(r) == Opened(r, config) /\ tmp' = config
Open(r) ==
  LET n == IF tmp = 0 THEN FreeInode ELSE tmp
  IN  Opened(r, n) /\ tmp' = n

(* Through the open file, wherever its name has gone meanwhile.            *)
Write(r) ==
  /\ up /\ pc[r] = "write"
  /\ data' = [data EXCEPT ![fd[r]] = want[r]]
  /\ Goto(r, "rename")
  /\ UNCHANGED <<config, tmp, levels, up, want, fd, budget>>

Fail ==
  /\ failures < MaxFailures
  /\ failures' = failures + 1
  /\ UNCHANGED crashes

(* The file cannot be read, or the temporary file cannot be opened, or not *)
(* be written because the disk is full.  What there is of it stays.        *)
FileFails(r) ==
  /\ up /\ pc[r] \in {"read", "open", "write"}
  /\ Fail
  /\ Reply(r)
  /\ UNCHANGED <<files, levels, up>>

Rename(r) ==
  /\ up /\ pc[r] = "rename" /\ tmp # 0
  /\ config' = tmp /\ tmp' = 0
  /\ fd' = [fd EXCEPT ![r] = 0]
  /\ Goto(r, "set")
  /\ UNCHANGED <<data, levels, up, want, budget>>

(* Another request has renamed the file meanwhile, or the system refuses;  *)
(* os.Remove removes what is there by then.                                *)
RenameFails(r) ==
  /\ up /\ pc[r] = "rename"
  /\ (tmp = 0 /\ UNCHANGED budget) \/ Fail
  /\ Goto(r, "remove")
  /\ UNCHANGED <<files, levels, up, want, fd>>

RemoveTmp(r) ==
  /\ up /\ pc[r] = "remove"
  /\ tmp' = 0
  /\ Reply(r)
  /\ UNCHANGED <<config, data, levels, up, budget>>

SetLevel(r) ==
  /\ up /\ pc[r] = "set"
  /\ levelVar' = want[r]
  /\ Goto(r, "name")
  /\ UNCHANGED <<files, shown, up, want, fd, budget>>

(* The landing page's copy.                                                *)
SetName(r) ==
  /\ up /\ pc[r] = "name"
  /\ shown' = want[r]
  /\ Reply(r)
  /\ UNCHANGED <<files, levelVar, up, budget>>

-----------------------------------------------------------------------------
(* The process is killed, and started again: Load fails when there is no   *)
(* api_key in the file, as in an empty one.                                *)
Crash ==
  /\ up /\ crashes < MaxCrashes
  /\ crashes' = crashes + 1
  /\ up' = FALSE
  /\ pc' = [r \in Requests |-> "idle"]
  /\ want' = [r \in Requests |-> Default]
  /\ fd' = [r \in Requests |-> 0]
  /\ UNCHANGED <<files, levels, failures>>

Load ==
  /\ ~up /\ data[config] # Empty
  /\ up' = TRUE
  /\ levelVar' = LevelIn(data[config])
  /\ shown' = LevelIn(data[config])
  /\ UNCHANGED <<files, requests, budget>>

Handle(r) ==
  \/ ReadSame(r) \/ ReadOther(r) \/ ReadEmpty(r)
  \/ Open(r) \/ Write(r) \/ FileFails(r)
  \/ Rename(r) \/ RenameFails(r) \/ RemoveTmp(r)
  \/ SetLevel(r) \/ SetName(r)

Next ==
  /\ Crash \/ Load \/ \E r \in Requests : Post(r) \/ Handle(r)
  /\ overlapped' = (overlapped \/ \E q, r \in Requests : q # r /\ "idle" \notin {pc'[q], pc'[r]})

Spec == Init /\ [][Next]_vars

-----------------------------------------------------------------------------
(* Properties                                                              *)

(* Types; a temporary file is never the configuration file.                *)
TypeOK ==
  /\ config \in Inodes /\ tmp \in (Inodes \cup {0}) \ {config}
  /\ data \in [Inodes -> Levels \cup {Empty, Unset}]
  /\ levelVar \in Levels /\ shown \in Levels /\ up \in BOOLEAN
  /\ pc \in [Requests -> {"idle", "read", "open", "write", "rename", "remove", "set", "name"}]
  /\ want \in [Requests -> Levels] /\ fd \in [Requests -> Inodes \cup {0}]
  /\ failures \in 0..MaxFailures /\ crashes \in 0..MaxCrashes

Settled == up /\ \A r \in Requests : pc[r] = "idle"
Whole == data[config] # Empty

(* UpdateLogLevel writes the file back atomically (config.go:487): while   *)
(* requests come one at a time it is never without content, not even if    *)
(* the process dies or the disk is full, so the program can start again;   *)
(* and the file, the filter and the page agree whenever nothing is under   *)
(* way (actions.go:94-99).  However requests overlap, and whichever of     *)
(* them fail at the rename, what they leave behind in the end is whole,    *)
(* unless the system refused one or the process died.                      *)
LevelPersisted ==
  /\ ~overlapped => Whole /\ (Settled => levelVar = shown /\ levelVar = LevelIn(data[config]))
  /\ Settled /\ failures + crashes = 0 => Whole
=============================================================================
