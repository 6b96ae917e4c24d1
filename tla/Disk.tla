-------------------------------- MODULE Disk --------------------------------
(***************************************************************************)
(* The disk medium and startup recovery, for the generations of one name:  *)
(* the directory clips/<genid> with its data file and its marker, the      *)
(* rename-then-fsync commits (publish, claim, unpublish, abort), the       *)
(* best-effort RemoveAll, process crashes and power losses between any two *)
(* of those, and the boot's scan, per-name contest and restore.            *)
(*                                                                         *)
(* vol is what a running process sees, dur what is on stable storage.  An  *)
(* fsync copies one part of a home from vol to dur; the kernel may write   *)
(* any part back at any time.  A process crash keeps vol, a power loss     *)
(* replaces it by dur.                                                     *)
(*                                                                         *)
(* Of the store above only what decides which medium call comes next is    *)
(* kept (module Slot has the rest): the gate, current, live.  A claimed    *)
(* generation leaves current at the claim.                                 *)
(***************************************************************************)
EXTENDS Naturals, FiniteSets

CONSTANTS
  Settings,          \* the servers considered, see Setting
  Crashes,           \* kinds of crash: subset of {"process", "power"}
  Backward,          \* whether the wall clock may jump backwards
  MaxGen             \* bound: generations ever minted

Calls == {"create", "sync", "write", "rename", "syncdir", "remove"}

\* DiskOpts; the system calls that may fail, whether writes are consume-once,
\* and a bound on the crashes.
Setting == [fsync : BOOLEAN, checksum : BOOLEAN, faults : SUBSET Calls,
            consume : SUBSET BOOLEAN, crashes : 0..2]

ASSUME DiskAssumption ==
  /\ Settings \subseteq Setting
  /\ Crashes \subseteq {"process", "power"} /\ Backward \in BOOLEAN
  /\ MaxGen \in Nat

Gens  == 1..MaxGen           \* in mint order; 0 is none
Names == {"data", "meta.json.tmp", "meta.json", "meta.consumed",
          "meta.deleted", "meta.aborted"}

Home == [place : {"none", "clips", "quarantine"},
         names : SUBSET Names,
         data  : {"short", "garbled", "full"},   \* the data file's content
         record : {"torn", "whole"}]             \* the metadata's content

NoHome == [place |-> "none", names |-> {}, data |-> "short", record |-> "torn"]

VARIABLES
  setting,           \* fixed at the start
  vol, dur,          \* [Gens -> Home]
  minted, secret,    \* generations minted; the consume-once ones
  prefix, seed,      \* id prefixes; lastPrefix
  phase,             \* "up", "scan" or "contest"
  current, live,     \* the name's pointers (current is the winner in a contest)
  wpc,               \* the writer's program point
  lock,              \* the medium call in progress under the gate
  doomed,            \* homes whose RemoveAll is running
  streaming,         \* claimed generations a reader is draining
  deleting,          \* generations whose Delete has not returned yet
  scanned, cands,    \* recovery's progress
  crashes,
  (* history *)
  latest,            \* the last generation flipped in, or reinstated, as current
  touched,           \* generations a claim or a retire has renamed
  delivered,         \* claims that succeeded
  failed,            \* writes reported as failed
  warned,            \* abortPublish faults logged
  deletedTo          \* the last generation whose Delete returned success

Fsync    == setting.fsync
Checksum == setting.checksum
Faults   == setting.faults
Consume  == setting.consume
MaxCrashes == setting.crashes

diskVars == <<vol, dur>>
idVars   == <<minted, secret, prefix>>
slotVars == <<current, live, seed>>
opVars   == <<wpc, lock, streaming, deleting>>
bootVars == <<phase, scanned, cands, crashes>>
histVars == <<latest, touched, delivered, failed, warned, deletedTo>>
vars == <<setting, diskVars, idVars, slotVars, opVars, doomed, bootVars, histVars>>

WriterPoints == {"none", "writing", "synced", "recorded", "renamed", "flip",
                 "retire", "retiring", "discard"}

TypeOK ==
  /\ setting \in Setting
  /\ vol \in [Gens -> Home] /\ dur \in [Gens -> Home]
  /\ minted \in 0..MaxGen /\ secret \subseteq Gens
  /\ prefix \in [Gens -> Nat] /\ seed \in Nat
  /\ phase \in {"up", "scan", "contest"}
  /\ current \in 0..MaxGen /\ live \in 0..MaxGen
  /\ wpc \in WriterPoints
  /\ lock \in {"free", "claim", "delete"}
  /\ doomed \subseteq Gens /\ streaming \subseteq Gens /\ deleting \subseteq Gens
  /\ scanned \subseteq Gens /\ cands \subseteq Gens
  /\ crashes \in 0..MaxCrashes
  /\ latest \in 0..MaxGen /\ deletedTo \in 0..MaxGen
  /\ touched \subseteq Gens /\ delivered \subseteq Gens
  /\ failed \subseteq Gens /\ warned \subseteq Gens

Init ==
  /\ setting \in Settings
  /\ vol = [g \in Gens |-> NoHome] /\ dur = vol
  /\ minted = 0 /\ secret = {} /\ prefix = [g \in Gens |-> 0] /\ seed = 0
  /\ phase = "up" /\ scanned = {} /\ cands = {} /\ crashes = 0
  /\ current = 0 /\ live = 0
  /\ wpc = "none" /\ lock = "free"
  /\ doomed = {} /\ streaming = {} /\ deleting = {}
  /\ latest = 0 /\ deletedTo = 0
  /\ touched = {} /\ delivered = {} /\ failed = {} /\ warned = {}

-----------------------------------------------------------------------------
(* The file system *)

renamed(g, from, to) == [vol EXCEPT ![g].names = (@ \ {from}) \cup {to}]

\* What syncDir(genDir) makes durable: the names in the directory.
syncDirSkipped(g) == dur
syncDir(g) == IF Fsync THEN [dur EXCEPT ![g].names = vol[g].names] ELSE dur

\* RemoveAll takes the files one by one, in any order, then the directory.
Unlink(g) ==
  /\ g \in doomed
  /\ \E n \in vol[g].names : vol' = [vol EXCEPT ![g].names = @ \ {n}]
  /\ UNCHANGED <<dur, idVars, slotVars, opVars, doomed, bootVars, histVars>>

Rmdir(g) ==
  /\ g \in doomed
  /\ vol[g].names = {}
  /\ vol' = [vol EXCEPT ![g].place = "none"]
  /\ doomed' = doomed \ {g}
  /\ UNCHANGED <<dur, idVars, slotVars, opVars, bootVars, histVars>>

\* A RemoveAll that stops part way is logged and forgotten.
RemoveFails(g) ==
  /\ "remove" \in Faults
  /\ g \in doomed
  /\ doomed' = doomed \ {g}
  /\ UNCHANGED <<diskVars, idVars, slotVars, opVars, bootVars, histVars>>

\* The kernel writes back one part of a home; data may reach its length
\* before its content.
Writeback(g) ==
  /\ "power" \in Crashes /\ crashes < MaxCrashes
  /\ \/ dur' = [dur EXCEPT ![g].place = vol[g].place]
     \/ dur' = [dur EXCEPT ![g].names = vol[g].names]
     \/ dur' = [dur EXCEPT ![g].record = vol[g].record]
     \/ dur' = [dur EXCEPT ![g].data = vol[g].data]
     \/ /\ vol[g].data = "full" /\ dur[g].data = "short"
        /\ dur' = [dur EXCEPT ![g].data = "garbled"]
  /\ dur' # dur
  /\ UNCHANGED <<vol, idVars, slotVars, opVars, doomed, bootVars, histVars>>

Crash(kind) ==
  /\ kind \in Crashes
  /\ crashes < MaxCrashes
  /\ crashes' = crashes + 1
  /\ vol' = IF kind = "power" THEN dur ELSE vol
  /\ phase' = "scan" /\ scanned' = {} /\ cands' = {}
  /\ current' = 0 /\ live' = 0 /\ seed' = 0
  /\ wpc' = "none" /\ lock' = "free"
  /\ doomed' = {} /\ streaming' = {} /\ deleting' = {}
  /\ UNCHANGED <<dur, idVars, histVars>>

-----------------------------------------------------------------------------
(* Create and the writer's Close (disk.go create and finalize, writer.go) *)

Gate == phase = "up" /\ lock = "free"

allocate(t) == IF t <= seed THEN seed + 1 ELSE t
readings == IF Backward THEN 1..(minted + 1) ELSE {minted + 1}

\* Mkdir, the fsync of clips/, the data file; a fault undoes the directory.
Create ==
  LET g == minted + 1
  IN  /\ Gate
      /\ live = 0
      /\ minted < MaxGen
      /\ minted' = g
      /\ \E once \in Consume : secret' = IF once THEN secret \cup {g} ELSE secret
      /\ \E t \in readings : /\ prefix' = [prefix EXCEPT ![g] = allocate(t)]
                             /\ seed' = allocate(t)
      /\ vol' = [vol EXCEPT ![g].place = "clips", ![g].names = {"data"}]
      /\ \/ /\ dur' = IF Fsync THEN [dur EXCEPT ![g].place = "clips"] ELSE dur
            /\ live' = g
            /\ wpc' = "writing"
            /\ UNCHANGED <<doomed, failed>>
         \/ /\ "create" \in Faults
            /\ doomed' = doomed \cup {g}
            /\ failed' = failed \cup {g}
            /\ UNCHANGED <<dur, live, wpc>>
      /\ UNCHANGED <<current, lock, streaming, deleting, bootVars, latest,
                     touched, delivered, warned, deletedTo>>

\* One step of the writer's Close: from one point to the next, touching disk.
Step(from, to) ==
  /\ phase = "up"
  /\ wpc = from
  /\ wpc' = to
  /\ UNCHANGED <<idVars, slotVars, lock, streaming, deleting, doomed,
                 bootVars, latest, touched, delivered, failed, deletedTo>>

\* All bytes are in; buf.Sync flushes them.
syncedNot(g) == dur
synced(g) == IF Fsync THEN [dur EXCEPT ![g].data = "full"] ELSE dur

CloseSync ==
  /\ \/ Step("writing", "synced") /\ dur' = synced(live)
     \/ Step("writing", "discard") /\ "sync" \in Faults /\ UNCHANGED dur
  /\ vol' = [vol EXCEPT ![live].data = "full"]
  /\ UNCHANGED warned

\* writeMeta: the record goes to meta.json.tmp and is flushed there.
CloseRecord ==
  /\ \/ /\ Step("synced", "recorded")
        /\ dur' = IF Fsync THEN [dur EXCEPT ![live].record = "whole"] ELSE dur
     \/ Step("synced", "discard") /\ "write" \in Faults /\ UNCHANGED dur
  /\ vol' = [vol EXCEPT ![live].names = @ \cup {"meta.json.tmp"},
                        ![live].record = "whole"]
  /\ UNCHANGED warned

\* commit's rename: the point of no return.
ClosePublish ==
  /\ \/ /\ Step("recorded", "renamed")
        /\ vol' = renamed(live, "meta.json.tmp", "meta.json")
     \/ Step("recorded", "discard") /\ "rename" \in Faults /\ UNCHANGED vol
  /\ UNCHANGED <<dur, warned>>

\* commit's fsync.  A publish that took but did not flush is retired first.
publishFailedPlain == "discard"
publishFailed == "retire"

CloseCommit ==
  /\ \/ Step("renamed", "flip") /\ dur' = syncDir(live)
     \/ /\ Step("renamed", publishFailed)
        /\ Fsync /\ "syncdir" \in Faults /\ UNCHANGED dur
  /\ UNCHANGED <<vol, warned>>

\* abortPublish: meta.json to meta.aborted, then the fsync; a fault is logged.
AbortRename ==
  /\ \/ /\ Step("retire", "retiring")
        /\ vol' = renamed(live, "meta.json", "meta.aborted")
        /\ UNCHANGED warned
     \/ /\ Step("retire", "discard")
        /\ "rename" \in Faults
        /\ warned' = warned \cup {live}
        /\ UNCHANGED vol
  /\ UNCHANGED dur

AbortSync ==
  /\ Step("retiring", "discard")
  /\ \/ dur' = syncDir(live) /\ UNCHANGED warned
     \/ "syncdir" \in Faults /\ warned' = warned \cup {live} /\ UNCHANGED dur
  /\ UNCHANGED vol

\* The client went away, or its body broke off.
Abort == Step("writing", "discard") /\ UNCHANGED <<diskVars, warned>>

\* The flip under the gate; the superseded home is then removed off it.
CloseFlip ==
  /\ Gate
  /\ wpc = "flip"
  /\ doomed' = IF current # 0 THEN doomed \cup {current} ELSE doomed
  /\ current' = live
  /\ latest' = live
  /\ live' = 0
  /\ wpc' = "none"
  /\ UNCHANGED <<diskVars, idVars, seed, lock, streaming, deleting, bootVars,
                 touched, delivered, failed, warned, deletedTo>>

\* discard, once per writer (its done flag).
Discard ==
  /\ Gate
  /\ wpc = "discard"
  /\ doomed' = doomed \cup {live}
  /\ failed' = failed \cup {live}
  /\ live' = 0
  /\ wpc' = "none"
  /\ UNCHANGED <<diskVars, idVars, current, seed, lock, streaming, deleting,
                 bootVars, latest, touched, delivered, warned, deletedTo>>

-----------------------------------------------------------------------------
(* The claim and the retire: rename and fsync under the gate.  A rename that *)
(* fails leaves everything as it was, in memory and on disk.                 *)

ClaimRename ==
  /\ Gate
  /\ current \in secret
  /\ vol' = renamed(current, "meta.json", "meta.consumed")
  /\ lock' = "claim"
  /\ touched' = touched \cup {current}
  /\ UNCHANGED <<dur, idVars, slotVars, wpc, streaming, deleting, doomed,
                 bootVars, latest, delivered, failed, warned, deletedTo>>

\* Durable: the reader gets the bytes.  Not durable: forfeit, destroyed.
ClaimCommit ==
  /\ lock = "claim"
  /\ lock' = "free"
  /\ current' = 0
  /\ \/ /\ dur' = syncDir(current)
        /\ delivered' = delivered \cup {current}
        /\ streaming' = streaming \cup {current}
        /\ UNCHANGED doomed
     \/ /\ Fsync /\ "syncdir" \in Faults
        /\ doomed' = doomed \cup {current}
        /\ UNCHANGED <<dur, delivered, streaming>>
  /\ UNCHANGED <<vol, idVars, live, seed, wpc, deleting, bootVars, latest,
                 touched, failed, warned, deletedTo>>

ReaderClose(g) ==
  /\ g \in streaming
  /\ streaming' = streaming \ {g}
  /\ doomed' = doomed \cup {g}
  /\ UNCHANGED <<diskVars, idVars, slotVars, wpc, lock, deleting, bootVars,
                 histVars>>

DeleteRename ==
  /\ Gate
  /\ current # 0
  /\ vol' = renamed(current, "meta.json", "meta.deleted")
  /\ lock' = "delete"
  /\ touched' = touched \cup {current}
  /\ UNCHANGED <<dur, idVars, slotVars, wpc, streaming, deleting, doomed,
                 bootVars, latest, delivered, failed, warned, deletedTo>>

\* Both arms clear current and reclaim; only a flushed one will succeed.  A
\* reap is the same, with nobody to answer.
DeleteCommit ==
  /\ lock = "delete"
  /\ lock' = "free"
  /\ current' = 0
  /\ doomed' = doomed \cup {current}
  /\ \/ dur' = syncDir(current) /\ deleting' \in {deleting, deleting \cup {current}}
     \/ Fsync /\ "syncdir" \in Faults /\ UNCHANGED <<dur, deleting>>
  /\ UNCHANGED <<vol, idVars, live, seed, wpc, streaming, bootVars, histVars>>

DeleteReturn(g) ==
  /\ g \in deleting \ doomed
  /\ deleting' = deleting \ {g}
  /\ deletedTo' = IF g > deletedTo THEN g ELSE deletedTo
  /\ UNCHANGED <<diskVars, idVars, slotVars, wpc, lock, streaming, doomed,
                 bootVars, latest, touched, delivered, failed, warned>>

\* The last lease of an empty name is released: the handle and its seed go.
Evict ==
  /\ Gate
  /\ current = 0 /\ live = 0 /\ seed # 0
  /\ doomed = {} /\ streaming = {} /\ deleting = {}
  /\ seed' = 0
  /\ UNCHANGED <<diskVars, idVars, current, live, opVars, doomed, bootVars,
                 histVars>>

-----------------------------------------------------------------------------
(* Recovery (recovery.go): single-threaded, before anything is served *)

Listed == {g \in Gens : vol[g].place = "clips"}

\* The record against the bytes: its size always, its checksum if kept.
mismatchIgnored(g) == FALSE
mismatch(g) == vol[g].data = "short" \/ (Checksum /\ vol[g].data = "garbled")

\* meta.json alone marks a finalized generation.
finalized(g) == "meta.json" \in vol[g].names

\* classify's ordered tree: no marker, an unreadable one, no bytes, a mismatch.
verdict(g) ==
  IF ~finalized(g) THEN "garbage"
  ELSE IF vol[g].record = "torn" THEN "quarantine"
  ELSE IF "data" \notin vol[g].names THEN "garbage"
  ELSE IF mismatch(g) THEN "quarantine"
  ELSE "candidate"

Classify(g) ==
  /\ phase = "scan"
  /\ doomed = {}
  /\ g \in Listed \ scanned
  /\ scanned' = scanned \cup {g}
  /\ cands' = IF verdict(g) = "candidate" THEN cands \cup {g} ELSE cands
  /\ doomed' = IF verdict(g) = "garbage" THEN {g} ELSE {}
  /\ IF verdict(g) = "quarantine"
       THEN \/ vol' = [vol EXCEPT ![g].place = "quarantine"]
            \/ "rename" \in Faults /\ UNCHANGED vol
       ELSE UNCHANGED vol
  /\ UNCHANGED <<dur, idVars, slotVars, opVars, phase, crashes, histVars>>

\* The greatest id wins; the random tail decides between equal prefixes.
winners == {k \in cands : \A c \in cands : prefix[k] >= prefix[c]}
losersKept(k) == {}
losers(k) == cands \ {k}

Contest ==
  /\ phase = "scan"
  /\ doomed = {}
  /\ Listed \subseteq scanned
  /\ phase' = "contest"
  /\ IF cands = {}
       THEN UNCHANGED <<current, doomed>>
       ELSE \E k \in winners : current' = k /\ doomed' = losers(k)
  /\ UNCHANGED <<diskVars, idVars, live, seed, opVars, scanned, cands, crashes,
                 histVars>>

reseedNot(g) == 0
reseed(g) == IF g = 0 THEN 0 ELSE prefix[g]

Restore ==
  /\ phase = "contest"
  /\ doomed = {}
  /\ phase' = "up"
  /\ seed' = reseed(current)
  /\ latest' = IF current > latest THEN current ELSE latest
  /\ scanned' = {} /\ cands' = {}
  /\ UNCHANGED <<diskVars, idVars, current, live, opVars, doomed, crashes,
                 touched, delivered, failed, warned, deletedTo>>

-----------------------------------------------------------------------------
Operation ==
  \/ Create \/ CloseSync \/ CloseRecord \/ ClosePublish \/ CloseCommit
  \/ AbortRename \/ AbortSync \/ Abort \/ CloseFlip \/ Discard
  \/ ClaimRename \/ ClaimCommit \/ DeleteRename \/ DeleteCommit \/ Evict
  \/ Contest \/ Restore
  \/ \E g \in Gens : \/ ReaderClose(g) \/ DeleteReturn(g) \/ Classify(g)
                     \/ Unlink(g) \/ Rmdir(g) \/ RemoveFails(g) \/ Writeback(g)
  \/ \E kind \in Crashes : Crash(kind)

Next == Operation /\ UNCHANGED setting

Spec == Init /\ [][Next]_vars

-----------------------------------------------------------------------------
(* Properties *)

\* What the directory fsync is for, or what needs none.
Durable == Fsync \/ Crashes = {"process"}

\* What ended does not come back, whatever crashed since: a consume-once value
\* that was handed out is never readable again (claim's rename is flushed before
\* any byte ships), and neither is a write reported as failed, except where
\* abortPublish logged that it might be.
GoneStaysGone ==
  phase = "up" /\ lock = "free" /\ Durable =>
    current \notin delivered \cup (failed \ warned)

\* The last published value is still readable after any crash, unless a claim
\* or a removal got hold of it, or a newer write took its place: no older or
\* no value ever stands in for it.
PublishedSurvives ==
  phase = "up" /\ Durable /\ latest # 0 /\ latest \notin touched => current >= latest

\* What is readable is whole: recovery never reinstates truncated or, with
\* checksums on, corrupted bytes.
ServedIntact == phase = "up" /\ current # 0 => vol[current].data = "full"

\* A finalize marker on disk means a readable value: besides current only the
\* write being published, a home being removed or a value under a commit has
\* one, so the next boot has no stale value to reinstate.
MarkerMeansCurrent ==
  phase = "up" =>
    \A g \in Listed : finalized(g) => g \in {current, live} \cup doomed

\* Delete: "A retire that cannot be made durable fails the Delete, wrapped,
\* rather than reporting a success a crash could silently undo".
DeleteNotUndone == phase = "up" => current = 0 \/ current > deletedTo
=============================================================================
