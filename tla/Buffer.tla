------------------------------- MODULE Buffer -------------------------------
(***************************************************************************)
(* The followable byte log of one generation (store/internal/buffer): one  *)
(* writer that stores bytes and then publishes the new size, any number of *)
(* followers that snapshot the size, the terminal flags and the notify     *)
(* channel under the Buffer's lock and act on the snapshot after it, the   *)
(* fixed-size readers of a finished log, and the one read descriptor they  *)
(* all share.  The backing is a file (disk.go, sealed.go); an in-memory    *)
(* backing has no descriptor and nothing below it that can fail.           *)
(*                                                                         *)
(* Bytes are counted, never compared: [0,size) is immutable.               *)
(***************************************************************************)
EXTENDS Naturals, FiniteSets

CONSTANTS
  Readers,
  MaxSize,        \* bound: bytes the writer may append
  Truncates       \* whether the data file may be cut under the readers

ASSUME BufferAssumption ==
  /\ IsFiniteSet(Readers)
  /\ MaxSize \in Nat
  /\ Truncates \in BOOLEAN

VARIABLES
  stored,              \* bytes in the backing
  size, closed, aborted,
  armed,               \* readers whose captured notify channel is still open
  wpc,                 \* the writer's program point
  readFD, refs,        \* readShare: the shared descriptor (0 is nil), its count
  opened, openFDs,     \* descriptors ever opened; those open now
  unlinked,            \* the home was removed
  cut,                 \* history: the data file was truncated
  rpc, off, snap, fd,  \* per reader: point, offset, snapshot, captured descriptor
  canceled,
  closes,              \* how often Close was called
  result               \* what ended the stream

logVars   == <<stored, size, closed, aborted>>
shareVars == <<readFD, refs, opened, openFDs>>
readVars  == <<rpc, off, snap, fd, canceled, closes, result>>
fileVars  == <<unlinked, cut>>
vars == <<logVars, armed, wpc, shareVars, fileVars, readVars>>

Snapshot == [size : 0..MaxSize, closed : BOOLEAN, aborted : BOOLEAN]
Blank == [size |-> 0, closed |-> FALSE, aborted |-> FALSE]

TypeOK ==
  /\ stored \in 0..MaxSize /\ size \in 0..MaxSize
  /\ closed \in BOOLEAN /\ aborted \in BOOLEAN
  /\ armed \subseteq Readers
  /\ wpc \in {"writing", "stored", "sealed", "ended"}
  /\ refs \in 0..Cardinality(Readers)
  /\ opened \in Nat /\ readFD \in 0..opened /\ openFDs \subseteq 1..opened
  /\ unlinked \in BOOLEAN /\ cut \in BOOLEAN
  /\ rpc \in [Readers -> {"idle", "sized", "top", "snapped", "section", "done"}]
  /\ off \in [Readers -> 0..MaxSize]
  /\ snap \in [Readers -> Snapshot]
  /\ fd \in [Readers -> 0..opened]
  /\ canceled \in [Readers -> BOOLEAN]
  /\ closes \in [Readers -> 0..2]
  /\ result \in [Readers -> {"none", "eof", "aborted", "canceled", "torn", "noopen"}]

\* A live log, or one sealed at birth: recovered, finished, with no writer.
Init ==
  /\ \/ stored = 0 /\ closed = FALSE /\ wpc = "writing"
     \/ stored \in 0..MaxSize /\ closed = TRUE /\ wpc = "ended"
  /\ size = stored
  /\ aborted = FALSE /\ armed = {}
  /\ readFD = 0 /\ refs = 0 /\ opened = 0 /\ openFDs = {}
  /\ unlinked = FALSE /\ cut = FALSE
  /\ rpc = [r \in Readers |-> "idle"]
  /\ off = [r \in Readers |-> 0]
  /\ snap = [r \in Readers |-> Blank]
  /\ fd = [r \in Readers |-> 0]
  /\ canceled = [r \in Readers |-> FALSE]
  /\ closes = [r \in Readers |-> 0]
  /\ result = [r \in Readers |-> "none"]

-----------------------------------------------------------------------------
(* The writer *)

\* wakeLocked closes the channel every armed reader holds.
wakeNobody == armed
wake == {}

\* (publishing the size of a chunk before it is stored)
AppendPublishFirst ==
  /\ wpc = "writing"
  /\ size' \in (size + 1)..MaxSize
  /\ armed' = wake
  /\ stored' = size
  /\ wpc' = "stored"
  /\ UNCHANGED <<closed, aborted, shareVars, fileVars, readVars>>

\* Append: the backing first, possibly short ...
AppendStore ==
  /\ wpc = "writing"
  /\ stored' \in (stored + 1)..MaxSize
  /\ wpc' = "stored"
  /\ UNCHANGED <<size, closed, aborted, armed, shareVars, fileVars, readVars>>

\* ... then advance: publish what was stored and wake.
Advance ==
  /\ wpc = "stored"
  /\ size' = stored
  /\ armed' = wake
  /\ wpc' = "writing"
  /\ UNCHANGED <<stored, closed, aborted, shareVars, fileVars, readVars>>

\* The store flips the generation to finalized: no byte will follow.
Seal ==
  /\ wpc = "writing"
  /\ wpc' = "sealed"
  /\ UNCHANGED <<logVars, armed, shareVars, fileVars, readVars>>

Finish ==
  /\ wpc = "sealed"
  /\ closed' = TRUE
  /\ armed' = wake
  /\ wpc' = "ended"
  /\ UNCHANGED <<stored, size, aborted, shareVars, fileVars, readVars>>

Fail ==
  /\ wpc = "writing"
  /\ aborted' = TRUE
  /\ armed' = wake
  /\ wpc' = "ended"
  /\ UNCHANGED <<stored, size, closed, shareVars, fileVars, readVars>>

\* The store reclaims the home; open descriptors keep the bytes.
Unlink ==
  /\ wpc = "ended"
  /\ ~unlinked
  /\ unlinked' = TRUE
  /\ UNCHANGED <<logVars, armed, wpc, shareVars, cut, readVars>>

\* Something outside the program cuts the data file.
Truncate ==
  /\ Truncates
  /\ stored > 0
  /\ wpc \in {"sealed", "ended"}
  /\ stored' = stored - 1
  /\ cut' = TRUE
  /\ UNCHANGED <<size, closed, aborted, armed, wpc, shareVars, unlinked,
                 readVars>>

-----------------------------------------------------------------------------
(* The shared read descriptor *)

\* openRead: the first reader opens, the others share.  An open fails when the
\* file has no name any more, and may for want of descriptors; it counts nothing.
OpenRead(r, next) ==
  \/ /\ refs = 0
     /\ rpc' = [rpc EXCEPT ![r] = "done"]
     /\ result' = [result EXCEPT ![r] = "noopen"]
     /\ UNCHANGED <<shareVars, fd>>
  \/ /\ refs = 0 => ~unlinked
     /\ refs' = refs + 1
     /\ rpc' = [rpc EXCEPT ![r] = next]
     /\ IF refs = 0
          THEN /\ opened' = opened + 1
               /\ readFD' = opened + 1
               /\ openFDs' = openFDs \cup {opened + 1}
               /\ fd' = [fd EXCEPT ![r] = opened + 1]
          ELSE /\ fd' = [fd EXCEPT ![r] = readFD]
               /\ UNCHANGED <<opened, readFD, openFDs>>
     /\ UNCHANGED result

\* Reader: a follower from offset 0.
OpenFollower(r) ==
  /\ rpc[r] = "idle"
  /\ OpenRead(r, "top")
  /\ UNCHANGED <<logVars, armed, wpc, fileVars, off, snap, canceled, closes>>

\* Section: the size of a finalized log, then the descriptor.
SectionSize(r) ==
  /\ rpc[r] = "idle"
  /\ wpc = "sealed" \/ closed
  /\ snap' = [snap EXCEPT ![r].size = size]
  /\ rpc' = [rpc EXCEPT ![r] = "sized"]
  /\ UNCHANGED <<logVars, armed, wpc, shareVars, fileVars, off, fd, canceled,
                 closes, result>>

SectionOpen(r) ==
  /\ rpc[r] = "sized"
  /\ OpenRead(r, "section")
  /\ UNCHANGED <<logVars, armed, wpc, fileVars, off, snap, canceled, closes>>

\* Close releases once, however often it is called; the last one out closes
\* the descriptor.
releasesAlways(r) == TRUE
releases(r) == closes[r] = 0

Close(r) ==
  /\ fd[r] # 0
  /\ rpc[r] \in {"top", "section", "done"}
  /\ closes[r] < 2
  /\ closes' = [closes EXCEPT ![r] = @ + 1]
  /\ rpc' = [rpc EXCEPT ![r] = "done"]
  /\ IF releases(r)
       THEN /\ refs' = refs - 1
            /\ openFDs' = IF refs = 1 THEN openFDs \ {readFD} ELSE openFDs
            /\ readFD' = IF refs = 1 THEN 0 ELSE readFD
       ELSE UNCHANGED <<refs, openFDs, readFD>>
  /\ UNCHANGED <<logVars, armed, wpc, opened, fileVars, off, snap, fd,
                 canceled, result>>

-----------------------------------------------------------------------------
(* The follower's Read loop and the section's Read *)

Ended(r, why) ==
  /\ rpc' = [rpc EXCEPT ![r] = "done"]
  /\ result' = [result EXCEPT ![r] = why]

Cancel(r) ==
  /\ rpc[r] \in {"top", "snapped"}
  /\ ~canceled[r]
  /\ canceled' = [canceled EXCEPT ![r] = TRUE]
  /\ UNCHANGED <<logVars, armed, wpc, shareVars, fileVars, rpc, off, snap, fd,
                 closes, result>>

\* The top of a turn: the context, then the snapshot with the channel.
ReadTop(r) ==
  /\ rpc[r] = "top"
  /\ IF canceled[r]
       THEN Ended(r, "canceled") /\ UNCHANGED <<armed, snap>>
       ELSE /\ snap' = [snap EXCEPT ![r] = [size |-> size, closed |-> closed,
                                            aborted |-> aborted]]
            /\ armed' = armed \cup {r}
            /\ rpc' = [rpc EXCEPT ![r] = "snapped"]
            /\ UNCHANGED result
  /\ UNCHANGED <<logVars, wpc, shareVars, fileVars, off, fd, canceled, closes>>

\* readRegion: some bytes below the bound, or a truncation that tears.
readRegion(r, back) ==
  \/ /\ \E n \in 1..(snap[r].size - off[r]) :
          /\ off[r] + n <= stored
          /\ off' = [off EXCEPT ![r] = @ + n]
     /\ rpc' = [rpc EXCEPT ![r] = back]
     /\ UNCHANGED result
  \/ /\ stored < snap[r].size
     /\ off' = [off EXCEPT ![r] = IF stored > @ THEN stored ELSE @]
     /\ Ended(r, "torn")

ReadBytes(r) ==
  /\ rpc[r] = "snapped"
  /\ off[r] < snap[r].size
  /\ readRegion(r, "top")
  /\ armed' = armed \ {r}
  /\ UNCHANGED <<logVars, wpc, shareVars, fileVars, snap, fd, canceled, closes>>

\* Caught up: the terminal decides, the torn one first.
endsAlwaysEOF(s) == "eof"
endsWith(s) == IF s.aborted THEN "aborted" ELSE "eof"

ReadEnd(r) ==
  /\ rpc[r] = "snapped"
  /\ off[r] = snap[r].size
  /\ snap[r].aborted \/ snap[r].closed
  /\ Ended(r, endsWith(snap[r]))
  /\ armed' = armed \ {r}
  /\ UNCHANGED <<logVars, wpc, shareVars, fileVars, off, snap, fd, canceled,
                 closes>>

\* Caught up and live: the select on the captured channel and the context.
ReadWait(r) ==
  /\ rpc[r] = "snapped"
  /\ off[r] = snap[r].size
  /\ ~snap[r].aborted /\ ~snap[r].closed
  /\ \/ r \notin armed /\ rpc' = [rpc EXCEPT ![r] = "top"] /\ UNCHANGED result
     \/ canceled[r] /\ Ended(r, "canceled")
  /\ armed' = armed \ {r}
  /\ UNCHANGED <<logVars, wpc, shareVars, fileVars, off, snap, fd, canceled,
                 closes>>

SectionRead(r) ==
  /\ rpc[r] = "section"
  /\ IF off[r] >= snap[r].size THEN Ended(r, "eof") /\ UNCHANGED off
                               ELSE readRegion(r, "section")
  /\ UNCHANGED <<logVars, armed, wpc, shareVars, fileVars, snap, fd, canceled,
                 closes>>

-----------------------------------------------------------------------------
WriterStep == AppendStore \/ Advance \/ Seal \/ Finish \/ Fail

ReadStep(r) == \/ ReadTop(r) \/ ReadBytes(r) \/ ReadEnd(r) \/ ReadWait(r)
               \/ SectionOpen(r) \/ SectionRead(r)

Next ==
  \/ WriterStep \/ Unlink \/ Truncate
  \/ \E r \in Readers : \/ OpenFollower(r) \/ SectionSize(r) \/ ReadStep(r)
                        \/ Close(r) \/ Cancel(r)

Spec == Init /\ [][Next]_vars

\* The writer always reaches a terminal (the handler's deferred Abort), a
\* reader keeps reading, and its handler closes it when the stream has ended.
Fairness ==
  /\ WF_vars(WriterStep)
  /\ \A r \in Readers : /\ WF_vars(ReadStep(r))
                        /\ WF_vars(Close(r) /\ rpc[r] = "done" /\ closes[r] = 0)

FairSpec == Spec /\ Fairness

-----------------------------------------------------------------------------
(* Properties *)

\* A stream's end tells the truth.  A clean EOF is only ever read at the final
\* size of a log that was finished: never for a torn log, never before the last
\* byte, never because a backing came up short.  And no published byte is
\* missing, since Append stores before it publishes: a stream tears only if the
\* file was cut.
EndIsHonest ==
  \A r \in Readers :
    /\ result[r] = "eof" => off[r] = size /\ ~aborted /\ wpc \in {"sealed", "ended"}
    /\ result[r] = "torn" => cut

\* A follower about to wait, or waiting, on an open channel is up to date:
\* nothing was published and no terminal set since its snapshot.
NoLostWakeup ==
  \A r \in armed : snap[r] = [size |-> size, closed |-> closed, aborted |-> aborted]

\* The shared descriptor is open exactly while some reader holds it, the one
\* captured is the one open, and nothing else is: no use after close, no leak.
holding == {r \in Readers : fd[r] # 0 /\ closes[r] = 0}
DescriptorShared ==
  /\ refs = Cardinality(holding)
  /\ openFDs = {fd[r] : r \in holding}
  /\ Cardinality(openFDs) <= 1
  /\ readFD # 0 <=> refs > 0

\* Every reader that follows gets an answer, and its descriptor goes.
FollowersEnd ==
  \A r \in Readers : rpc[r] # "idle" ~> rpc[r] = "done" /\ r \notin holding
=============================================================================
