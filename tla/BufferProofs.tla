---------------------------- MODULE BufferProofs ----------------------------
(***************************************************************************)
(* The followable log (store/internal/buffer), for logs of any size and    *)
(* any finite number of readers: a stream's end is honest, no wakeup is    *)
(* lost, and the shared descriptor is open exactly while it is held.       *)
(***************************************************************************)
EXTENDS Buffer, FiniteSetTheorems, TLAPS

Readable == {"sealed", "ended"}     \* no byte will follow

\* The writer: what is published was stored first and is there until the file is
\* cut, and a log has one terminal.
LogInv ==
  /\ stored \in Nat /\ size \in Nat
  /\ wpc \in {"writing", "stored", "sealed", "ended"}
  /\ ~cut => size <= stored
  /\ wpc = "writing" => ~cut /\ size = stored
  /\ wpc = "stored" => ~cut
  /\ closed \/ aborted => wpc = "ended"
  /\ ~(closed /\ aborted)
  /\ closed \in BOOLEAN /\ aborted \in BOOLEAN

\* A reader: how its offset, its snapshot and the log compare at each point.
Stream(r) ==
  /\ off[r] <= size /\ snap[r].size <= size
  /\ rpc[r] = "idle" => off[r] = 0
  /\ rpc[r] \in {"sized", "snapped", "section"} => off[r] <= snap[r].size
  /\ rpc[r] \in {"sized", "section"} =>
       (wpc = "sealed" \/ closed) /\ snap[r].size = size
  /\ rpc[r] = "snapped" /\ snap[r].closed => closed /\ snap[r].size = size
  /\ result[r] # "none" => rpc[r] = "done"
  /\ result[r] = "eof" => off[r] = size /\ ~aborted /\ wpc \in Readable
  /\ result[r] = "torn" => cut
StreamsInv ==
  /\ DOMAIN rpc = Readers /\ DOMAIN result = Readers
  /\ off \in [Readers -> Nat]
  /\ snap \in [Readers -> [size : Nat, closed : BOOLEAN, aborted : BOOLEAN]]
  /\ \A r \in Readers : Stream(r)

\* An open channel's captor has an exact snapshot.
WakeInv ==
  /\ armed \subseteq Readers
  /\ \A r \in armed : rpc[r] = "snapped"
  /\ NoLostWakeup

\* The shared descriptor: its holders have the open one, and are counted.
ShareInv ==
  /\ DOMAIN fd = Readers /\ DOMAIN closes = Readers
  /\ opened \in Nat /\ readFD \in Nat /\ refs \in Nat
  /\ \A r \in Readers : closes[r] \in Nat
  /\ \A r \in Readers : rpc[r] \in {"idle", "sized"} => fd[r] = 0 /\ closes[r] = 0
  /\ \A r \in holding : fd[r] = readFD
  /\ refs = Cardinality(holding)
  /\ readFD = 0 <=> holding = {}
  /\ openFDs = IF readFD = 0 THEN {} ELSE {readFD}

BufferInv == LogInv /\ StreamsInv /\ WakeInv /\ ShareInv

-----------------------------------------------------------------------------
(* Steps by whom they belong to *)

LogStep == WriterStep \/ Unlink \/ Truncate
Reading(r) == \/ OpenFollower(r) \/ SectionSize(r) \/ ReadStep(r) \/ Close(r)
              \/ Cancel(r)

LEMMA NextSplits == Next <=> LogStep \/ \E r \in Readers : Reading(r)
BY DEF Next, LogStep, Reading

LEMMA ReadersOnlyRead ==
  ASSUME NEW r \in Readers, Reading(r)
  PROVE  UNCHANGED <<logVars, wpc, fileVars>>
BY DEF Reading, OpenFollower, SectionSize, ReadStep, ReadTop, ReadBytes, ReadEnd,
       ReadWait, SectionOpen, SectionRead, Close, Cancel

LEMMA WriterLeavesReaders ==
  ASSUME LogStep
  PROVE  UNCHANGED <<shareVars, readVars>>
BY DEF LogStep, WriterStep, AppendStore, Advance, Seal, Finish, Fail, Unlink, Truncate

LEMMA BufferStarts == Init => BufferInv
<1> SUFFICES ASSUME Init PROVE BufferInv
  OBVIOUS
<1>1. LogInv
  <2>1. ~cut /\ ~aborted /\ aborted \in BOOLEAN /\ closed \in BOOLEAN
    BY Zenon DEF Init
  <2>2. stored \in Nat /\ size = stored
    BY BufferAssumption DEF Init
  <2>3. wpc \in {"writing", "ended"} /\ (closed => wpc = "ended")
    BY Zenon DEF Init
  <2> QED
    BY <2>1, <2>2, <2>3 DEF LogInv
<1>2. StreamsInv
  BY BufferAssumption DEF Init, StreamsInv, Stream, Blank
<1>3. WakeInv
  BY DEF Init, WakeInv, NoLostWakeup
<1>4. holding = {}
  BY DEF Init, holding
<1>5. ShareInv
  BY <1>4, FS_EmptySet DEF Init, ShareInv
<1> QED
  BY <1>1, <1>2, <1>3, <1>5 DEF BufferInv

-----------------------------------------------------------------------------
(* The writer's steps *)

LEMMA LogKeeps ==
  ASSUME LogInv, LogStep
  PROVE  LogInv'
<1> USE BufferAssumption DEF LogInv, fileVars
<1>1. CASE AppendStore
  BY <1>1 DEF AppendStore
<1>2. CASE Advance
  BY <1>2 DEF Advance
<1>3. CASE Seal
  BY <1>3 DEF Seal, logVars
<1>4. CASE Finish
  BY <1>4 DEF Finish
<1>5. CASE Fail
  BY <1>5 DEF Fail
<1>6. CASE Unlink
  BY <1>6 DEF Unlink, logVars
<1>7. CASE Truncate
  BY <1>7 DEF Truncate
<1> QED
  BY <1>1, <1>2, <1>3, <1>4, <1>5, <1>6, <1>7 DEF LogStep, WriterStep

\* What a writer's step does to what readers see: the size grows only before the
\* end, the terminals stay, and every change wakes.
LEMMA LogMoves ==
  ASSUME LogInv, LogStep
  PROVE  /\ size <= size'
         /\ wpc \in Readable => size' = size /\ wpc' \in Readable
         /\ wpc \in Readable => (aborted' <=> aborted)
         /\ closed => closed' /\ wpc' = "ended"
         /\ closed \/ aborted => UNCHANGED <<closed, aborted>>
         /\ cut => cut'
         /\ wpc = "sealed" => wpc' = "sealed" \/ closed'
         /\ armed' = {} \/ UNCHANGED <<size, closed, aborted, armed>>
<1> USE BufferAssumption DEF LogInv, Readable, wake
<1>1. CASE AppendStore
  BY <1>1 DEF AppendStore, fileVars
<1>2. CASE Advance
  BY <1>2 DEF Advance, fileVars
<1>3. CASE Seal
  BY <1>3 DEF Seal, logVars
<1>4. CASE Finish
  <2>1. closed'
    BY <1>4, Zenon DEF Finish
  <2>2. ~closed /\ ~aborted /\ wpc = "sealed" /\ armed' = {}
    BY <1>4 DEF Finish
  <2>3. (aborted' <=> aborted) /\ (cut => cut')
    BY <1>4, Zenon DEF Finish, fileVars
  <2>4. size' = size /\ size <= size' /\ wpc' = "ended"
    BY <1>4 DEF Finish
  <2> QED
    BY <2>1, <2>2, <2>3, <2>4, Zenon
<1>5. CASE Fail
  BY <1>5 DEF Fail, fileVars
<1>6. CASE Unlink
  BY <1>6 DEF Unlink, logVars
<1>7. CASE Truncate
  BY <1>7 DEF Truncate, fileVars
<1> QED
  BY <1>1, <1>2, <1>3, <1>4, <1>5, <1>6, <1>7 DEF LogStep, WriterStep

LEMMA WriterKeeps ==
  ASSUME BufferInv, LogStep
  PROVE  BufferInv'
<1>1. LogInv'
  BY LogKeeps DEF BufferInv
<1>2. StreamsInv'
  <2>1. UNCHANGED <<rpc, off, snap, result>>
    BY WriterLeavesReaders DEF readVars
  <2> SUFFICES ASSUME NEW r \in Readers PROVE Stream(r)'
    BY <2>1 DEF BufferInv, StreamsInv
  <2>2. /\ size \in Nat /\ size' \in Nat /\ off[r] \in Nat /\ snap[r].size \in Nat
        /\ Stream(r)
    BY <1>1 DEF BufferInv, LogInv, StreamsInv
  <2>3. size <= size' /\ (wpc \in Readable => size' = size /\ wpc' \in Readable)
    BY LogMoves DEF BufferInv
  <2>4. off[r] <= size' /\ snap[r].size <= size'
    BY <2>2, <2>3 DEF Stream
  <2>5. rpc[r] \in {"sized", "section"} =>
          (wpc' = "sealed" \/ closed') /\ snap[r].size = size'
    BY <2>2, <2>3, LogMoves DEF BufferInv, LogInv, Stream, Readable
  <2>6. rpc[r] = "snapped" /\ snap[r].closed => closed' /\ snap[r].size = size'
    BY <2>2, <2>3, LogMoves DEF BufferInv, LogInv, Stream, Readable
  <2>7. result[r] = "eof" => off[r] = size' /\ ~aborted' /\ wpc' \in Readable
    BY <2>2, <2>3, LogMoves DEF BufferInv, LogInv, Stream, Readable
  <2>8. result[r] = "torn" => cut'
    BY <2>2, LogMoves DEF BufferInv, Stream
  <2> QED
    BY <2>1, <2>2, <2>4, <2>5, <2>6, <2>7, <2>8 DEF Stream
<1>3. WakeInv'
  BY LogMoves, WriterLeavesReaders DEF BufferInv, WakeInv, NoLostWakeup, readVars
<1>4. ShareInv'
  BY WriterLeavesReaders DEF BufferInv, ShareInv, holding, readVars, shareVars
<1> QED
  BY <1>1, <1>2, <1>3, <1>4 DEF BufferInv

-----------------------------------------------------------------------------
(* The shared descriptor *)

\* openRead by a reader that has none: it shares the open descriptor, opens the
\* first, or counts nothing.
LEMMA OpenShares ==
  ASSUME ShareInv, NEW r \in Readers, NEW next, next \notin {"idle", "sized"},
         rpc[r] \in {"idle", "sized"}, DOMAIN rpc = Readers,
         OpenRead(r, next), UNCHANGED closes
  PROVE  ShareInv'
<1>1. CASE UNCHANGED <<shareVars, fd>> /\ rpc' = [rpc EXCEPT ![r] = "done"]
  BY <1>1 DEF OpenRead, ShareInv, holding, shareVars
<1>2. CASE refs' = refs + 1
  <2> DEFINE f == IF refs = 0 THEN opened + 1 ELSE readFD
  <2>1. IsFiniteSet(holding) /\ r \notin holding
    BY BufferAssumption, FS_Subset DEF holding, ShareInv
  <2>2. refs = 0 <=> holding = {}
    BY <2>1, FS_EmptySet DEF ShareInv
  <2>3. f \in Nat /\ f # 0
    BY <2>2 DEF ShareInv
  <2>4. /\ fd' = [fd EXCEPT ![r] = f] /\ readFD' = f /\ refs' = refs + 1
        /\ rpc' = [rpc EXCEPT ![r] = next] /\ opened' \in {opened, opened + 1}
    BY <1>2 DEF OpenRead, ShareInv, shareVars
  <2>5. holding' = holding \cup {r}
    BY <2>3, <2>4 DEF ShareInv, holding
  <2>6. refs' = Cardinality(holding')
    BY <2>1, <2>4, <2>5, FS_AddElement DEF ShareInv
  <2>7. \A q \in holding' : fd'[q] = f
    BY <2>2, <2>4, <2>5 DEF ShareInv, holding
  <2>8. openFDs' = {f}
    BY <1>2, <2>2 DEF OpenRead, ShareInv, shareVars
  <2> QED
    BY <2>3, <2>4, <2>5, <2>6, <2>7, <2>8 DEF ShareInv, holding
<1> QED
  BY <1>1, <1>2 DEF OpenRead

\* Close: only the first one releases, and the last holder closes.
LEMMA CloseShares ==
  ASSUME ShareInv, NEW r \in Readers, DOMAIN rpc = Readers, Close(r)
  PROVE  ShareInv'
<1>1. IsFiniteSet(holding)
  BY BufferAssumption, FS_Subset DEF holding
<1>2. /\ closes' = [closes EXCEPT ![r] = @ + 1] /\ rpc' = [rpc EXCEPT ![r] = "done"]
      /\ fd' = fd /\ opened' = opened /\ fd[r] # 0
  BY DEF Close
<1>3. CASE closes[r] # 0
  <2>1. holding' = holding /\ UNCHANGED <<refs, openFDs, readFD>>
    BY <1>2, <1>3 DEF Close, releases, holding, ShareInv
  <2> QED
    BY <1>2, <2>1 DEF ShareInv
<1>4. CASE closes[r] = 0
  <2>1. r \in holding /\ holding' = holding \ {r}
    BY <1>2, <1>4 DEF holding, ShareInv
  <2>2. /\ refs' = refs - 1
        /\ openFDs' = IF refs = 1 THEN openFDs \ {readFD} ELSE openFDs
        /\ readFD' = IF refs = 1 THEN 0 ELSE readFD
    BY <1>4 DEF Close, releases
  <2>3. IsFiniteSet(holding') /\ Cardinality(holding') = refs - 1
    BY <1>1, <2>1, FS_RemoveElement DEF ShareInv
  <2>4. refs' \in Nat /\ (refs = 1 <=> holding' = {})
    BY <2>2, <2>3, FS_EmptySet, FS_CardinalityType DEF ShareInv
  <2>5. readFD # 0
    BY <2>1 DEF ShareInv
  <2>6. /\ \A q \in holding' : fd'[q] = readFD'
        /\ readFD' = 0 <=> holding' = {}
        /\ openFDs' = IF readFD' = 0 THEN {} ELSE {readFD'}
    BY <1>2, <2>1, <2>2, <2>4, <2>5 DEF ShareInv
  <2>7. \A q \in Readers : /\ closes'[q] \in Nat
                           /\ rpc'[q] \in {"idle", "sized"} => fd'[q] = 0 /\ closes'[q] = 0
    BY <1>2 DEF ShareInv
  <2> QED
    BY <1>2, <2>2, <2>3, <2>4, <2>6, <2>7 DEF ShareInv
<1> QED
  BY <1>3, <1>4

\* Every other step of a reader leaves the descriptor alone.
LEMMA ReadingShares ==
  ASSUME ShareInv, NEW r \in Readers, DOMAIN rpc = Readers, Reading(r)
  PROVE  ShareInv'
<1>1. CASE OpenFollower(r)
  BY <1>1, OpenShares DEF OpenFollower
<1>2. CASE SectionOpen(r)
  BY <1>2, OpenShares DEF SectionOpen
<1>3. CASE Close(r)
  BY <1>3, CloseShares
<1>4. CASE SectionSize(r)
  BY <1>4 DEF SectionSize, ShareInv, holding, shareVars
<1>5. CASE Cancel(r)
  BY <1>5 DEF Cancel, ShareInv, holding, shareVars
<1>6. CASE ReadTop(r) \/ ReadBytes(r) \/ ReadEnd(r) \/ ReadWait(r) \/ SectionRead(r)
  <2>1. /\ UNCHANGED <<shareVars, fd, closes>>
        /\ rpc[r] \notin {"idle", "sized"}
        /\ \/ rpc' = rpc
           \/ \E p \in {"top", "snapped", "section", "done"} : rpc' = [rpc EXCEPT ![r] = p]
    BY <1>6 DEF ReadTop, ReadBytes, ReadEnd, ReadWait, SectionRead, readRegion, Ended
  <2> QED
    BY <2>1 DEF ShareInv, holding, shareVars
<1> QED
  BY <1>1, <1>2, <1>3, <1>4, <1>5, <1>6 DEF Reading, ReadStep

-----------------------------------------------------------------------------
(* The streams *)

\* Only r's stream, and its place among the armed, change.
LEMMA ReadingStreams ==
  ASSUME BufferInv, NEW r \in Readers, Reading(r)
  PROVE  StreamsInv' /\ WakeInv'
<1> USE DEF BufferInv, LogInv, StreamsInv, Stream, WakeInv, NoLostWakeup, logVars,
        Readable, Ended
<1>0. UNCHANGED <<logVars, wpc, cut>>
  BY ReadersOnlyRead DEF fileVars
<1>1. CASE OpenFollower(r)
  BY <1>0, <1>1 DEF OpenFollower, OpenRead
<1>2. CASE SectionOpen(r)
  BY <1>0, <1>2 DEF SectionOpen, OpenRead
<1>3. CASE Close(r)
  BY <1>0, <1>3 DEF Close
<1>4. CASE SectionSize(r)
  BY <1>0, <1>4 DEF SectionSize
<1>5. CASE Cancel(r)
  BY <1>0, <1>5 DEF Cancel
<1>6. CASE ReadTop(r)
  BY <1>0, <1>6 DEF ReadTop
<1>7. CASE ReadBytes(r)
  BY <1>0, <1>7 DEF ReadBytes, readRegion
<1>8. CASE ReadEnd(r)
  BY <1>0, <1>8 DEF ReadEnd, endsWith
<1>9. CASE ReadWait(r)
  BY <1>0, <1>9 DEF ReadWait
<1>10. CASE SectionRead(r)
  <2>1. /\ UNCHANGED <<armed, snap>> /\ rpc[r] = "section" /\ r \notin armed
        /\ size' = size /\ stored \in Nat /\ off[r] \in Nat /\ snap[r].size = size
    BY <1>0, <1>10 DEF SectionRead
  <2>2. CASE off[r] >= size
    BY <1>0, <1>10, <2>1, <2>2 DEF SectionRead
  <2>3. CASE /\ off[r] < size
             /\ \E n \in 1..(size - off[r]) : off' = [off EXCEPT ![r] = @ + n]
             /\ rpc' = [rpc EXCEPT ![r] = "section"] /\ UNCHANGED result
    BY <1>0, <2>1, <2>3
  <2>4. CASE /\ off[r] < size /\ stored < size
             /\ off' = [off EXCEPT ![r] = IF stored > @ THEN stored ELSE @]
             /\ Ended(r, "torn")
    BY <1>0, <2>1, <2>4
  <2> QED
    BY <1>10, <2>1, <2>2, <2>3, <2>4 DEF SectionRead, readRegion
<1> QED
  BY <1>1, <1>2, <1>3, <1>4, <1>5, <1>6, <1>7, <1>8, <1>9, <1>10 DEF Reading, ReadStep

LEMMA ReadersKeep ==
  ASSUME BufferInv, NEW r \in Readers, Reading(r)
  PROVE  BufferInv'
<1>1. LogInv'
  BY ReadersOnlyRead DEF BufferInv, LogInv, logVars, fileVars
<1>2. ShareInv'
  BY ReadingShares DEF BufferInv, StreamsInv
<1> QED
  BY <1>1, <1>2, ReadingStreams DEF BufferInv

LEMMA BufferKeeps == BufferInv /\ [Next]_vars => BufferInv'
<1> SUFFICES ASSUME BufferInv, [Next]_vars PROVE BufferInv'
  OBVIOUS
<1>1. CASE LogStep
  BY <1>1, WriterKeeps
<1>2. ASSUME NEW r \in Readers, Reading(r)
      PROVE  BufferInv'
  BY <1>2, ReadersKeep
<1>3. CASE UNCHANGED vars
  BY <1>3
  DEF vars, logVars, shareVars, fileVars, readVars, BufferInv, LogInv, StreamsInv,
      Stream, WakeInv, NoLostWakeup, ShareInv, holding
<1> QED
  BY <1>1, <1>2, <1>3, NextSplits

-----------------------------------------------------------------------------

\* The invariant of a log and its readers.
THEOREM BufferInvariant == Spec => []BufferInv
BY BufferStarts, BufferKeeps, PTL DEF Spec

\* A clean end is the end of a finished log, and only a cut file tears.
THEOREM EndsAreHonest == Spec => []EndIsHonest
<1>1. BufferInv => EndIsHonest
  BY DEF BufferInv, StreamsInv, Stream, Readable, EndIsHonest
<1> QED
  BY <1>1, BufferInvariant, PTL

\* Nobody waits on an open channel beside something new to read.
THEOREM WakeupsAreKept == Spec => []NoLostWakeup
<1>1. BufferInv => NoLostWakeup
  BY DEF BufferInv, WakeInv
<1> QED
  BY <1>1, BufferInvariant, PTL

\* The descriptor is open exactly while somebody holds it, and it is the one held.
THEOREM DescriptorIsShared == Spec => []DescriptorShared
<1>1. BufferInv => DescriptorShared
  <2> SUFFICES ASSUME ShareInv PROVE DescriptorShared
    BY DEF BufferInv
  <2>1. IsFiniteSet(holding)
    BY BufferAssumption, FS_Subset DEF holding
  <2>2. openFDs = {fd[r] : r \in holding}
    BY DEF ShareInv
  <2>3. Cardinality(openFDs) <= 1
    <3>1. CASE readFD = 0
      BY <3>1, FS_EmptySet DEF ShareInv
    <3>2. CASE readFD # 0
      <4>1. openFDs = {readFD}
        BY <3>2 DEF ShareInv
      <4>2. Cardinality({readFD}) = 1
        BY FS_Singleton
      <4> QED
        BY <4>1, <4>2
    <3> QED
      BY <3>1, <3>2
  <2>4. readFD # 0 <=> refs > 0
    BY <2>1, FS_EmptySet, FS_CardinalityType DEF ShareInv
  <2> QED
    BY <2>2, <2>3, <2>4 DEF ShareInv, DescriptorShared
<1> QED
  BY <1>1, BufferInvariant, PTL
=============================================================================
