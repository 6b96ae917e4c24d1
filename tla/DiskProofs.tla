----------------------------- MODULE DiskProofs -----------------------------
(***************************************************************************)
(* What module Disk keeps whatever crashes, for any number of generations, *)
(* any mix of settings, faults and crashes.  What needs more of the server *)
(* than that says so in its hypothesis: fsync or checksums for intact      *)
(* bytes, removals that do not fail for clean markers, one kind of crash   *)
(* for the survival of the last published value.                           *)
(***************************************************************************)
EXTENDS Disk, TLAPS

-----------------------------------------------------------------------------
(* The invariant *)

marked(f, g) == "meta.json" \in f[g].names

Absent(f, g) == ~marked(f, g) /\ f[g].place # "clips"

\* Who is where: the pointers name minted generations, a writer has one of its
\* own, and a boot has neither writer nor commit.
CoreInv ==
  /\ TypeOK
  /\ setting \in Settings
  /\ current <= minted /\ live <= minted
  /\ \A g \in Gens : g > minted =>
       /\ Absent(vol, g) /\ Absent(dur, g)
       /\ g \notin cands \cup doomed \cup delivered \cup failed \cup streaming \cup touched
  /\ live # 0 <=> wpc # "none"
  /\ live # 0 => current # live /\ live \notin doomed \cup streaming \cup delivered \cup failed
  /\ current # 0 /\ phase = "up" => current \notin doomed \cup streaming
  /\ phase # "up" => live = 0 /\ lock = "free" /\ streaming = {}
  /\ phase = "up" => cands = {}
  /\ phase = "scan" => current = 0 /\ cands \cap doomed = {}
                       /\ cands \subseteq scanned /\ doomed \subseteq scanned
  /\ phase = "contest" => current \notin doomed
  /\ lock # "free" => current # 0 /\ current \in touched
  /\ streaming \subseteq touched

\* What a home carries at each point of its writer and under a commit.
MarkInv ==
  /\ wpc \in {"writing", "synced", "recorded"} => ~marked(vol, live) /\ ~marked(dur, live)
  /\ wpc \in {"retire", "retiring"} => Fsync
  /\ wpc = "retiring" => ~marked(vol, live)
  /\ wpc = "discard" => \/ live \in warned
                        \/ ~marked(vol, live) /\ (Fsync => ~marked(dur, live))
  /\ lock # "free" => ~marked(vol, current)

\* What ended carries no marker that a crash could leave for the next boot.
Ended(g) ==
  /\ ~marked(vol, g) /\ (Fsync => ~marked(dur, g))
  /\ g \notin cands /\ g # current
GoneInv == Durable => \A g \in delivered \cup (failed \ warned) : Ended(g)

\* The bytes are in before the marker is.
Full(f, g) == f[g].data = "full" /\ f[g].record = "whole"
WriterFull ==
  /\ wpc \notin {"none", "writing", "discard"} =>
       vol[live].data = "full" /\ (Fsync => dur[live].data = "full")
  /\ wpc \notin {"none", "writing", "synced", "discard"} =>
       Full(vol, live) /\ (Fsync => Full(dur, live))
MarkedFull ==
  /\ Fsync => \A g \in Gens : marked(vol, g) \/ marked(dur, g) =>
                Full(vol, g) /\ Full(dur, g)
  /\ "power" \notin Crashes => \A g \in Gens : marked(vol, g) => Full(vol, g)
IntactInv == WriterFull /\ MarkedFull

\* Whatever is readable, or would be after this boot, is whole.
Guarded == "power" \in Crashes => \A s \in Settings : s.fsync \/ s.checksum
ServedInv ==
  /\ current # 0 => vol[current].data = "full"
  /\ \A g \in cands : vol[g].data = "full"

\* Removals work, and a damaged home can be moved away if one can occur.
Removable == \A s \in Settings :
  "remove" \notin s.faults /\ ("power" \in Crashes => "rename" \notin s.faults)
MarkerInv ==
  \A g \in Listed : finalized(g) =>
    /\ phase = "up" => g \in {current, live} \cup doomed
    /\ phase = "contest" => g \in {current} \cup doomed
    /\ phase = "scan" /\ g \in scanned => g \in cands \cup doomed

\* One kind of crash, and ids that follow the mint order: either the clock
\* does not go back, or no marker outlives its value.
OneKind ==
  \/ Crashes = {"power"} /\ ~Backward
  \/ Crashes = {"process"} /\ (Backward => Removable)

Bears(g) == g = live \/ (g \in Listed /\ finalized(g))
OrderInv ==
  /\ ~Backward => seed <= minted /\ \A g \in Gens : g <= minted => prefix[g] = g
  /\ Backward =>
       /\ \A g, k \in Gens : Bears(g) /\ Bears(k) /\ g < k => prefix[g] < prefix[k]
       /\ phase = "up" => \A g \in Gens : Bears(g) => prefix[g] <= seed

\* A home that the next boot takes for a candidate; with power losses, also as
\* it is on stable storage.
Whole(f, g) == f[g].place = "clips" /\ {"data", "meta.json"} \subseteq f[g].names /\ Full(f, g)
Standing(g) == Whole(vol, g) /\ ("power" \in Crashes => Whole(dur, g))
WriterHeir ==
  /\ live # 0 => /\ vol[live].place = "clips" /\ "data" \in vol[live].names
                 /\ "power" \in Crashes => dur[live].place = "clips"
  /\ wpc \in {"renamed", "flip"} => Whole(vol, live)
  /\ wpc = "flip" => Standing(live)
BootHeir ==
  /\ phase = "scan" /\ "power" \in Crashes =>
       \A g \in Gens : g \notin scanned \/ g \in cands => dur[g] = vol[g]
  /\ phase = "scan" => \A g \in cands : Standing(g)
  /\ phase = "contest" /\ current # 0 => Standing(current)
LatestHeir ==
  latest # 0 /\ latest \notin touched =>
    /\ phase = "up" => current = latest /\ Standing(latest)
    /\ phase = "contest" => current >= latest
    /\ phase = "scan" => \E k \in Gens : /\ k >= latest /\ k \notin doomed /\ Standing(k)
                                         /\ k \in scanned => k \in cands
HeirInv == Durable => WriterHeir /\ BootHeir /\ LatestHeir

-----------------------------------------------------------------------------
(* Types and pointers *)

\* The generations are the positive numbers of 0..MaxGen.
LEMMA GenFacts ==
  /\ Gens \subseteq Nat /\ 0 \notin Gens
  /\ \A x \in 0..MaxGen : x \in Nat /\ (x # 0 => x \in Gens)
  /\ \A g \in Gens : g \in 0..MaxGen
  BY DiskAssumption DEF Gens

\* What a rename of one file does to a home: its names change and no others.
LEMMA RenamedFacts ==
  ASSUME vol \in [Gens -> Home], NEW g \in Gens, NEW from \in Names, NEW to \in Names
  PROVE  /\ renamed(g, from, to) \in [Gens -> Home]
         /\ renamed(g, from, to)[g].names = (vol[g].names \ {from}) \cup {to}
         /\ renamed(g, from, to)[g].place = vol[g].place
         /\ renamed(g, from, to)[g].data = vol[g].data
         /\ renamed(g, from, to)[g].record = vol[g].record
         /\ \A h \in Gens : h # g => renamed(g, from, to)[h] = vol[h]
<1>1. vol[g] \in Home /\ vol[g].names \subseteq Names
  BY DEF Home
<1>2. renamed(g, from, to) = [vol EXCEPT ![g] =
        [vol[g] EXCEPT !.names = (vol[g].names \ {from}) \cup {to}]]
  BY DEF renamed
<1>3. [vol[g] EXCEPT !.names = (vol[g].names \ {from}) \cup {to}] \in Home
  BY <1>1 DEF Home
<1> QED
  BY <1>1, <1>2, <1>3 DEF Home

\* It leaves every data file alone.
LEMMA RenamedData ==
  ASSUME vol \in [Gens -> Home], NEW g \in Gens, NEW from \in Names, NEW to \in Names,
         NEW h \in Gens
  PROVE  renamed(g, from, to)[h].data = vol[h].data
<1>1. CASE h = g
  BY <1>1, RenamedFacts
<1>2. CASE h # g
  BY <1>2, RenamedFacts
<1> QED
  BY <1>1, <1>2

\* Every step keeps the types.
LEMMA TypeStep ==
  ASSUME CoreInv, [Next]_vars
  PROVE  TypeOK'
<1> USE DEF diskVars, idVars, slotVars, opVars, bootVars, histVars
<1>0. /\ TypeOK /\ current \in 0..MaxGen /\ live \in 0..MaxGen
      /\ (live # 0 => live \in Gens) /\ (current # 0 => current \in Gens)
      /\ (live # 0 <=> wpc # "none")
  BY GenFacts DEF CoreInv, TypeOK
<1>1. ASSUME Create, setting' = setting  PROVE TypeOK'
  <2>1. minted + 1 \in Gens /\ minted' = minted + 1
    BY <1>0, <1>1, DiskAssumption DEF Create, TypeOK, Gens
  <2>2. vol' \in [Gens -> Home] /\ dur' \in [Gens -> Home]
    BY <1>0, <1>1, <2>1 DEF Create, TypeOK, Home, Names
  <2>3. prefix' \in [Gens -> Nat] /\ seed' \in Nat
    <3>1. \A t \in readings : allocate(t) \in Nat
      BY <1>0, DiskAssumption DEF readings, allocate, TypeOK
    <3> QED
      BY <1>0, <1>1, <3>1 DEF Create, TypeOK
  <2>4. minted' \in 0..MaxGen /\ secret' \subseteq Gens /\ live' \in 0..MaxGen
    BY <1>0, <1>1, <2>1, GenFacts DEF Create, TypeOK
  <2>5. doomed' \subseteq Gens /\ failed' \subseteq Gens /\ wpc' \in WriterPoints
    BY <1>0, <1>1, <2>1 DEF Create, TypeOK, WriterPoints
  <2> QED
    BY <1>0, <1>1, <2>2, <2>3, <2>4, <2>5 DEF Create, TypeOK, MaxCrashes
<1>2. ASSUME CloseSync \/ CloseRecord \/ ClosePublish, setting' = setting  PROVE TypeOK'
  <2>1. live \in Gens
    BY <1>0, <1>2 DEF CloseSync, CloseRecord, ClosePublish, Step
  <2>2. vol' \in [Gens -> Home]
    BY <1>0, <1>2, <2>1 DEF CloseSync, CloseRecord, ClosePublish, renamed, TypeOK, Home, Names
  <2>3. dur' \in [Gens -> Home]
    BY <1>0, <1>2, <2>1 DEF CloseSync, CloseRecord, ClosePublish, synced, TypeOK, Home
  <2>4. wpc' \in WriterPoints
    BY <1>2 DEF CloseSync, CloseRecord, ClosePublish, Step, WriterPoints
  <2> QED
    BY <1>0, <1>2, <2>2, <2>3, <2>4
       DEF CloseSync, CloseRecord, ClosePublish, Step, TypeOK, MaxCrashes
<1>3. ASSUME CloseCommit \/ AbortRename \/ AbortSync \/ Abort, setting' = setting  PROVE TypeOK'
  <2>1. live \in Gens
    BY <1>0, <1>3 DEF CloseCommit, AbortRename, AbortSync, Abort, Step
  <2>2. vol' \in [Gens -> Home]
    BY <1>0, <1>3, <2>1
       DEF CloseCommit, AbortRename, AbortSync, Abort, renamed, TypeOK, Home, Names
  <2>3. dur' \in [Gens -> Home]
    BY <1>0, <1>3, <2>1
       DEF CloseCommit, AbortRename, AbortSync, Abort, syncDir, TypeOK, Home
  <2>4. wpc' \in WriterPoints /\ warned' \subseteq Gens
    BY <1>0, <1>3, <2>1
       DEF CloseCommit, AbortRename, AbortSync, Abort, Step, WriterPoints, publishFailed, TypeOK
  <2> QED
    BY <1>0, <1>3, <2>2, <2>3, <2>4
       DEF CloseCommit, AbortRename, AbortSync, Abort, Step, TypeOK, MaxCrashes
<1>4. ASSUME CloseFlip \/ Discard, setting' = setting  PROVE TypeOK'
  <2>1. live \in Gens
    BY <1>0, <1>4 DEF CloseFlip, Discard
  <2>2. live' = 0 /\ 0 \in 0..MaxGen /\ wpc' \in WriterPoints
    BY <1>4, DiskAssumption DEF CloseFlip, Discard, WriterPoints
  <2>3. CASE CloseFlip
    <3>1. doomed' \subseteq Gens
      BY <1>0, <2>3 DEF CloseFlip, TypeOK
    <3> QED
      BY <1>0, <1>4, <2>2, <2>3, <3>1 DEF CloseFlip, TypeOK, MaxCrashes
  <2>4. CASE Discard
    BY <1>0, <1>4, <2>1, <2>2, <2>4 DEF Discard, TypeOK, MaxCrashes
  <2> QED
    BY <1>4, <2>3, <2>4
<1>5. ASSUME ClaimRename \/ DeleteRename, setting' = setting  PROVE TypeOK'
  <2>1. current \in Gens
    BY <1>0, <1>5 DEF ClaimRename, DeleteRename, TypeOK
  <2>2. vol' \in [Gens -> Home]
    <3>1. CASE ClaimRename
      BY <1>0, <2>1, <3>1, RenamedFacts DEF ClaimRename, TypeOK, Names
    <3>2. CASE DeleteRename
      BY <1>0, <2>1, <3>2, RenamedFacts DEF DeleteRename, TypeOK, Names
    <3> QED
      BY <1>5, <3>1, <3>2
  <2>3. lock' \in {"free", "claim", "delete"} /\ touched' \subseteq Gens
    BY <1>0, <1>5, <2>1 DEF ClaimRename, DeleteRename, TypeOK
  <2> QED
    BY <1>0, <1>5, <2>2, <2>3 DEF ClaimRename, DeleteRename, TypeOK, MaxCrashes
<1>6. ASSUME ClaimCommit \/ DeleteCommit, setting' = setting  PROVE TypeOK'
  <2>1. current \in Gens
    BY <1>0, <1>6 DEF ClaimCommit, DeleteCommit, CoreInv
  <2>2. dur' \in [Gens -> Home]
    BY <1>0, <1>6, <2>1 DEF ClaimCommit, DeleteCommit, syncDir, TypeOK, Home
  <2>3. /\ doomed' \subseteq Gens /\ delivered' \subseteq Gens /\ streaming' \subseteq Gens
        /\ deleting' \subseteq Gens
    <3>1. CASE ClaimCommit
      BY <1>0, <2>1, <3>1 DEF ClaimCommit, TypeOK
    <3>2. CASE DeleteCommit
      BY <1>0, <2>1, <3>2 DEF DeleteCommit, TypeOK
    <3> QED
      BY <1>6, <3>1, <3>2
  <2>4. current' \in 0..MaxGen /\ lock' \in {"free", "claim", "delete"}
    BY <1>6, DiskAssumption DEF ClaimCommit, DeleteCommit
  <2> QED
    BY <1>0, <1>6, <2>2, <2>3, <2>4 DEF ClaimCommit, DeleteCommit, TypeOK, MaxCrashes
<1>7. ASSUME Evict \/ Contest \/ Restore, setting' = setting  PROVE TypeOK'
  <2>1. seed' \in Nat
    BY <1>0, <1>7 DEF Evict, Contest, Restore, reseed, TypeOK
  <2>2. /\ current' \in 0..MaxGen /\ doomed' \subseteq Gens /\ latest' \in 0..MaxGen
        /\ phase' \in {"up", "scan", "contest"}
    BY <1>0, <1>7, GenFacts DEF Evict, Contest, Restore, winners, losers, TypeOK
  <2> QED
    BY <1>0, <1>7, <2>1, <2>2 DEF Evict, Contest, Restore, TypeOK, MaxCrashes
<1>8. ASSUME NEW g \in Gens, ReaderClose(g) \/ DeleteReturn(g) \/ RemoveFails(g), setting' = setting
      PROVE  TypeOK'
  <2>1. /\ streaming' \subseteq Gens /\ deleting' \subseteq Gens /\ doomed' \subseteq Gens
        /\ deletedTo' \in 0..MaxGen
    BY <1>0, <1>8, GenFacts DEF ReaderClose, DeleteReturn, RemoveFails, TypeOK
  <2> QED
    BY <1>0, <1>8, <2>1 DEF ReaderClose, DeleteReturn, RemoveFails, TypeOK, MaxCrashes
<1>9. ASSUME NEW g \in Gens, Classify(g), setting' = setting  PROVE TypeOK'
  <2>1. vol' \in [Gens -> Home]
    BY <1>0, <1>9 DEF Classify, TypeOK, Home
  <2>2. scanned' \subseteq Gens /\ cands' \subseteq Gens /\ doomed' \subseteq Gens
    BY <1>0, <1>9 DEF Classify, TypeOK
  <2> QED
    BY <1>0, <1>9, <2>1, <2>2 DEF Classify, TypeOK, MaxCrashes
<1>10. ASSUME NEW g \in Gens, Unlink(g) \/ Rmdir(g) \/ Writeback(g), setting' = setting
       PROVE  TypeOK'
  <2>1. CASE Unlink(g)
    <3>1. vol' \in [Gens -> Home]
      BY <1>0, <1>10, <2>1 DEF Unlink, TypeOK, Home
    <3> QED
      BY <1>0, <1>10, <2>1, <3>1 DEF Unlink, TypeOK, MaxCrashes
  <2>2. CASE Rmdir(g)
    <3>1. vol' \in [Gens -> Home] /\ doomed' \subseteq Gens
      BY <1>0, <1>10, <2>2 DEF Rmdir, TypeOK, Home
    <3> QED
      BY <1>0, <1>10, <2>2, <3>1 DEF Rmdir, TypeOK, MaxCrashes
  <2>3. CASE Writeback(g)
    <3>1. vol[g] \in Home /\ dur \in [Gens -> Home]
      BY <1>0 DEF TypeOK
    <3>2. dur' \in [Gens -> Home]
      BY <1>10, <2>3, <3>1 DEF Writeback, Home
    <3> QED
      BY <1>0, <1>10, <2>3, <3>2 DEF Writeback, TypeOK, MaxCrashes
  <2> QED
    BY <1>10, <2>1, <2>2, <2>3
<1>11. ASSUME NEW kind \in Crashes, Crash(kind), setting' = setting  PROVE TypeOK'
  <2>1. crashes' \in 0..MaxCrashes
    BY <1>0, <1>11 DEF Crash, TypeOK, Setting, MaxCrashes
  <2>2. current' \in 0..MaxGen /\ live' \in 0..MaxGen /\ wpc' \in WriterPoints
    BY <1>11, DiskAssumption DEF Crash, WriterPoints
  <2>3. vol' \in [Gens -> Home]
    BY <1>0, <1>11 DEF Crash, TypeOK
  <2> QED
    BY <1>0, <1>11, <2>1, <2>2, <2>3 DEF Crash, TypeOK, MaxCrashes
<1>12. ASSUME UNCHANGED vars  PROVE TypeOK'
  BY <1>0, <1>12 DEF vars, TypeOK, MaxCrashes
<1> QED
  BY <1>1, <1>2, <1>3, <1>4, <1>5, <1>6, <1>7, <1>8, <1>9, <1>10, <1>11, <1>12
     DEF Next, Operation

-----------------------------------------------------------------------------
(* What each step does to the homes *)

\* No home but x's changes.
Only(x) == \A h \in Gens \ {x} : vol'[h] = vol[h] /\ dur'[h] = dur[h]

\* The fsync of a directory copies its names, if the server fsyncs at all.
LEMMA SyncDirFacts ==
  ASSUME TypeOK, NEW g \in Gens
  PROVE  /\ \A h \in Gens \ {g} : syncDir(g)[h] = dur[h]
         /\ syncDir(g)[g].names = IF Fsync THEN vol[g].names ELSE dur[g].names
         /\ syncDir(g)[g].place = dur[g].place
         /\ syncDir(g)[g].data = dur[g].data
         /\ syncDir(g)[g].record = dur[g].record
  BY DEF TypeOK, Home, syncDir

\* Create makes the next generation's directory with an empty data file in it.
LEMMA CreateFacts ==
  ASSUME TypeOK, Create
  PROVE  LET g == minted + 1
         IN  /\ g \in Gens /\ Only(g)
             /\ vol'[g].place = "clips" /\ vol'[g].names = {"data"}
             /\ vol'[g].data = vol[g].data /\ vol'[g].record = vol[g].record
             /\ dur'[g].names = dur[g].names
             /\ dur'[g].data = dur[g].data /\ dur'[g].record = dur[g].record
             /\ live' # live /\ Fsync => dur'[g].place = "clips"
<1>1. minted + 1 \in Gens
  BY DiskAssumption DEF Create, TypeOK, Gens
<1>2. vol[minted + 1] \in Home /\ dur[minted + 1] \in Home
  BY <1>1 DEF TypeOK
<1> QED
  BY <1>1, <1>2 DEF Create, TypeOK, Home, Only

\* The steps of Close up to the rename touch the writer's home alone.
LEMMA CloseFacts ==
  ASSUME TypeOK, live \in Gens, CloseSync \/ CloseRecord \/ ClosePublish
  PROVE  /\ Only(live)
         /\ vol'[live].place = vol[live].place /\ dur'[live].place = dur[live].place
         /\ dur'[live].names = dur[live].names
         /\ CloseSync => /\ vol'[live].names = vol[live].names
                         /\ vol'[live].data = "full" /\ vol'[live].record = vol[live].record
                         /\ dur'[live].data \in {dur[live].data, "full"}
                         /\ dur'[live].record = dur[live].record
                         /\ wpc' = "synced" /\ Fsync => dur'[live].data = "full"
         /\ CloseRecord => /\ vol'[live].names = vol[live].names \cup {"meta.json.tmp"}
                           /\ vol'[live].data = vol[live].data /\ vol'[live].record = "whole"
                           /\ dur'[live].data = dur[live].data
                           /\ dur'[live].record \in {dur[live].record, "whole"}
                           /\ wpc' = "recorded" /\ Fsync => dur'[live].record = "whole"
         /\ ClosePublish => /\ vol'[live].data = vol[live].data
                            /\ vol'[live].record = vol[live].record
                            /\ dur' = dur
                            /\ wpc' = "discard" => vol' = vol
                            /\ wpc' = "renamed" => vol'[live].names =
                                 (vol[live].names \ {"meta.json.tmp"}) \cup {"meta.json"}
<1>0. vol[live] \in Home /\ dur[live] \in Home
  BY DEF TypeOK
<1>1. CASE CloseSync
  <2>1. ~CloseRecord /\ ~ClosePublish
    BY <1>1 DEF CloseSync, CloseRecord, ClosePublish, Step
  <2> QED
    BY <1>0, <1>1, <2>1 DEF CloseSync, Step, synced, TypeOK, Home, Only
<1>2. CASE CloseRecord
  <2>1. ~CloseSync /\ ~ClosePublish
    BY <1>2 DEF CloseSync, CloseRecord, ClosePublish, Step
  <2> QED
    BY <1>0, <1>2, <2>1 DEF CloseRecord, Step, TypeOK, Home, Only
<1>3. CASE ClosePublish
  <2>1. ~CloseSync /\ ~CloseRecord
    BY <1>3 DEF CloseSync, CloseRecord, ClosePublish, Step
  <2> QED
    BY <1>0, <1>3, <2>1, RenamedFacts DEF ClosePublish, Step, TypeOK, Only, Names
<1> QED
  BY <1>1, <1>2, <1>3

\* A commit's rename, as a step of its own.
LEMMA RenameStep ==
  ASSUME TypeOK, NEW g \in Gens, NEW from \in Names, NEW to \in Names,
         vol' = renamed(g, from, to), dur' = dur
  PROVE  /\ Only(g)
         /\ vol'[g].names = (vol[g].names \ {from}) \cup {to}
         /\ vol'[g].place = vol[g].place
         /\ vol'[g].data = vol[g].data /\ vol'[g].record = vol[g].record
  BY RenamedFacts DEF TypeOK, Only

\* A commit's fsync, as a step of its own, or one that failed.
LEMMA SyncStep ==
  ASSUME TypeOK, NEW g \in Gens, vol' = vol, dur' \in {dur, syncDir(g)}
  PROVE  /\ Only(g)
         /\ dur'[g].names \in {vol[g].names, dur[g].names}
         /\ dur' = syncDir(g) /\ Fsync => dur'[g].names = vol[g].names
         /\ ~Fsync => dur' = dur
         /\ dur'[g].place = dur[g].place
         /\ dur'[g].data = dur[g].data /\ dur'[g].record = dur[g].record
<1>1. CASE dur' = dur
  BY <1>1, SyncDirFacts DEF Only, TypeOK, syncDir
<1>2. CASE dur' = syncDir(g)
  BY <1>2, SyncDirFacts DEF Only, TypeOK, syncDir
<1> QED
  BY <1>1, <1>2

\* RemoveAll and the kernel's write-back touch one home.
LEMMA KernelFacts ==
  ASSUME TypeOK, NEW g \in Gens, Unlink(g) \/ Rmdir(g) \/ Writeback(g)
  PROVE  /\ Only(g)
         /\ Unlink(g) \/ Rmdir(g) =>
              /\ dur' = dur
              /\ vol'[g].names \subseteq vol[g].names
              /\ vol'[g].data = vol[g].data /\ vol'[g].record = vol[g].record
              /\ vol'[g].place \in {vol[g].place, "none"}
         /\ Writeback(g) =>
              /\ vol' = vol
              /\ dur'[g].place \in {vol[g].place, dur[g].place}
              /\ dur'[g].names \in {vol[g].names, dur[g].names}
              /\ dur'[g].record \in {vol[g].record, dur[g].record}
              /\ dur[g].data # "short" \/ vol[g].data # "full" =>
                   dur'[g].data \in {vol[g].data, dur[g].data}
<1>0. vol[g] \in Home /\ dur[g] \in Home
  BY DEF TypeOK
<1>1. CASE Unlink(g)
  <2>1. ~Writeback(g)
    BY <1>1 DEF Unlink, Writeback
  <2> QED
    BY <1>0, <1>1, <2>1 DEF Unlink, TypeOK, Home, Only
<1>2. CASE Rmdir(g)
  <2>1. ~Writeback(g)
    BY <1>2 DEF Rmdir, Writeback
  <2> QED
    BY <1>0, <1>2, <2>1 DEF Rmdir, TypeOK, Home, Only
<1>3. CASE Writeback(g)
  <2>1. ~Unlink(g) /\ ~Rmdir(g)
    BY <1>3 DEF Unlink, Rmdir, Writeback
  <2> QED
    BY <1>0, <1>3, <2>1 DEF Writeback, TypeOK, Home, Only
<1> QED
  BY <1>1, <1>2, <1>3

\* A boot at most moves a home out of clips/.
LEMMA ClassifyFacts ==
  ASSUME TypeOK, NEW g \in Gens, Classify(g)
  PROVE  /\ Only(g) /\ dur' = dur
         /\ vol'[g].names = vol[g].names
         /\ vol'[g].data = vol[g].data /\ vol'[g].record = vol[g].record
         /\ vol'[g].place \in {vol[g].place, "quarantine"}
         /\ verdict(g) # "quarantine" => vol' = vol
<1>0. vol[g] \in Home
  BY DEF TypeOK
<1> QED
  BY <1>0 DEF Classify, TypeOK, Home, Only

-----------------------------------------------------------------------------
(* The pointers *)

\* Every step keeps the pointers straight.
LEMMA CoreStep ==
  ASSUME CoreInv, [Next]_vars
  PROVE  CoreInv'
<1> USE DEF diskVars, idVars, slotVars, opVars, bootVars, histVars, marked, Absent, Only
<1>0. /\ TypeOK /\ TypeOK' /\ minted \in Nat /\ MaxGen \in Nat
      /\ current \in Nat /\ live \in Nat
      /\ (live # 0 => live \in Gens) /\ (current # 0 => current \in Gens)
      /\ (live # 0 <=> wpc # "none") /\ (lock # "free" => current # 0)
  BY TypeStep, GenFacts, DiskAssumption DEF CoreInv, TypeOK
<1>1. ASSUME Create, setting' = setting  PROVE CoreInv'
  <2>1. minted + 1 \in Gens /\ minted' = minted + 1 /\ minted + 1 # 0 /\ minted + 1 > minted
    BY <1>0, <1>1, CreateFacts, GenFacts DEF Create, Gens
  <2>2. \A h \in Gens : h > minted' => h > minted /\ h # minted + 1
    BY <1>0, <2>1, GenFacts
  <2>3. ASSUME NEW h \in Gens, h > minted'
        PROVE  Absent(vol, h)' /\ Absent(dur, h)'
    BY <1>0, <1>1, <2>1, <2>2, <2>3, CreateFacts DEF CoreInv
  <2>4. ASSUME NEW h \in Gens, h > minted'
        PROVE  h \notin cands' \cup doomed' \cup delivered' \cup failed' \cup streaming' \cup touched'
    BY <1>0, <1>1, <2>1, <2>2, <2>4 DEF CoreInv, Create
  <2>5. current' <= minted' /\ live' <= minted' /\ current # minted + 1
    BY <1>0, <1>1, <2>1 DEF CoreInv, Create
  <2>6. minted + 1 \notin cands \cup doomed \cup delivered \cup failed \cup streaming \cup touched
    BY <2>1 DEF CoreInv
  <2>7. live = 0 /\ wpc = "none" /\ phase = "up" /\ lock = "free" /\ phase' = phase
        /\ lock' = lock /\ current' = current /\ streaming' = streaming
        /\ delivered' = delivered /\ cands' = cands /\ touched' = touched
    BY <1>0, <1>1 DEF Create, Gate
  <2>8. \/ live' = minted + 1 /\ wpc' = "writing" /\ doomed' = doomed /\ failed' = failed
        \/ live' = 0 /\ wpc' = "none" /\ doomed' = doomed \cup {minted + 1}
    BY <1>1, <2>7 DEF Create
  <2>9. /\ live' # 0 <=> wpc' # "none"
        /\ live' # 0 => current' # live'
                        /\ live' \notin doomed' \cup streaming' \cup delivered' \cup failed'
        /\ current' # 0 /\ phase' = "up" => current' \notin doomed' \cup streaming'
    BY <2>1, <2>5, <2>6, <2>7, <2>8 DEF CoreInv
  <2> QED
    BY <1>0, <1>1, <2>3, <2>4, <2>5, <2>7, <2>9 DEF CoreInv
<1>2. ASSUME CloseSync \/ CloseRecord \/ ClosePublish, setting' = setting  PROVE CoreInv'
  <2>1. live \in Gens /\ live # 0 /\ wpc' # "none"
    BY <1>0, <1>2 DEF CloseSync, CloseRecord, ClosePublish, Step
  <2>2. \A h \in Gens : h # live => vol'[h] = vol[h] /\ dur'[h] = dur[h]
    BY <1>0, <1>2, <2>1, CloseFacts
  <2>3. live <= minted
    BY DEF CoreInv
  <2> QED
    BY <1>0, <1>2, <2>1, <2>2, <2>3 DEF CoreInv, CloseSync, CloseRecord, ClosePublish, Step
<1>3. ASSUME CloseCommit \/ AbortRename \/ AbortSync \/ Abort, setting' = setting  PROVE CoreInv'
  <2>1. live \in Gens /\ live # 0 /\ wpc' # "none"
    BY <1>0, <1>3 DEF CloseCommit, AbortRename, AbortSync, Abort, Step, publishFailed
  <2>2. Only(live)
    BY <1>0, <1>3, <2>1, RenameStep, SyncStep
       DEF CloseCommit, AbortRename, AbortSync, Abort, Step, Names, publishFailed
  <2>3. live <= minted
    BY DEF CoreInv
  <2> QED
    BY <1>0, <1>3, <2>1, <2>2, <2>3 DEF CoreInv, CloseCommit, AbortRename, AbortSync, Abort, Step
<1>4. ASSUME CloseFlip \/ Discard, setting' = setting  PROVE CoreInv'
  <2>1. live \in Gens /\ live # 0
    BY <1>0, <1>4 DEF CloseFlip, Discard
  <2>2. CASE CloseFlip
    <3>1. phase' = "up" /\ lock' = "free" /\ live' = 0 /\ wpc' = "none" /\ current' = live
      BY <2>2 DEF CloseFlip, Gate
    <3>2. current' <= minted' /\ live' <= minted' /\ current' \notin doomed' \cup streaming'
      BY <1>0, <2>1, <2>2 DEF CoreInv, CloseFlip
    <3>3. \A h \in Gens : h > minted => h \notin doomed'
      BY <1>0, <2>2 DEF CoreInv, CloseFlip
    <3> QED
      BY <1>0, <1>4, <2>2, <3>1, <3>2, <3>3 DEF CoreInv, CloseFlip
  <2>3. CASE Discard
    BY <1>0, <1>4, <2>1, <2>3 DEF CoreInv, Discard, Gate
  <2> QED
    BY <1>4, <2>2, <2>3
<1>5. ASSUME ClaimRename \/ DeleteRename, setting' = setting  PROVE CoreInv'
  <2>1. current \in Gens /\ current # 0
    BY <1>0, <1>5, GenFacts DEF ClaimRename, DeleteRename, TypeOK
  <2>2. Only(current) /\ dur' = dur
    BY <1>0, <1>5, <2>1, RenameStep DEF ClaimRename, DeleteRename, Names
  <2>3. ASSUME NEW h \in Gens, h > minted
        PROVE  Absent(vol, h)' /\ Absent(dur, h)' /\ h \notin touched'
    BY <1>0, <1>5, <2>1, <2>2, <2>3 DEF CoreInv, ClaimRename, DeleteRename
  <2> QED
    BY <1>0, <1>5, <2>1, <2>3 DEF CoreInv, ClaimRename, DeleteRename, Gate
<1>6. ASSUME ClaimCommit \/ DeleteCommit, setting' = setting  PROVE CoreInv'
  <2>1. current \in Gens /\ current # 0
    BY <1>0, <1>6 DEF ClaimCommit, DeleteCommit, CoreInv
  <2>2. Only(current) /\ vol' = vol
    BY <1>0, <1>6, <2>1, SyncStep DEF ClaimCommit, DeleteCommit
  <2>3. phase = "up" /\ phase' = "up"
    BY <1>0, <1>6 DEF ClaimCommit, DeleteCommit, CoreInv, TypeOK
  <2>4. CASE ClaimCommit
    BY <1>0, <1>6, <2>1, <2>2, <2>3, <2>4 DEF CoreInv, ClaimCommit
  <2>5. CASE DeleteCommit
    BY <1>0, <1>6, <2>1, <2>2, <2>3, <2>5 DEF CoreInv, DeleteCommit
  <2> QED
    BY <1>6, <2>4, <2>5
<1>7. ASSUME Evict \/ Contest \/ Restore, setting' = setting  PROVE CoreInv'
  <2>1. CASE Evict
    BY <1>0, <1>7, <2>1 DEF CoreInv, Evict
  <2>2. CASE Contest
    <3>1. phase' = "contest" /\ current' \notin doomed' /\ current' <= minted'
          /\ \A h \in Gens : h > minted => h \notin doomed'
      BY <1>0, <1>7, <2>2, GenFacts DEF CoreInv, Contest, winners, losers, TypeOK
    <3> QED
      BY <1>0, <1>7, <2>2, <3>1 DEF CoreInv, Contest
  <2>3. CASE Restore
    BY <1>0, <1>7, <2>3 DEF CoreInv, Restore
  <2> QED
    BY <1>7, <2>1, <2>2, <2>3
<1>8. ASSUME NEW g \in Gens, ReaderClose(g) \/ DeleteReturn(g) \/ RemoveFails(g), setting' = setting
      PROVE  CoreInv'
  BY <1>0, <1>8 DEF CoreInv, ReaderClose, DeleteReturn, RemoveFails
<1>9. ASSUME NEW g \in Gens, Classify(g), setting' = setting  PROVE CoreInv'
  <2>1. \A h \in Gens : h > minted => Absent(vol, h)' /\ Absent(dur, h)'
    BY <1>0, <1>9, ClassifyFacts DEF CoreInv
  <2>2. ~(g > minted)
    BY <1>0, <1>9 DEF CoreInv, Classify, Listed
  <2> QED
    BY <1>0, <1>9, <2>1, <2>2 DEF CoreInv, Classify
<1>10. ASSUME NEW g \in Gens, Unlink(g) \/ Rmdir(g) \/ Writeback(g), setting' = setting
       PROVE  CoreInv'
  <2>1. \A h \in Gens : h > minted => Absent(vol, h)' /\ Absent(dur, h)'
    BY <1>0, <1>10, KernelFacts DEF CoreInv
  <2> QED
    BY <1>0, <1>10, <2>1 DEF CoreInv, Unlink, Rmdir, Writeback
<1>11. ASSUME NEW kind \in Crashes, Crash(kind), setting' = setting  PROVE CoreInv'
  BY <1>0, <1>11 DEF CoreInv, Crash
<1>12. ASSUME UNCHANGED vars  PROVE CoreInv'
  BY <1>0, <1>12 DEF vars, CoreInv
<1> QED
  BY <1>1, <1>2, <1>3, <1>4, <1>5, <1>6, <1>7, <1>8, <1>9, <1>10, <1>11, <1>12
     DEF Next, Operation

-----------------------------------------------------------------------------
(* The markers, and what ended *)

\* Every step keeps what a home carries at its writer's point.
LEMMA MarkStep ==
  ASSUME CoreInv, MarkInv, [Next]_vars
  PROVE  MarkInv'
<1> USE DEF diskVars, idVars, slotVars, opVars, bootVars, histVars, marked, Only, Fsync
<1>0. /\ TypeOK /\ minted \in Nat /\ current \in Nat /\ live \in Nat
      /\ (live # 0 => live \in Gens /\ live # current) /\ (current # 0 => current \in Gens)
      /\ (live # 0 <=> wpc # "none") /\ (lock # "free" => current # 0)
      /\ (phase # "up" => live = 0 /\ lock = "free")
  BY GenFacts DEF CoreInv, TypeOK
<1>1. ASSUME Create, setting' = setting  PROVE MarkInv'
  <2>1. /\ minted + 1 \in Gens /\ vol'[minted + 1].names = {"data"}
        /\ dur'[minted + 1].names = dur[minted + 1].names
    BY <1>0, <1>1, CreateFacts
  <2>2. minted + 1 > minted
    BY <1>0
  <2>3. ~marked(dur, minted + 1)
    BY <2>1, <2>2 DEF CoreInv, Absent
  <2>4. lock' = "free" /\ (wpc' = "none" \/ (wpc' = "writing" /\ live' = minted + 1))
    BY <1>0, <1>1 DEF Create, Gate
  <2> QED
    BY <1>0, <1>1, <2>1, <2>3, <2>4 DEF MarkInv
<1>2. ASSUME CloseSync \/ CloseRecord \/ ClosePublish, setting' = setting  PROVE MarkInv'
  <2>1. live \in Gens /\ live' = live /\ current' = current /\ lock' = lock /\ warned' = warned
        /\ ~marked(vol, live) /\ ~marked(dur, live)
        /\ wpc' \in {"synced", "recorded", "renamed", "discard"}
    BY <1>0, <1>2 DEF MarkInv, CloseSync, CloseRecord, ClosePublish, Step
  <2>2. ~marked(dur', live) /\ (wpc' # "renamed" => ~marked(vol', live))
    BY <1>0, <1>2, <2>1, CloseFacts DEF ClosePublish, Step
  <2>3. lock # "free" => vol'[current] = vol[current]
    BY <1>0, <1>2, <2>1, CloseFacts
  <2> QED
    BY <1>0, <1>2, <2>1, <2>2, <2>3 DEF MarkInv
<1>3. ASSUME CloseCommit, setting' = setting  PROVE MarkInv'
  <2>1. wpc' \in {"flip", "retire"} /\ (wpc' = "retire" => Fsync)
        /\ vol' = vol /\ current' = current /\ lock' = lock
    BY <1>3 DEF CloseCommit, Step, publishFailed
  <2> QED
    BY <1>3, <2>1 DEF MarkInv
<1>4. ASSUME AbortRename, setting' = setting  PROVE MarkInv'
  <2>1. live \in Gens /\ live' = live /\ current' = current /\ lock' = lock
        /\ wpc = "retire" /\ wpc' \in {"retiring", "discard"}
    BY <1>0, <1>4 DEF AbortRename, Step
  <2>2. CASE wpc' = "retiring"
    <3>1. vol' = renamed(live, "meta.json", "meta.aborted") /\ dur' = dur
      BY <1>4, <2>1, <2>2 DEF AbortRename, Step
    <3>2. Only(live) /\ ~marked(vol', live)
      BY <1>0, <2>1, <3>1, RenameStep DEF Names
    <3> QED
      BY <1>0, <1>4, <2>1, <2>2, <3>2 DEF MarkInv
  <2>3. CASE wpc' = "discard"
    BY <1>4, <2>1, <2>3 DEF MarkInv, AbortRename, Step
  <2> QED
    BY <2>1, <2>2, <2>3
<1>5. ASSUME AbortSync, setting' = setting  PROVE MarkInv'
  <2>1. live \in Gens /\ live' = live /\ current' = current /\ lock' = lock
        /\ wpc = "retiring" /\ wpc' = "discard" /\ vol' = vol /\ ~marked(vol, live)
    BY <1>0, <1>5 DEF AbortSync, Step, MarkInv
  <2>2. live \in warned' \/ dur' = syncDir(live)
    BY <1>5 DEF AbortSync
  <2>3. dur' = syncDir(live) => (Fsync => ~marked(dur', live))
    BY <1>0, <2>1, SyncStep
  <2> QED
    BY <1>5, <2>1, <2>2, <2>3 DEF MarkInv
<1>6. ASSUME Abort \/ CloseFlip \/ Discard, setting' = setting  PROVE MarkInv'
  BY <1>0, <1>6 DEF MarkInv, Abort, CloseFlip, Discard, Step, Gate
<1>7. ASSUME ClaimRename \/ DeleteRename, setting' = setting  PROVE MarkInv'
  <2>1. current \in Gens
    BY <1>0, <1>7, GenFacts DEF ClaimRename, DeleteRename, TypeOK
  <2>2. Only(current) /\ dur' = dur /\ ~marked(vol', current)
    BY <1>0, <1>7, <2>1, RenameStep DEF ClaimRename, DeleteRename, Names
  <2>3. live # 0 => vol'[live] = vol[live]
    BY <1>0, <2>2
  <2>4. wpc' = wpc /\ live' = live /\ current' = current /\ warned' = warned
    BY <1>7 DEF ClaimRename, DeleteRename
  <2> QED
    BY <1>0, <1>7, <2>2, <2>3, <2>4 DEF MarkInv
<1>8. ASSUME ClaimCommit \/ DeleteCommit, setting' = setting  PROVE MarkInv'
  <2>1. current \in Gens /\ lock' = "free"
    BY <1>0, <1>8 DEF ClaimCommit, DeleteCommit
  <2>2. Only(current) /\ vol' = vol
    BY <1>0, <1>8, <2>1, SyncStep DEF ClaimCommit, DeleteCommit
  <2>3. live # 0 => dur'[live] = dur[live]
    BY <1>0, <2>2
  <2>4. wpc' = wpc /\ live' = live /\ warned' = warned
    BY <1>8 DEF ClaimCommit, DeleteCommit
  <2> QED
    BY <1>0, <1>8, <2>1, <2>2, <2>3, <2>4 DEF MarkInv
<1>9. ASSUME Evict \/ Contest \/ Restore, setting' = setting  PROVE MarkInv'
  BY <1>0, <1>9 DEF MarkInv, Evict, Contest, Restore
<1>10. ASSUME NEW g \in Gens, ReaderClose(g) \/ DeleteReturn(g) \/ RemoveFails(g), setting' = setting
       PROVE  MarkInv'
  BY <1>0, <1>10 DEF MarkInv, ReaderClose, DeleteReturn, RemoveFails
<1>11. ASSUME NEW g \in Gens, Classify(g), setting' = setting  PROVE MarkInv'
  BY <1>0, <1>11 DEF MarkInv, Classify
<1>12. ASSUME NEW g \in Gens, Unlink(g) \/ Rmdir(g) \/ Writeback(g), setting' = setting
       PROVE  MarkInv'
  <2>1. \A h \in Gens : /\ marked(vol', h) => marked(vol, h)
                        /\ marked(dur', h) => marked(dur, h) \/ marked(vol, h)
    BY <1>0, <1>12, KernelFacts
  <2>2. wpc' = wpc /\ live' = live /\ warned' = warned /\ current' = current /\ lock' = lock
    BY <1>12 DEF Unlink, Rmdir, Writeback
  <2> QED
    BY <1>0, <1>12, <2>1, <2>2 DEF MarkInv
<1>13. ASSUME NEW kind \in Crashes, Crash(kind), setting' = setting  PROVE MarkInv'
  BY <1>13 DEF MarkInv, Crash
<1>14. ASSUME UNCHANGED vars  PROVE MarkInv'
  BY <1>14 DEF vars, MarkInv
<1> QED
  BY <1>1, <1>2, <1>3, <1>4, <1>5, <1>6, <1>7, <1>8, <1>9, <1>10, <1>11, <1>12, <1>13, <1>14
     DEF Next, Operation

\* Every step keeps what ended from coming back.
LEMMA GoneStep ==
  ASSUME CoreInv, MarkInv, GoneInv, [Next]_vars
  PROVE  GoneInv'
<1> USE DEF diskVars, idVars, slotVars, opVars, bootVars, histVars, marked, Only, Fsync
<1>0. /\ TypeOK /\ minted \in Nat /\ current \in Nat /\ live \in Nat
      /\ (live # 0 => live \in Gens /\ live # current) /\ (current # 0 => current \in Gens)
      /\ (live # 0 <=> wpc # "none") /\ (lock # "free" => current # 0)
      /\ (phase # "up" => live = 0 /\ lock = "free")
      /\ (live # 0 => live \notin delivered \cup failed)
      /\ delivered \subseteq Gens /\ failed \subseteq Gens /\ 0 \notin Gens
      /\ setting' = setting
  BY GenFacts DEF CoreInv, TypeOK, Next, vars
<1>1. SUFFICES ASSUME Durable, \A g \in delivered \cup (failed \ warned) : Ended(g)
               PROVE  \A g \in delivered' \cup (failed' \ warned') : Ended(g)'
  BY <1>0 DEF GoneInv, Durable
<1>2. ASSUME Create  PROVE \A g \in delivered' \cup (failed' \ warned') : Ended(g)'
  <2>1. /\ minted + 1 \in Gens /\ vol'[minted + 1].names = {"data"}
        /\ dur'[minted + 1].names = dur[minted + 1].names
        /\ \A h \in Gens : h # minted + 1 => vol'[h] = vol[h] /\ dur'[h] = dur[h]
    BY <1>0, <1>2, CreateFacts
  <2>2. minted + 1 > minted
    BY <1>0
  <2>3. ~marked(dur, minted + 1) /\ minted + 1 \notin cands /\ minted + 1 # current
    BY <1>0, <2>1, <2>2 DEF CoreInv, Absent
  <2>4. /\ delivered' = delivered /\ warned' = warned /\ cands' = cands /\ current' = current
        /\ failed' \subseteq failed \cup {minted + 1}
    BY <1>2 DEF Create
  <2> QED
    BY <1>0, <1>1, <2>1, <2>3, <2>4 DEF Ended
<1>3. ASSUME CloseSync \/ CloseRecord \/ ClosePublish
      PROVE  \A g \in delivered' \cup (failed' \ warned') : Ended(g)'
  <2>1. live \in Gens /\ current' = current /\ cands' = cands
        /\ delivered' = delivered /\ failed' = failed /\ warned' = warned
        /\ live \notin delivered \cup failed
    BY <1>0, <1>3 DEF CloseSync, CloseRecord, ClosePublish, Step
  <2>2. \A h \in Gens : h # live => vol'[h] = vol[h] /\ dur'[h] = dur[h]
    BY <1>0, <1>3, <2>1, CloseFacts
  <2> QED
    BY <1>0, <1>1, <2>1, <2>2 DEF Ended
<1>4. ASSUME CloseCommit \/ AbortRename \/ AbortSync \/ Abort
      PROVE  \A g \in delivered' \cup (failed' \ warned') : Ended(g)'
  <2>1. live \in Gens /\ current' = current /\ cands' = cands
        /\ delivered' = delivered /\ failed' = failed /\ warned \subseteq warned'
        /\ live \notin delivered \cup failed
    BY <1>0, <1>4 DEF CloseCommit, AbortRename, AbortSync, Abort, Step, publishFailed
  <2>2. \A h \in Gens : h # live => vol'[h] = vol[h] /\ dur'[h] = dur[h]
    BY <1>0, <1>4, <2>1, RenameStep, SyncStep
       DEF CloseCommit, AbortRename, AbortSync, Abort, Step, Names, publishFailed
  <2> QED
    BY <1>0, <1>1, <2>1, <2>2 DEF Ended
<1>5. ASSUME CloseFlip \/ Discard  PROVE \A g \in delivered' \cup (failed' \ warned') : Ended(g)'
  <2>1. live \in Gens /\ cands' = cands /\ vol' = vol /\ dur' = dur
        /\ delivered' = delivered /\ warned' = warned /\ live # current
        /\ cands = {}
    BY <1>0, <1>5 DEF CloseFlip, Discard, Gate, CoreInv
  <2>2. CASE CloseFlip
    <3>1. current' = live /\ failed' = failed /\ live \notin delivered \cup failed
      BY <1>0, <2>1, <2>2 DEF CloseFlip
    <3> QED
      BY <1>0, <1>1, <2>1, <3>1 DEF Ended
  <2>3. CASE Discard
    <3>1. current' = current /\ failed' = failed \cup {live}
      BY <2>3 DEF Discard
    <3>2. live \notin warned => ~marked(vol, live) /\ (Fsync => ~marked(dur, live))
      BY <2>3 DEF Discard, MarkInv
    <3> QED
      BY <1>0, <1>1, <2>1, <3>1, <3>2 DEF Ended
  <2> QED
    BY <1>5, <2>2, <2>3
<1>6. ASSUME ClaimRename \/ DeleteRename
      PROVE  \A g \in delivered' \cup (failed' \ warned') : Ended(g)'
  <2>1. current \in Gens
    BY <1>0, <1>6, GenFacts DEF ClaimRename, DeleteRename, TypeOK
  <2>2. Only(current) /\ dur' = dur
    BY <1>0, <1>6, <2>1, RenameStep DEF ClaimRename, DeleteRename, Names
  <2>3. current' = current /\ cands' = cands
        /\ delivered' = delivered /\ failed' = failed /\ warned' = warned
    BY <1>6 DEF ClaimRename, DeleteRename
  <2> QED
    BY <1>0, <1>1, <2>2, <2>3 DEF Ended
<1>7. ASSUME ClaimCommit \/ DeleteCommit
      PROVE  \A g \in delivered' \cup (failed' \ warned') : Ended(g)'
  <2>1. current \in Gens /\ current' = 0 /\ cands' = cands /\ cands = {} /\ vol' = vol
        /\ failed' = failed /\ warned' = warned /\ ~marked(vol, current)
    BY <1>0, <1>7 DEF ClaimCommit, DeleteCommit, CoreInv, MarkInv, TypeOK
  <2>2. /\ \A h \in Gens : h # current => dur'[h] = dur[h]
        /\ dur' = syncDir(current) => (Fsync => ~marked(dur', current))
    BY <1>0, <1>7, <2>1, SyncStep DEF ClaimCommit, DeleteCommit
  <2>3. \/ delivered' = delivered
        \/ delivered' = delivered \cup {current} /\ dur' = syncDir(current)
    BY <1>7 DEF ClaimCommit, DeleteCommit
  <2>4. \A h \in delivered \cup (failed \ warned) : h # current
    BY <1>1 DEF Ended
  <2>5. \A g \in delivered \cup (failed \ warned) : Ended(g)'
    BY <1>0, <1>1, <2>1, <2>2, <2>4 DEF Ended
  <2> QED
    BY <1>0, <2>1, <2>3, <2>5, <2>2 DEF Ended
<1>8. ASSUME Evict \/ Contest \/ Restore
      PROVE  \A g \in delivered' \cup (failed' \ warned') : Ended(g)'
  <2>1. /\ delivered' = delivered /\ failed' = failed /\ warned' = warned
        /\ vol' = vol /\ dur' = dur /\ cands' \subseteq cands
        /\ current' = current \/ current' \in cands
    BY <1>8 DEF Evict, Contest, Restore, winners
  <2> QED
    BY <1>0, <1>1, <2>1 DEF Ended
<1>9. ASSUME NEW g \in Gens, ReaderClose(g) \/ DeleteReturn(g) \/ RemoveFails(g)
      PROVE  \A h \in delivered' \cup (failed' \ warned') : Ended(h)'
  <2>1. /\ delivered' = delivered /\ failed' = failed /\ warned' = warned
        /\ vol' = vol /\ dur' = dur /\ cands' = cands /\ current' = current
    BY <1>9 DEF ReaderClose, DeleteReturn, RemoveFails
  <2> QED
    BY <1>0, <1>1, <2>1 DEF Ended
<1>10. ASSUME NEW g \in Gens, Classify(g)
       PROVE  \A h \in delivered' \cup (failed' \ warned') : Ended(h)'
  <2>1. /\ delivered' = delivered /\ failed' = failed /\ warned' = warned
        /\ cands' \subseteq cands \cup {g} /\ current' = current
        /\ g \in cands' \ cands => finalized(g)
    BY <1>10 DEF Classify, verdict
  <2>2. \A h \in Gens : vol'[h].names = vol[h].names /\ dur'[h] = dur[h]
    BY <1>0, <1>10, ClassifyFacts
  <2> QED
    BY <1>0, <1>1, <2>1, <2>2 DEF Ended, finalized
<1>11. ASSUME NEW g \in Gens, Unlink(g) \/ Rmdir(g) \/ Writeback(g)
       PROVE  \A h \in delivered' \cup (failed' \ warned') : Ended(h)'
  <2>1. \A h \in Gens : /\ marked(vol', h) => marked(vol, h)
                        /\ marked(dur', h) => marked(dur, h) \/ marked(vol, h)
    BY <1>0, <1>11, KernelFacts
  <2>2. /\ delivered' = delivered /\ failed' = failed /\ warned' = warned
        /\ cands' = cands /\ current' = current
    BY <1>11 DEF Unlink, Rmdir, Writeback
  <2> QED
    BY <1>0, <1>1, <2>1, <2>2 DEF Ended
<1>12. ASSUME NEW kind \in Crashes, Crash(kind)
       PROVE  \A g \in delivered' \cup (failed' \ warned') : Ended(g)'
  <2>1. /\ delivered' = delivered /\ failed' = failed /\ warned' = warned
        /\ cands' = {} /\ current' = 0 /\ dur' = dur
        /\ vol' = vol \/ (vol' = dur /\ "power" \in Crashes)
    BY <1>12 DEF Crash
  <2>2. "power" \in Crashes => Fsync
    BY <1>1 DEF Durable
  <2> QED
    BY <1>0, <1>1, <2>1, <2>2 DEF Ended
<1>13. ASSUME UNCHANGED vars  PROVE \A g \in delivered' \cup (failed' \ warned') : Ended(g)'
  BY <1>1, <1>13 DEF vars, Ended
<1> QED
  BY <1>2, <1>3, <1>4, <1>5, <1>6, <1>7, <1>8, <1>9, <1>10, <1>11, <1>12, <1>13
     DEF Next, Operation

\* The part of the invariant that needs nothing of the server.
BaseInv == CoreInv /\ MarkInv /\ GoneInv

\* It holds at the start.
LEMMA BaseInit ==
  ASSUME Init
  PROVE  BaseInv
<1>1. TypeOK
  BY DiskAssumption DEF Init, TypeOK, Home, NoHome, WriterPoints, Setting, MaxCrashes
<1>2. \A g \in Gens : Absent(vol, g) /\ Absent(dur, g)
  BY DEF Init, Absent, marked, NoHome
<1> QED
  BY <1>1, <1>2 DEF BaseInv, CoreInv, MarkInv, GoneInv, Init

\* It is an invariant of every server, whatever crashes.
THEOREM BaseInvariant == Spec => []BaseInv
<1>1. Init => BaseInv
  BY BaseInit
<1>2. BaseInv /\ [Next]_vars => BaseInv'
  BY CoreStep, MarkStep, GoneStep DEF BaseInv
<1> QED
  BY <1>1, <1>2, PTL DEF Spec

\* GoneStaysGone, for any settings, faults and crashes: a value that was handed
\* out once, and a write that was reported as failed, never become readable
\* again.
THEOREM GoneIsGone == Spec => []GoneStaysGone
<1>1. BaseInv => GoneStaysGone
  BY DEF BaseInv, GoneInv, GoneStaysGone, Ended
<1> QED
  BY <1>1, BaseInvariant, PTL

-----------------------------------------------------------------------------
(* The bytes come before the marker *)

\* Every step keeps the writer's home as full as its Close has got.
LEMMA WriterFullStep ==
  ASSUME CoreInv, IntactInv, [Next]_vars
  PROVE  WriterFull'
<1> USE DEF diskVars, idVars, slotVars, opVars, bootVars, histVars, Only, Fsync, Full
<1>0. /\ TypeOK /\ WriterFull
      /\ (live # 0 => live \in Gens /\ live # current) /\ (current # 0 => current \in Gens)
      /\ (live # 0 <=> wpc # "none") /\ (lock # "free" => current # 0)
      /\ (phase # "up" => live = 0) /\ setting' = setting
  BY GenFacts DEF CoreInv, TypeOK, Next, vars, IntactInv
<1>1. ASSUME Create  PROVE WriterFull'
  BY <1>0, <1>1 DEF WriterFull, Create
<1>2. ASSUME CloseSync \/ CloseRecord \/ ClosePublish  PROVE WriterFull'
  <2>1. live \in Gens /\ live' = live
    BY <1>0, <1>2 DEF CloseSync, CloseRecord, ClosePublish, Step
  <2>2. CASE CloseSync
    <3>1. wpc' \in {"synced", "discard"}
      BY <2>2 DEF CloseSync, Step
    <3> QED
      BY <1>0, <2>1, <2>2, <3>1, CloseFacts DEF WriterFull
  <2>3. CASE CloseRecord
    <3>1. wpc = "synced" /\ wpc' \in {"recorded", "discard"}
      BY <2>3 DEF CloseRecord, Step
    <3> QED
      BY <1>0, <2>1, <2>3, <3>1, CloseFacts DEF WriterFull
  <2>4. CASE ClosePublish
    <3>1. wpc = "recorded" /\ wpc' \in {"renamed", "discard"}
      BY <2>4 DEF ClosePublish, Step
    <3> QED
      BY <1>0, <2>1, <2>4, <3>1, CloseFacts DEF WriterFull
  <2> QED
    BY <1>2, <2>2, <2>3, <2>4
<1>3. ASSUME CloseCommit \/ AbortRename \/ AbortSync \/ Abort  PROVE WriterFull'
  <2>1. live \in Gens /\ live' = live
        /\ \/ wpc' = "discard"
           \/ wpc \in {"renamed", "retire"} /\ wpc' \in {"flip", "retire", "retiring"}
    BY <1>0, <1>3 DEF CloseCommit, AbortRename, AbortSync, Abort, Step, publishFailed
  <2>2. /\ vol'[live].data = vol[live].data /\ vol'[live].record = vol[live].record
        /\ dur'[live].data = dur[live].data /\ dur'[live].record = dur[live].record
    BY <1>0, <1>3, <2>1, RenameStep, SyncStep
       DEF CloseCommit, AbortRename, AbortSync, Abort, Step, Names, publishFailed
  <2> QED
    BY <1>0, <2>1, <2>2 DEF WriterFull
<1>4. ASSUME CloseFlip \/ Discard  PROVE WriterFull'
  BY <1>4 DEF WriterFull, CloseFlip, Discard
<1>5. ASSUME ClaimRename \/ DeleteRename \/ ClaimCommit \/ DeleteCommit  PROVE WriterFull'
  <2>1. current \in Gens /\ live' = live /\ wpc' = wpc
    BY <1>0, <1>5, GenFacts DEF ClaimRename, DeleteRename, ClaimCommit, DeleteCommit, TypeOK
  <2>2. Only(current)
    <3>1. CASE ClaimRename \/ DeleteRename
      BY <1>0, <2>1, <3>1, RenameStep DEF ClaimRename, DeleteRename, Names
    <3>2. CASE ClaimCommit \/ DeleteCommit
      BY <1>0, <2>1, <3>2, SyncStep DEF ClaimCommit, DeleteCommit
    <3> QED
      BY <1>5, <3>1, <3>2
  <2> QED
    BY <1>0, <2>1, <2>2 DEF WriterFull
<1>6. ASSUME Evict \/ Contest \/ Restore  PROVE WriterFull'
  BY <1>0, <1>6 DEF WriterFull, Evict, Contest, Restore
<1>7. ASSUME NEW g \in Gens, ReaderClose(g) \/ DeleteReturn(g) \/ RemoveFails(g)
      PROVE  WriterFull'
  BY <1>0, <1>7 DEF WriterFull, ReaderClose, DeleteReturn, RemoveFails
<1>8. ASSUME NEW g \in Gens, Classify(g)  PROVE WriterFull'
  BY <1>0, <1>8 DEF WriterFull, Classify
<1>9. ASSUME NEW g \in Gens, Unlink(g) \/ Rmdir(g) \/ Writeback(g)  PROVE WriterFull'
  <2>1. \A h \in Gens : /\ vol'[h].data = vol[h].data /\ vol'[h].record = vol[h].record
                        /\ vol[h].data = "full" /\ dur[h].data = "full" => dur'[h].data = "full"
                        /\ dur'[h].record \in {vol[h].record, dur[h].record}
    BY <1>0, <1>9, KernelFacts
  <2>2. live' = live /\ wpc' = wpc
    BY <1>9 DEF Unlink, Rmdir, Writeback
  <2> QED
    BY <1>0, <2>1, <2>2 DEF WriterFull
<1>10. ASSUME NEW kind \in Crashes, Crash(kind)  PROVE WriterFull'
  BY <1>10 DEF WriterFull, Crash
<1>11. ASSUME UNCHANGED vars  PROVE WriterFull'
  BY <1>0, <1>11 DEF vars, WriterFull
<1> QED
  BY <1>1, <1>2, <1>3, <1>4, <1>5, <1>6, <1>7, <1>8, <1>9, <1>10, <1>11 DEF Next, Operation

\* Every step marks full homes only.
LEMMA MarkedFullStep ==
  ASSUME CoreInv, MarkInv, IntactInv, [Next]_vars
  PROVE  MarkedFull'
<1> USE DEF diskVars, idVars, slotVars, opVars, bootVars, histVars, Only, Fsync, Full, marked
<1>0. /\ TypeOK /\ WriterFull /\ MarkedFull
      /\ (live # 0 => live \in Gens /\ live # current) /\ (current # 0 => current \in Gens)
      /\ (live # 0 <=> wpc # "none") /\ (lock # "free" => current # 0)
      /\ (phase # "up" => live = 0) /\ setting' = setting
  BY GenFacts DEF CoreInv, TypeOK, Next, vars, IntactInv
<1>1. ASSUME Create  PROVE MarkedFull'
  <2>1. minted \in Nat /\ minted + 1 \in Gens /\ ~marked(vol', minted + 1)
        /\ dur'[minted + 1].names = dur[minted + 1].names
        /\ Only(minted + 1)
    BY <1>0, <1>1, CreateFacts DEF TypeOK
  <2>2. ~marked(dur, minted + 1)
    BY <2>1 DEF CoreInv, Absent
  <2> QED
    BY <1>0, <2>1, <2>2 DEF MarkedFull
<1>2. ASSUME CloseSync \/ CloseRecord \/ ClosePublish  PROVE MarkedFull'
  <2>1. live \in Gens /\ ~marked(vol, live) /\ ~marked(dur, live)
    BY <1>0, <1>2 DEF CloseSync, CloseRecord, ClosePublish, Step, MarkInv
  <2>2. Only(live) /\ ~marked(dur', live)
    BY <1>0, <1>2, <2>1, CloseFacts
  <2>3. marked(vol', live) =>
          Full(vol', live) /\ (Fsync => Full(dur', live))
    <3>1. marked(vol', live) => ClosePublish /\ wpc = "recorded"
      BY <1>0, <1>2, <2>1, CloseFacts DEF ClosePublish, Step
    <3> QED
      BY <1>0, <2>1, <3>1, CloseFacts DEF WriterFull
  <2> QED
    BY <1>0, <2>1, <2>2, <2>3 DEF MarkedFull
<1>3. ASSUME CloseCommit \/ AbortRename \/ AbortSync \/ Abort  PROVE MarkedFull'
  <2>1. live \in Gens
    BY <1>0, <1>3 DEF CloseCommit, AbortRename, AbortSync, Abort, Step
  <2>2. /\ vol'[live].data = vol[live].data /\ vol'[live].record = vol[live].record
        /\ dur'[live].data = dur[live].data /\ dur'[live].record = dur[live].record
        /\ Only(live) /\ (marked(vol', live) => marked(vol, live))
        /\ (marked(dur', live) => marked(dur, live) \/ marked(vol, live))
    BY <1>0, <1>3, <2>1, RenameStep, SyncStep
       DEF CloseCommit, AbortRename, AbortSync, Abort, Step, Names, publishFailed
  <2> QED
    BY <1>0, <2>1, <2>2 DEF MarkedFull
<1>4. ASSUME CloseFlip \/ Discard \/ Evict \/ Contest \/ Restore  PROVE MarkedFull'
  BY <1>0, <1>4 DEF MarkedFull, CloseFlip, Discard, Evict, Contest, Restore
<1>5. ASSUME ClaimRename \/ DeleteRename \/ ClaimCommit \/ DeleteCommit  PROVE MarkedFull'
  <2>1. current \in Gens
    BY <1>0, <1>5, GenFacts DEF ClaimRename, DeleteRename, ClaimCommit, DeleteCommit, TypeOK
  <2>2. /\ vol'[current].data = vol[current].data /\ vol'[current].record = vol[current].record
        /\ dur'[current].data = dur[current].data /\ dur'[current].record = dur[current].record
        /\ Only(current) /\ (marked(vol', current) => marked(vol, current))
        /\ (marked(dur', current) => marked(dur, current) \/ marked(vol, current))
    <3>1. CASE ClaimRename \/ DeleteRename
      BY <1>0, <2>1, <3>1, RenameStep DEF ClaimRename, DeleteRename, Names
    <3>2. CASE ClaimCommit \/ DeleteCommit
      BY <1>0, <2>1, <3>2, SyncStep DEF ClaimCommit, DeleteCommit
    <3> QED
      BY <1>5, <3>1, <3>2
  <2> QED
    BY <1>0, <2>1, <2>2 DEF MarkedFull
<1>6. ASSUME NEW g \in Gens, ReaderClose(g) \/ DeleteReturn(g) \/ RemoveFails(g)
      PROVE  MarkedFull'
  BY <1>0, <1>6 DEF MarkedFull, ReaderClose, DeleteReturn, RemoveFails
<1>7. ASSUME NEW g \in Gens, Classify(g)  PROVE MarkedFull'
  BY <1>0, <1>7, ClassifyFacts DEF MarkedFull
<1>8. ASSUME NEW g \in Gens, Unlink(g) \/ Rmdir(g) \/ Writeback(g)  PROVE MarkedFull'
  <2>1. \A h \in Gens : /\ vol'[h].data = vol[h].data /\ vol'[h].record = vol[h].record
                        /\ vol[h].data = "full" /\ dur[h].data = "full" => dur'[h].data = "full"
                        /\ dur'[h].record \in {vol[h].record, dur[h].record}
                        /\ marked(vol', h) => marked(vol, h)
                        /\ marked(dur', h) => marked(dur, h) \/ marked(vol, h)
    BY <1>0, <1>8, KernelFacts
  <2> QED
    BY <1>0, <2>1 DEF MarkedFull
<1>9. ASSUME NEW kind \in Crashes, Crash(kind)  PROVE MarkedFull'
  <2>1. dur' = dur /\ (vol' = vol \/ (vol' = dur /\ "power" \in Crashes))
    BY <1>9 DEF Crash
  <2> QED
    BY <1>0, <2>1 DEF MarkedFull
<1>10. ASSUME UNCHANGED vars  PROVE MarkedFull'
  BY <1>0, <1>10 DEF vars, MarkedFull
<1> QED
  BY <1>1, <1>2, <1>3, <1>4, <1>5, <1>6, <1>7, <1>8, <1>9, <1>10 DEF Next, Operation

\* Where a crash cannot garble the bytes unnoticed, every step serves whole ones.
LEMMA ServedStep ==
  ASSUME Guarded, CoreInv, IntactInv, ServedInv, [Next]_vars
  PROVE  ServedInv'
<1> USE DEF diskVars, idVars, slotVars, opVars, bootVars, histVars, Only
<1>0. /\ TypeOK /\ WriterFull /\ MarkedFull /\ cands \subseteq Gens
      /\ (live # 0 => live \in Gens) /\ (current # 0 => current \in Gens)
      /\ (live # 0 <=> wpc # "none") /\ (lock # "free" => current # 0)
      /\ setting \in Settings
  BY GenFacts DEF CoreInv, TypeOK, IntactInv
\* Outside a crash, bytes that are in stay in.
<1>1. ASSUME \A h \in Gens : vol[h].data = "full" => vol'[h].data = "full",
             current' \in {0, current} \cup cands, cands' \subseteq cands
      PROVE  ServedInv'
  BY <1>0, <1>1 DEF ServedInv
<1>2. ASSUME Create  PROVE ServedInv'
  <2>1. \A h \in Gens : vol[h].data = "full" => vol'[h].data = "full"
    BY <1>0, <1>2, CreateFacts
  <2>2. current' = current /\ cands' = cands
    BY <1>2 DEF Create
  <2> QED
    BY <1>1, <2>1, <2>2
<1>3. ASSUME CloseSync \/ CloseRecord \/ ClosePublish  PROVE ServedInv'
  <2>1. live \in Gens /\ current' = current /\ cands' = cands
    BY <1>0, <1>3 DEF CloseSync, CloseRecord, ClosePublish, Step
  <2>2. \A h \in Gens : vol[h].data = "full" => vol'[h].data = "full"
    BY <1>0, <1>3, <2>1, CloseFacts
  <2> QED
    BY <1>1, <2>1, <2>2
<1>4. ASSUME CloseCommit \/ AbortRename \/ AbortSync \/ Abort  PROVE ServedInv'
  <2>1. live \in Gens /\ current' = current /\ cands' = cands
    BY <1>0, <1>4 DEF CloseCommit, AbortRename, AbortSync, Abort, Step
  <2>2. vol' = vol \/ vol' = renamed(live, "meta.json", "meta.aborted")
    BY <1>4 DEF CloseCommit, AbortRename, AbortSync, Abort
  <2>3. \A h \in Gens : vol[h].data = "full" => vol'[h].data = "full"
    <3>1. \A h \in Gens : renamed(live, "meta.json", "meta.aborted")[h].data = vol[h].data
      BY <1>0, <2>1, RenamedData DEF TypeOK, Names
    <3> QED
      BY <2>2, <3>1
  <2> QED
    BY <1>1, <2>1, <2>3
<1>5. ASSUME CloseFlip  PROVE ServedInv'
  <2>1. vol' = vol /\ current' = live /\ cands' = cands /\ wpc = "flip"
    BY <1>5 DEF CloseFlip
  <2> QED
    BY <1>0, <2>1 DEF ServedInv, WriterFull
<1>6. ASSUME ClaimRename \/ DeleteRename  PROVE ServedInv'
  <2>1. current \in Gens /\ current' = current /\ cands' = cands
    BY <1>0, <1>6, GenFacts DEF ClaimRename, DeleteRename, TypeOK
  <2>2. \A h \in Gens : vol[h].data = "full" => vol'[h].data = "full"
    <3>1. \A to \in Names : \A h \in Gens :
             renamed(current, "meta.json", to)[h].data = vol[h].data
      BY <1>0, <2>1, RenamedData DEF TypeOK, Names
    <3> QED
      BY <1>6, <3>1 DEF ClaimRename, DeleteRename, Names
  <2> QED
    BY <1>1, <2>1, <2>2
<1>7. ASSUME \/ Discard \/ ClaimCommit \/ DeleteCommit \/ Evict \/ Contest \/ Restore
             \/ \E g \in Gens : ReaderClose(g) \/ DeleteReturn(g) \/ RemoveFails(g)
      PROVE  ServedInv'
  <2>1. vol' = vol /\ current' \in {0, current} \cup cands /\ cands' \subseteq cands
    BY <1>7 DEF Discard, ClaimCommit, DeleteCommit, Evict, Contest, Restore, winners,
                ReaderClose, DeleteReturn, RemoveFails
  <2> QED
    BY <1>1, <2>1
<1>8. ASSUME NEW g \in Gens, Classify(g)  PROVE ServedInv'
  <2>1. /\ current' = current
        /\ \/ cands' = cands
           \/ verdict(g) = "candidate" /\ cands' = cands \cup {g}
    BY <1>8 DEF Classify
  <2>2. \A h \in Gens : vol'[h].data = vol[h].data
    BY <1>0, <1>8, ClassifyFacts
  <2>3. ASSUME verdict(g) = "candidate"  PROVE vol[g].data = "full"
    <3>1. marked(vol, g) /\ ~mismatch(g)
      BY <2>3 DEF verdict, finalized, marked
    <3>2. vol[g].data \in {"short", "garbled", "full"}
      BY <1>0, <1>8 DEF TypeOK, Home
    <3>3. CASE Checksum
      BY <3>1, <3>2, <3>3 DEF mismatch
    <3>4. CASE Fsync \/ "power" \notin Crashes
      BY <1>0, <1>8, <3>1, <3>4 DEF MarkedFull, Full
    <3> QED
      BY <1>0, <3>3, <3>4 DEF Guarded, Fsync, Checksum
  <2> QED
    BY <1>0, <1>8, <2>1, <2>2, <2>3 DEF ServedInv
<1>9. ASSUME NEW g \in Gens, Unlink(g) \/ Rmdir(g) \/ Writeback(g)  PROVE ServedInv'
  <2>1. \A h \in Gens : vol'[h].data = vol[h].data
    BY <1>0, <1>9, KernelFacts
  <2>2. current' = current /\ cands' = cands
    BY <1>9 DEF Unlink, Rmdir, Writeback
  <2> QED
    BY <1>1, <2>1, <2>2
<1>10. ASSUME NEW kind \in Crashes, Crash(kind)  PROVE ServedInv'
  BY <1>10 DEF ServedInv, Crash
<1>11. ASSUME UNCHANGED vars  PROVE ServedInv'
  BY <1>1, <1>11 DEF vars
<1> QED
  BY <1>2, <1>3, <1>4, <1>5, <1>6, <1>7, <1>8, <1>9, <1>10, <1>11 DEF Next, Operation

\* The bytes come first on every server, whatever crashes.
THEOREM IntactInvariant == Spec => []IntactInv
<1>1. Init => IntactInv
  BY DEF Init, IntactInv, WriterFull, MarkedFull, marked, NoHome
<1>2. BaseInv /\ IntactInv /\ [Next]_vars => IntactInv'
  BY WriterFullStep, MarkedFullStep DEF BaseInv, IntactInv
<1> QED
  BY <1>1, <1>2, BaseInvariant, PTL DEF Spec

\* ServedIntact, for any settings, faults and crashes, if a server that may
\* lose power runs with fsync or with checksums: recovery never reinstates
\* truncated or corrupted bytes.
THEOREM ServedIsIntact == Guarded => (Spec => []ServedIntact)
<1> SUFFICES ASSUME Guarded  PROVE Spec => []ServedIntact
  OBVIOUS
<1>1. Init => ServedInv
  BY DEF Init, ServedInv
<1>2. BaseInv /\ IntactInv /\ ServedInv /\ [Next]_vars => ServedInv'
  BY ServedStep DEF BaseInv
<1>3. ServedInv => ServedIntact
  BY DEF ServedInv, ServedIntact
<1> QED
  BY <1>1, <1>2, <1>3, BaseInvariant, IntactInvariant, PTL DEF Spec

-----------------------------------------------------------------------------
(* A marker means a readable value *)

\* Where removals work, every step leaves no marker without an owner.
LEMMA MarkerStep ==
  ASSUME Removable, CoreInv, MarkInv, IntactInv, MarkerInv, [Next]_vars
  PROVE  MarkerInv'
<1> USE DEF diskVars, idVars, slotVars, opVars, bootVars, histVars, Only, Fsync
<1>0. /\ TypeOK /\ MarkedFull /\ setting \in Settings
      /\ (live # 0 => live \in Gens /\ live # current) /\ (current # 0 => current \in Gens)
      /\ (live # 0 <=> wpc # "none") /\ (lock # "free" => current # 0)
      /\ (phase # "up" => live = 0 /\ lock = "free")
  BY GenFacts DEF CoreInv, TypeOK, IntactInv
\* A marker that stays listed was there before, in the same phase.
<1>1. ASSUME \A g \in Gens : vol'[g].place = "clips" /\ marked(vol', g) =>
               /\ vol[g].place = "clips" /\ marked(vol, g)
               /\ g \in {current, live} \cup doomed => g \in {current', live'} \cup doomed'
               /\ phase # "up" /\ g \in {current} \cup doomed => g \in {current'} \cup doomed'
               /\ g \in cands \cup doomed => g \in cands' \cup doomed',
             phase' = phase, scanned' = scanned
      PROVE  MarkerInv'
  BY <1>1 DEF MarkerInv, Listed, finalized, marked
<1>2. ASSUME Create  PROVE MarkerInv'
  <2>1. minted + 1 \in Gens /\ ~marked(vol', minted + 1) /\ Only(minted + 1)
    BY <1>0, <1>2, CreateFacts DEF marked
  <2>2. live = 0 /\ 0 \notin Gens /\ doomed \subseteq doomed' /\ current' = current
        /\ phase' = phase /\ scanned' = scanned /\ cands' = cands
    BY <1>2, GenFacts DEF Create
  <2> QED
    BY <1>1, <2>1, <2>2 DEF marked
<1>3. ASSUME CloseSync \/ CloseRecord \/ ClosePublish  PROVE MarkerInv'
  <2>1. live \in Gens /\ live' = live /\ current' = current /\ doomed' = doomed
        /\ phase' = phase /\ phase = "up"
    BY <1>0, <1>3 DEF CloseSync, CloseRecord, ClosePublish, Step
  <2>2. Only(live)
    BY <1>0, <1>3, <2>1, CloseFacts
  <2> QED
    BY <2>1, <2>2 DEF MarkerInv, Listed, finalized
<1>4. ASSUME CloseCommit \/ AbortRename \/ AbortSync \/ Abort  PROVE MarkerInv'
  <2>1. live \in Gens /\ live' = live /\ current' = current /\ doomed' = doomed
        /\ phase' = phase /\ phase = "up"
    BY <1>0, <1>4 DEF CloseCommit, AbortRename, AbortSync, Abort, Step
  <2>2. Only(live)
    BY <1>0, <1>4, <2>1, RenameStep, SyncStep
       DEF CloseCommit, AbortRename, AbortSync, Abort, Step, Names, publishFailed
  <2> QED
    BY <2>1, <2>2 DEF MarkerInv, Listed, finalized
<1>5. ASSUME CloseFlip \/ Discard  PROVE MarkerInv'
  <2>1. /\ vol' = vol /\ phase' = phase /\ phase = "up" /\ live' = 0
        /\ \A g \in Gens : g \in {current, live} \cup doomed => g \in {current'} \cup doomed'
    BY <1>5, GenFacts DEF CloseFlip, Discard, Gate
  <2> QED
    BY <2>1 DEF MarkerInv, Listed, finalized
<1>6. ASSUME ClaimRename \/ DeleteRename  PROVE MarkerInv'
  <2>1. current \in Gens /\ live' = live /\ current' = current /\ doomed' = doomed
        /\ phase' = phase /\ phase = "up"
    BY <1>0, <1>6, GenFacts DEF ClaimRename, DeleteRename, TypeOK, Gate
  <2>2. Only(current)
    BY <1>0, <1>6, <2>1, RenameStep DEF ClaimRename, DeleteRename, Names
  <2> QED
    BY <2>1, <2>2 DEF MarkerInv, Listed, finalized
<1>7. ASSUME ClaimCommit \/ DeleteCommit  PROVE MarkerInv'
  <2>1. vol' = vol /\ live' = live /\ doomed \subseteq doomed' /\ ~marked(vol, current)
        /\ phase' = phase /\ phase = "up"
    BY <1>0, <1>7 DEF ClaimCommit, DeleteCommit, MarkInv
  <2> QED
    BY <2>1 DEF MarkerInv, Listed, finalized, marked
<1>8. ASSUME Evict \/ Restore  PROVE MarkerInv'
  <2>1. vol' = vol /\ current' = current /\ live' = live /\ doomed' = doomed /\ phase' = "up"
    BY <1>8 DEF Evict, Restore, Gate
  <2>2. phase = "up" \/ (phase = "contest" /\ doomed = {})
    BY <1>8 DEF Evict, Restore, Gate
  <2> QED
    BY <2>1, <2>2 DEF MarkerInv, Listed, finalized
<1>9. ASSUME Contest  PROVE MarkerInv'
  <2>1. vol' = vol /\ phase = "scan" /\ phase' = "contest" /\ doomed = {} /\ Listed \subseteq scanned
    BY <1>9 DEF Contest
  <2>2. \A g \in cands : g \in {current'} \cup doomed'
    BY <1>9 DEF Contest, losers
  <2> QED
    BY <2>1, <2>2 DEF MarkerInv, Listed, finalized
<1>10. ASSUME NEW g \in Gens, ReaderClose(g) \/ DeleteReturn(g)  PROVE MarkerInv'
  BY <1>1, <1>10 DEF ReaderClose, DeleteReturn
<1>11. ASSUME NEW g \in Gens, RemoveFails(g)  PROVE MarkerInv'
  BY <1>0, <1>11 DEF RemoveFails, Removable, Faults
<1>12. ASSUME NEW g \in Gens, Classify(g)  PROVE MarkerInv'
  <2>1. /\ phase = "scan" /\ phase' = "scan" /\ doomed = {} /\ scanned' = scanned \cup {g}
        /\ cands \subseteq cands' /\ Only(g) /\ vol'[g].names = vol[g].names
    BY <1>0, <1>12, ClassifyFacts DEF Classify
  <2>2. ASSUME vol'[g].place = "clips", marked(vol', g)  PROVE g \in cands' \cup doomed'
    <3>1. CASE verdict(g) # "quarantine"
      <4>1. verdict(g) \in {"garbage", "candidate"}
        BY <3>1 DEF verdict
      <4> QED
        BY <1>12, <4>1 DEF Classify
    <3>2. CASE verdict(g) = "quarantine"
      <4>1. "rename" \in Faults \/ vol'[g].place = "quarantine"
        BY <1>0, <1>12, <3>2 DEF Classify, TypeOK, Home
      <4>2. "power" \notin Crashes
        BY <1>0, <2>2, <4>1 DEF Removable, Faults
      <4>3. Full(vol, g)
        BY <1>0, <1>12, <2>1, <2>2, <4>2 DEF MarkedFull, marked
      <4> QED
        BY <3>2, <4>3 DEF verdict, mismatch, Full
    <3> QED
      BY <3>1, <3>2
  <2> QED
    BY <2>1, <2>2 DEF MarkerInv, Listed, finalized, marked
<1>13. ASSUME NEW g \in Gens, Unlink(g) \/ Rmdir(g) \/ Writeback(g)  PROVE MarkerInv'
  <2>1. \A h \in Gens : /\ marked(vol', h) => marked(vol, h)
                        /\ vol'[h].place \in {vol[h].place, "none"}
    BY <1>0, <1>13, KernelFacts DEF marked
  <2>2. current' = current /\ live' = live /\ cands' = cands /\ phase' = phase /\ scanned' = scanned
    BY <1>13 DEF Unlink, Rmdir, Writeback
  <2>3. CASE doomed' = doomed
    BY <1>1, <2>1, <2>2, <2>3
  <2>4. CASE doomed' # doomed
    <3>1. doomed' = doomed \ {g} /\ vol'[g].place = "none"
      BY <1>0, <1>13, <2>4 DEF Unlink, Rmdir, Writeback, TypeOK, Home
    <3> QED
      BY <1>1, <2>1, <2>2, <3>1
  <2> QED
    BY <2>3, <2>4
<1>14. ASSUME NEW kind \in Crashes, Crash(kind)  PROVE MarkerInv'
  BY <1>14 DEF MarkerInv, Crash
<1>15. ASSUME UNCHANGED vars  PROVE MarkerInv'
  BY <1>1, <1>15 DEF vars
<1> QED
  BY <1>2, <1>3, <1>4, <1>5, <1>6, <1>7, <1>8, <1>9, <1>10, <1>11, <1>12, <1>13, <1>14, <1>15
     DEF Next, Operation

\* No marker without an owner, where removals work.
THEOREM MarkerInvariant == Removable => (Spec => []MarkerInv)
<1> SUFFICES ASSUME Removable  PROVE Spec => []MarkerInv
  OBVIOUS
<1>1. Init => MarkerInv
  BY DEF Init, MarkerInv, Listed, NoHome
<1>2. BaseInv /\ IntactInv /\ MarkerInv /\ [Next]_vars => MarkerInv'
  BY MarkerStep DEF BaseInv
<1> QED
  BY <1>1, <1>2, BaseInvariant, IntactInvariant, PTL DEF Spec

\* MarkerMeansCurrent, for any settings and crashes, if RemoveAll does not fail
\* and a home that a power loss damaged can be moved to the quarantine: the
\* next boot finds no stale value to reinstate.
THEOREM MarkersAreCurrent == Removable => (Spec => []MarkerMeansCurrent)
<1> SUFFICES ASSUME Removable  PROVE Spec => []MarkerMeansCurrent
  OBVIOUS
<1>1. MarkerInv => MarkerMeansCurrent
  BY DEF MarkerInv, MarkerMeansCurrent
<1> QED
  BY <1>1, MarkerInvariant, PTL

-----------------------------------------------------------------------------
(* Ids follow the mint order *)

\* With a clock that does not go back, an id's prefix is its place in the mint
\* order.
LEMMA StraightStep ==
  ASSUME ~Backward, CoreInv, OrderInv, [Next]_vars
  PROVE  OrderInv'
<1> USE DEF diskVars, idVars, slotVars, opVars, bootVars, histVars
<1>0. /\ TypeOK /\ minted \in Nat /\ seed \in Nat /\ seed <= minted
      /\ \A g \in Gens : g <= minted => prefix[g] = g
      /\ current \in Nat /\ current <= minted /\ (current # 0 => current \in Gens)
      /\ Gens \subseteq Nat
  BY GenFacts DEF CoreInv, TypeOK, OrderInv
<1>1. SUFFICES seed' <= minted' /\ \A g \in Gens : g <= minted' => prefix'[g] = g
  BY DEF OrderInv
<1>2. CASE Create
  <2>1. minted + 1 \in Gens
    BY <1>0, <1>2, CreateFacts
  <2>2. allocate(minted + 1) = minted + 1 /\ readings = {minted + 1}
    BY <1>0 DEF allocate, readings
  <2>3. minted' = minted + 1 /\ seed' = minted + 1
        /\ prefix' = [prefix EXCEPT ![minted + 1] = minted + 1]
    BY <1>2, <2>2 DEF Create
  <2>4. prefix \in [Gens -> Nat]
    BY <1>0 DEF TypeOK
  <2> QED
    BY <1>0, <2>1, <2>3, <2>4
<1>3. ASSUME minted' = minted, prefix' = prefix, seed' \in {0, seed, reseed(current)}
      PROVE  seed' <= minted' /\ \A g \in Gens : g <= minted' => prefix'[g] = g
  BY <1>0, <1>3 DEF reseed
<1>4. CASE \/ CloseSync \/ CloseRecord \/ ClosePublish \/ CloseCommit
           \/ AbortRename \/ AbortSync \/ Abort \/ CloseFlip \/ Discard
  BY <1>3, <1>4 DEF CloseSync, CloseRecord, ClosePublish, CloseCommit, AbortRename, AbortSync,
                    Abort, CloseFlip, Discard, Step
<1>5. CASE \/ ClaimRename \/ ClaimCommit \/ DeleteRename \/ DeleteCommit \/ Evict
           \/ Contest \/ Restore \/ UNCHANGED vars
  BY <1>3, <1>5 DEF ClaimRename, ClaimCommit, DeleteRename, DeleteCommit, Evict, Contest,
                    Restore, vars
<1>6. CASE \E g \in Gens : \/ ReaderClose(g) \/ DeleteReturn(g) \/ Classify(g)
                           \/ Unlink(g) \/ Rmdir(g) \/ RemoveFails(g) \/ Writeback(g)
  BY <1>3, <1>6 DEF ReaderClose, DeleteReturn, Classify, Unlink, Rmdir, RemoveFails, Writeback
<1>7. CASE \E kind \in Crashes : Crash(kind)
  BY <1>3, <1>7 DEF Crash
<1> QED
  BY <1>2, <1>4, <1>5, <1>6, <1>7 DEF Next, Operation

\* With one that does, the generations that a boot could still find have ids
\* in mint order, and a running server's seed is above them all.
LEMMA BackwardStep ==
  ASSUME Backward, Crashes = {"process"}, CoreInv, MarkInv, MarkerInv, OrderInv, [Next]_vars
  PROVE  OrderInv'
<1> USE DEF diskVars, idVars, slotVars, opVars, bootVars, histVars
<1>0. /\ TypeOK /\ minted \in Nat /\ seed \in Nat /\ prefix \in [Gens -> Nat]
      /\ \A g, k \in Gens : Bears(g) /\ Bears(k) /\ g < k => prefix[g] < prefix[k]
      /\ phase = "up" => \A g \in Gens : Bears(g) => prefix[g] <= seed
      /\ (live # 0 => live \in Gens) /\ (current # 0 => current \in Gens)
      /\ (live # 0 <=> wpc # "none") /\ (lock # "free" => current # 0)
      /\ (phase # "up" => live = 0)
      /\ Gens \subseteq Nat /\ 0 \notin Gens
  BY GenFacts DEF CoreInv, TypeOK, OrderInv
\* Only Create makes a new bearer.
<1>2. ASSUME \A g \in Gens : Bears(g)' => Bears(g), prefix' = prefix,
             seed' = seed, phase' = "up" => phase = "up"
      PROVE  OrderInv'
  BY <1>0, <1>2 DEF OrderInv
<1>3. ASSUME Create  PROVE OrderInv'
  <2>1. /\ minted + 1 \in Gens /\ \A h \in Gens \ {minted + 1} : vol'[h] = vol[h]
        /\ "meta.json" \notin vol'[minted + 1].names
    BY <1>0, <1>3, CreateFacts DEF Only
  <2>2. live = 0 /\ phase = "up" /\ live' \in {0, minted + 1}
    BY <1>3 DEF Create, Gate
  <2>3. PICK p \in Nat : /\ p > seed /\ seed' = p
                         /\ prefix' = [prefix EXCEPT ![minted + 1] = p]
    <3>1. PICK t \in readings : prefix' = [prefix EXCEPT ![minted + 1] = allocate(t)]
                                /\ seed' = allocate(t)
      BY <1>3 DEF Create
    <3>2. t \in Nat
      BY <1>0 DEF readings
    <3>3. allocate(t) \in Nat /\ allocate(t) > seed
      BY <1>0, <3>2 DEF allocate
    <3> QED
      BY <3>1, <3>3
  <2>4. \A h \in Gens : Bears(h)' => h = minted + 1 \/ (Bears(h) /\ h # minted + 1)
    BY <1>0, <2>1, <2>2 DEF Bears, Listed, finalized
  <2>5. \A h \in Gens : Bears(h) => h <= minted \/ h = minted + 1
    BY <1>0, <2>2 DEF Bears, Listed, finalized, CoreInv, Absent
  <2>6. \A h \in Gens : Bears(h) => prefix[h] <= seed /\ prefix[h] \in Nat
    BY <1>0, <2>2
  <2> QED
    BY <1>0, <2>1, <2>3, <2>4, <2>5, <2>6 DEF OrderInv
<1>4. ASSUME CloseSync \/ CloseRecord \/ ClosePublish  PROVE OrderInv'
  <2>1. live \in Gens /\ live' = live /\ phase' = phase /\ prefix' = prefix /\ seed' = seed
    BY <1>0, <1>4 DEF CloseSync, CloseRecord, ClosePublish, Step
  <2>2. Only(live)
    BY <1>0, <1>4, <2>1, CloseFacts
  <2> QED
    BY <1>2, <2>1, <2>2 DEF Bears, Listed, finalized, Only
<1>5. ASSUME CloseCommit \/ AbortRename \/ AbortSync \/ Abort  PROVE OrderInv'
  <2>1. live \in Gens /\ live' = live /\ phase' = phase /\ prefix' = prefix /\ seed' = seed
    BY <1>0, <1>5 DEF CloseCommit, AbortRename, AbortSync, Abort, Step
  <2>2. \A h \in Gens \ {live} : vol'[h] = vol[h]
    BY <1>0, <1>5, <2>1, RenameStep
       DEF CloseCommit, AbortRename, AbortSync, Abort, Names, Only
  <2> QED
    BY <1>2, <2>1, <2>2 DEF Bears, Listed, finalized
<1>6. ASSUME CloseFlip \/ Discard  PROVE OrderInv'
  <2>1. live' = 0 /\ phase' = phase /\ prefix' = prefix /\ seed' = seed /\ vol' = vol
    BY <1>6 DEF CloseFlip, Discard
  <2> QED
    BY <1>0, <1>2, <2>1 DEF Bears, Listed, finalized
<1>7. ASSUME ClaimRename \/ DeleteRename  PROVE OrderInv'
  <2>1. current \in Gens /\ live' = live /\ phase' = phase /\ prefix' = prefix /\ seed' = seed
    BY <1>0, <1>7, GenFacts DEF ClaimRename, DeleteRename, TypeOK
  <2>2. Only(current) /\ "meta.json" \notin vol'[current].names
    <3>1. CASE ClaimRename
      BY <1>0, <2>1, <3>1, RenameStep DEF ClaimRename, Names
    <3>2. CASE DeleteRename
      BY <1>0, <2>1, <3>2, RenameStep DEF DeleteRename, Names
    <3> QED
      BY <1>7, <3>1, <3>2
  <2> QED
    BY <1>2, <2>1, <2>2 DEF Bears, Listed, finalized, Only
<1>8. ASSUME ClaimCommit \/ DeleteCommit \/ Contest  PROVE OrderInv'
  <2>1. live' = live /\ phase' \in {phase, "contest"} /\ prefix' = prefix /\ seed' = seed
        /\ vol' = vol
    BY <1>8 DEF ClaimCommit, DeleteCommit, Contest
  <2> QED
    BY <1>2, <2>1 DEF Bears, Listed, finalized
<1>9. ASSUME Evict  PROVE OrderInv'
  <2>1. \A g \in Gens : ~Bears(g)
    BY <1>0, <1>9 DEF Evict, Gate, MarkerInv, Bears, Listed, finalized
  <2>2. vol' = vol /\ live' = live
    BY <1>9 DEF Evict
  <2>3. \A g \in Gens : ~Bears(g)'
    BY <2>1, <2>2 DEF Bears, Listed, finalized
  <2> QED
    BY <2>3 DEF OrderInv
<1>10. ASSUME Restore  PROVE OrderInv'
  <2>1. \A g \in Gens : Bears(g) => g = current
    BY <1>0, <1>10 DEF Restore, MarkerInv, Bears, Listed, finalized
  <2>2. vol' = vol /\ live' = live /\ prefix' = prefix /\ seed' = reseed(current)
    BY <1>10 DEF Restore
  <2>3. \A g \in Gens : Bears(g)' => g = current
    BY <2>1, <2>2 DEF Bears, Listed, finalized
  <2> QED
    BY <1>0, <2>2, <2>3 DEF OrderInv, reseed
<1>11. ASSUME NEW g \in Gens, ReaderClose(g) \/ DeleteReturn(g) \/ RemoveFails(g)
       PROVE  OrderInv'
  <2>1. live' = live /\ phase' = phase /\ prefix' = prefix /\ seed' = seed /\ vol' = vol
    BY <1>11 DEF ReaderClose, DeleteReturn, RemoveFails
  <2> QED
    BY <1>2, <2>1 DEF Bears, Listed, finalized
<1>12. ASSUME NEW g \in Gens, Classify(g)  PROVE OrderInv'
  <2>1. live' = live /\ phase' = phase /\ prefix' = prefix /\ seed' = seed
    BY <1>12 DEF Classify
  <2>2. \A h \in Gens : /\ vol'[h].names = vol[h].names
                        /\ vol'[h].place \in {vol[h].place, "quarantine"}
    BY <1>0, <1>12, ClassifyFacts DEF Only
  <2> QED
    BY <1>2, <2>1, <2>2 DEF Bears, Listed, finalized
<1>13. ASSUME NEW g \in Gens, Unlink(g) \/ Rmdir(g) \/ Writeback(g)  PROVE OrderInv'
  <2>1. live' = live /\ phase' = phase /\ prefix' = prefix /\ seed' = seed
    BY <1>13 DEF Unlink, Rmdir, Writeback
  <2>2. \A h \in Gens : /\ vol'[h].names \subseteq vol[h].names
                        /\ vol'[h].place \in {vol[h].place, "none"}
    BY <1>0, <1>13, KernelFacts DEF Only
  <2> QED
    BY <1>2, <2>1, <2>2 DEF Bears, Listed, finalized
<1>14. ASSUME NEW kind \in Crashes, Crash(kind)  PROVE OrderInv'
  <2>1. live' = 0 /\ phase' = "scan" /\ prefix' = prefix /\ vol' = vol
    BY <1>14 DEF Crash
  <2>2. \A g \in Gens : Bears(g)' => Bears(g)
    BY <1>0, <2>1 DEF Bears, Listed, finalized
  <2> QED
    BY <1>0, <2>1, <2>2 DEF OrderInv
<1>15. ASSUME UNCHANGED vars  PROVE OrderInv'
  BY <1>2, <1>15 DEF vars, Bears, Listed, finalized
<1> QED
  BY <1>3, <1>4, <1>5, <1>6, <1>7, <1>8, <1>9, <1>10, <1>11, <1>12, <1>13, <1>14, <1>15
     DEF Next, Operation

-----------------------------------------------------------------------------
(* The last published value has an heir *)

\* Neither RemoveAll nor the kernel harms a home that stands and is not being
\* removed.
LEMMA KernelStanding ==
  ASSUME TypeOK, NEW g \in Gens, Unlink(g) \/ Rmdir(g) \/ Writeback(g),
         NEW h \in Gens, h \notin doomed, Standing(h)
  PROVE  Standing(h)'
<1>1. CASE h # g
  BY <1>1, KernelFacts DEF Only, Standing, Whole, Full
<1>2. CASE h = g
  <2>1. Writeback(g)
    BY <1>2 DEF Unlink, Rmdir
  <2>2. "power" \in Crashes
    BY <2>1 DEF Writeback
  <2> QED
    BY <1>2, <2>1, <2>2, KernelFacts DEF Standing, Whole, Full
<1> QED
  BY <1>1, <1>2

\* What a commit leaves alone stands.
LEMMA OtherStanding ==
  ASSUME NEW g, Only(g), NEW h \in Gens, h # g, Standing(h)
  PROVE  Standing(h)'
  BY DEF Only, Standing, Whole, Full

\* Every step keeps the write on its way to be the next heir.
LEMMA WriterHeirStep ==
  ASSUME OneKind, Durable, CoreInv, IntactInv, WriterHeir, [Next]_vars
  PROVE  WriterHeir'
<1> USE DEF diskVars, idVars, slotVars, opVars, bootVars, histVars
<1>0. /\ TypeOK /\ WriterFull
      /\ (live # 0 => live \in Gens /\ live # current /\ live \notin doomed)
      /\ (current # 0 => current \in Gens)
      /\ (live # 0 <=> wpc # "none") /\ (lock # "free" => current # 0)
      /\ ("power" \in Crashes => Fsync)
  BY GenFacts DEF CoreInv, TypeOK, IntactInv, Durable
<1>1. ASSUME Create  PROVE WriterHeir'
  <2>1. \/ live' = 0 /\ wpc' = "none"
        \/ live' = minted + 1 /\ live' # live /\ wpc' = "writing"
    BY <1>0, <1>1, CreateFacts, GenFacts DEF Create
  <2>2. vol'[minted + 1].place = "clips" /\ "data" \in vol'[minted + 1].names
        /\ (live' # live /\ "power" \in Crashes => dur'[minted + 1].place = "clips")
    BY <1>0, <1>1, CreateFacts
  <2> QED
    BY <2>1, <2>2 DEF WriterHeir
<1>2. ASSUME CloseSync \/ CloseRecord \/ ClosePublish  PROVE WriterHeir'
  <2>1. live \in Gens /\ live' = live /\ live # 0
    BY <1>0, <1>2 DEF CloseSync, CloseRecord, ClosePublish, Step
  <2>2. /\ vol'[live].place = "clips" /\ "data" \in vol'[live].names
        /\ "power" \in Crashes => dur'[live].place = "clips"
    BY <1>0, <1>2, <2>1, CloseFacts DEF WriterHeir, CloseSync, CloseRecord, ClosePublish, Step
  <2>3. CASE wpc' = "renamed"
    <3>1. ClosePublish /\ wpc = "recorded"
      BY <1>2, <2>3 DEF CloseSync, CloseRecord, ClosePublish, Step
    <3>2. Whole(vol', live)
      BY <1>0, <2>1, <2>2, <2>3, <3>1, CloseFacts DEF Whole, Full, WriterFull
    <3> QED
      BY <2>1, <2>2, <2>3, <3>2 DEF WriterHeir, Whole, Full
  <2>4. CASE wpc' # "renamed"
    <3>1. wpc' \notin {"renamed", "flip"}
      BY <1>2, <2>4 DEF CloseSync, CloseRecord, ClosePublish, Step
    <3> QED
      BY <2>1, <2>2, <3>1 DEF WriterHeir
  <2> QED
    BY <2>3, <2>4
<1>3. ASSUME CloseCommit  PROVE WriterHeir'
  <2>1. live \in Gens /\ live' = live /\ live # 0 /\ wpc = "renamed" /\ vol' = vol
        /\ wpc' \in {"flip", "retire"} /\ (wpc' = "flip" => dur' = syncDir(live))
        /\ dur' \in {dur, syncDir(live)}
    BY <1>0, <1>3 DEF CloseCommit, Step, publishFailed
  <2>2. dur'[live].place = dur[live].place
    BY <1>0, <2>1, SyncStep
  <2>3. ASSUME wpc' = "flip"  PROVE Standing(live)'
    <3>1. "power" \in Crashes => dur'[live].names = vol[live].names
      BY <1>0, <2>1, <2>3, SyncStep
    <3>2. dur'[live].data = dur[live].data /\ dur'[live].record = dur[live].record
      BY <1>0, <2>1, SyncStep
    <3>3. Whole(vol, live) /\ ("power" \in Crashes => Full(dur, live) /\ dur[live].place = "clips")
      BY <1>0, <2>1 DEF WriterHeir, WriterFull
    <3> QED
      BY <2>1, <2>2, <3>1, <3>2, <3>3 DEF Standing, Whole, Full
  <2> QED
    BY <2>1, <2>2, <2>3 DEF WriterHeir, Whole, Full
<1>4. ASSUME AbortRename \/ AbortSync \/ Abort  PROVE WriterHeir'
  <2>1. live \in Gens /\ live' = live /\ live # 0 /\ wpc' \in {"retiring", "discard"}
    BY <1>0, <1>4 DEF AbortRename, AbortSync, Abort, Step
  <2>2. /\ vol'[live].place = vol[live].place /\ dur'[live].place = dur[live].place
        /\ "data" \in vol[live].names => "data" \in vol'[live].names
    <3>1. CASE AbortRename
      BY <1>0, <2>1, <3>1, RenameStep DEF AbortRename, Names
    <3>2. CASE AbortSync \/ Abort
      BY <1>0, <2>1, <3>2, SyncStep DEF AbortSync, Abort
    <3> QED
      BY <1>4, <3>1, <3>2
  <2> QED
    BY <2>1, <2>2 DEF WriterHeir
<1>5. ASSUME CloseFlip \/ Discard  PROVE WriterHeir'
  BY <1>5 DEF WriterHeir, CloseFlip, Discard
<1>6. ASSUME ClaimRename \/ DeleteRename \/ ClaimCommit \/ DeleteCommit  PROVE WriterHeir'
  <2>1. current \in Gens /\ live' = live /\ wpc' = wpc
    BY <1>0, <1>6, GenFacts DEF ClaimRename, DeleteRename, ClaimCommit, DeleteCommit, TypeOK
  <2>2. Only(current)
    <3>1. CASE ClaimRename \/ DeleteRename
      BY <1>0, <2>1, <3>1, RenameStep DEF ClaimRename, DeleteRename, Names
    <3>2. CASE ClaimCommit \/ DeleteCommit
      BY <1>0, <2>1, <3>2, SyncStep DEF ClaimCommit, DeleteCommit
    <3> QED
      BY <1>6, <3>1, <3>2
  <2>3. live # 0 => vol'[live] = vol[live] /\ dur'[live] = dur[live]
    BY <1>0, <2>2 DEF Only
  <2> QED
    BY <1>0, <2>1, <2>3 DEF WriterHeir, Standing, Whole, Full
<1>7. ASSUME \/ Evict \/ Contest \/ Restore \/ UNCHANGED vars
             \/ \E g \in Gens : ReaderClose(g) \/ DeleteReturn(g) \/ RemoveFails(g)
      PROVE  WriterHeir'
  <2>1. vol' = vol /\ dur' = dur /\ live' = live /\ wpc' = wpc
    BY <1>7 DEF Evict, Contest, Restore, vars, ReaderClose, DeleteReturn, RemoveFails
  <2> QED
    BY <2>1 DEF WriterHeir, Standing, Whole, Full
<1>8. ASSUME NEW g \in Gens, Classify(g)  PROVE WriterHeir'
  BY <1>0, <1>8 DEF WriterHeir, Classify, CoreInv
<1>9. ASSUME NEW g \in Gens, Unlink(g) \/ Rmdir(g) \/ Writeback(g)  PROVE WriterHeir'
  <2>1. live' = live /\ wpc' = wpc
    BY <1>9 DEF Unlink, Rmdir, Writeback
  <2>2. CASE live = 0
    BY <1>0, <2>1, <2>2 DEF WriterHeir
  <2>3. CASE live # 0
    <3>1. /\ vol'[live] = vol[live]
          /\ dur'[live].place \in {vol[live].place, dur[live].place}
      <4>1. g = live => Writeback(g)
        BY <1>0, <1>9, <2>3 DEF Unlink, Rmdir
      <4> QED
        BY <1>0, <1>9, <2>3, <4>1, KernelFacts DEF Only
    <3>2. Standing(live) => Standing(live)'
      <4>1. PICK h \in Gens : h = live
        BY <1>0, <2>3
      <4>2. Standing(h) => Standing(h)'
        BY <1>0, <1>9, <2>3, <4>1, KernelStanding
      <4> QED
        BY <2>1, <4>1, <4>2 DEF Standing, Whole, Full
    <3> QED
      BY <2>1, <2>3, <3>1, <3>2 DEF WriterHeir, Whole, Full
  <2> QED
    BY <2>2, <2>3
<1>10. ASSUME NEW kind \in Crashes, Crash(kind)  PROVE WriterHeir'
  BY <1>10 DEF WriterHeir, Crash
<1> QED
  BY <1>1, <1>2, <1>3, <1>4, <1>5, <1>6, <1>7, <1>8, <1>9, <1>10 DEF Next, Operation

\* What a boot takes for a candidate stands: its marker was flushed after its
\* bytes, and after a power loss the disk is what is on stable storage.
LEMMA CandidateStands ==
  ASSUME Durable, TypeOK, IntactInv, NEW g \in Gens, vol[g].place = "clips",
         verdict(g) = "candidate", "power" \in Crashes => dur[g] = vol[g]
  PROVE  Standing(g)
<1>1. marked(vol, g) /\ "data" \in vol[g].names
  BY DEF verdict, finalized, marked
<1>2. Full(vol, g)
  BY <1>1 DEF IntactInv, MarkedFull, Durable
<1> QED
  BY <1>1, <1>2 DEF Standing, Whole, Full, marked

\* A boot takes a standing home for a candidate.
LEMMA StandingIsCandidate ==
  ASSUME NEW g \in Gens, Standing(g)
  PROVE  verdict(g) = "candidate" /\ g \in Listed
  BY DEF Standing, Whole, Full, verdict, finalized, mismatch, Listed

\* Every step keeps the boot's candidates standing.
LEMMA BootHeirStep ==
  ASSUME OneKind, Durable, CoreInv, IntactInv, BootHeir, [Next]_vars
  PROVE  BootHeir'
<1> USE DEF diskVars, idVars, slotVars, opVars, bootVars, histVars
<1>0. /\ TypeOK /\ cands \subseteq Gens
      /\ (current # 0 => current \in Gens)
      /\ (live # 0 <=> wpc # "none") /\ (phase # "up" => live = 0 /\ lock = "free")
      /\ (phase = "scan" => /\ cands \subseteq scanned /\ doomed \subseteq scanned
                            /\ cands \cap doomed = {} /\ current = 0)
      /\ (phase = "contest" => current \notin doomed)
      /\ phase \in {"up", "scan", "contest"}
  BY GenFacts DEF CoreInv, TypeOK
<1>1. ASSUME \/ Create \/ CloseSync \/ CloseRecord \/ ClosePublish \/ CloseCommit
             \/ AbortRename \/ AbortSync \/ Abort \/ CloseFlip \/ Discard
      PROVE  BootHeir'
  <2>1. phase' = "up"
    BY <1>1 DEF Create, CloseSync, CloseRecord, ClosePublish, CloseCommit, AbortRename,
                AbortSync, Abort, CloseFlip, Discard, Step, Gate
  <2> QED
    BY <2>1 DEF BootHeir
<1>2. ASSUME ClaimRename \/ DeleteRename \/ ClaimCommit \/ DeleteCommit \/ Evict \/ Restore
      PROVE  BootHeir'
  <2>1. phase' = "up"
    BY <1>0, <1>2 DEF ClaimRename, DeleteRename, ClaimCommit, DeleteCommit, Evict, Restore, Gate
  <2> QED
    BY <2>1 DEF BootHeir
<1>3. ASSUME Contest  PROVE BootHeir'
  <2>1. vol' = vol /\ dur' = dur /\ phase = "scan" /\ phase' = "contest"
        /\ (current' = 0 \/ current' \in cands)
    BY <1>0, <1>3 DEF Contest, winners
  <2>2. current' \in cands => Whole(vol, current') /\ ("power" \in Crashes => Whole(dur, current'))
    BY <2>1 DEF BootHeir, Standing
  <2> QED
    BY <2>1, <2>2, <1>0, GenFacts DEF BootHeir, Standing, Whole, Full
<1>4. ASSUME \/ UNCHANGED vars
             \/ \E g \in Gens : ReaderClose(g) \/ DeleteReturn(g) \/ RemoveFails(g)
      PROVE  BootHeir'
  <2>1. vol' = vol /\ dur' = dur /\ phase' = phase /\ current' = current
        /\ scanned' = scanned /\ cands' = cands
    BY <1>4 DEF vars, ReaderClose, DeleteReturn, RemoveFails
  <2> QED
    BY <2>1 DEF BootHeir, Standing, Whole, Full
<1>5. ASSUME NEW g \in Gens, Classify(g)  PROVE BootHeir'
  <2>1. phase = "scan" /\ phase' = "scan" /\ scanned' = scanned \cup {g} /\ g \notin scanned
        /\ vol[g].place = "clips"
        /\ cands' = IF verdict(g) = "candidate" THEN cands \cup {g} ELSE cands
    BY <1>5 DEF Classify, Listed
  <2>2. Only(g) /\ dur' = dur /\ (verdict(g) # "quarantine" => vol' = vol)
    BY <1>0, <1>5, ClassifyFacts
  <2>3. g \notin cands
    BY <1>0, <2>1
  <2>4. "power" \in Crashes => \A h \in Gens : h \notin scanned' \/ h \in cands' => dur'[h] = vol'[h]
    BY <1>0, <2>1, <2>2, <2>3 DEF BootHeir, Only
  <2>5. ASSUME NEW h \in cands'  PROVE Standing(h)'
    <3>1. CASE h = g
      <4>1. verdict(g) = "candidate"
        BY <2>1, <2>3, <3>1, <2>5
      <4>2. "power" \in Crashes => dur[g] = vol[g]
        BY <2>1 DEF BootHeir
      <4>3. Standing(g)
        BY <1>0, <2>1, <4>1, <4>2, CandidateStands
      <4> QED
        BY <2>2, <3>1, <4>1, <4>3 DEF Standing, Whole, Full
    <3>2. CASE h # g
      <4>1. h \in cands /\ h \in Gens
        BY <1>0, <2>1, <2>5, <3>2
      <4>2. Standing(h)
        BY <2>1, <4>1 DEF BootHeir
      <4> QED
        BY <2>2, <3>2, <4>1, <4>2, OtherStanding
    <3> QED
      BY <3>1, <3>2
  <2> QED
    BY <2>1, <2>4, <2>5 DEF BootHeir
<1>6. ASSUME NEW g \in Gens, Unlink(g) \/ Rmdir(g) \/ Writeback(g)  PROVE BootHeir'
  <2>1. phase' = phase /\ current' = current /\ scanned' = scanned /\ cands' = cands
    BY <1>6 DEF Unlink, Rmdir, Writeback
  <2>2. ASSUME phase = "scan", "power" \in Crashes, NEW h \in Gens, h \notin scanned \/ h \in cands
        PROVE  dur'[h] = vol'[h]
    <3>1. dur[h] = vol[h] /\ h \notin doomed
      BY <1>0, <2>2 DEF BootHeir
    <3>2. CASE h # g
      BY <1>0, <1>6, <3>1, <3>2, KernelFacts DEF Only
    <3>3. CASE h = g
      <4>1. Writeback(g)
        BY <1>6, <3>1, <3>3 DEF Unlink, Rmdir
      <4>2. dur \in [Gens -> Home] /\ dur[g] \in Home
        BY <1>0 DEF TypeOK
      <4>3. /\ [dur EXCEPT ![g].place = dur[g].place] = dur
            /\ [dur EXCEPT ![g].names = dur[g].names] = dur
            /\ [dur EXCEPT ![g].record = dur[g].record] = dur
            /\ [dur EXCEPT ![g].data = dur[g].data] = dur
        BY <4>2 DEF Home
      <4> QED
        BY <3>1, <3>3, <4>1, <4>3 DEF Writeback
    <3> QED
      BY <3>2, <3>3
  <2>3. ASSUME phase = "scan", NEW h \in cands  PROVE Standing(h)'
    BY <1>0, <1>6, <2>3, KernelStanding DEF BootHeir
  <2>4. ASSUME phase = "contest", current # 0  PROVE Standing(current)'
    <3>1. PICK h \in Gens : h = current
      BY <1>0, <2>4
    <3>2. Standing(h)'
      BY <1>0, <1>6, <2>4, <3>1, KernelStanding DEF BootHeir
    <3> QED
      BY <2>1, <3>1, <3>2
  <2> QED
    BY <2>1, <2>2, <2>3, <2>4 DEF BootHeir
<1>7. ASSUME NEW kind \in Crashes, Crash(kind)  PROVE BootHeir'
  <2>1. phase' = "scan" /\ cands' = {} /\ dur' = dur /\ (kind = "power" => vol' = dur)
    BY <1>7 DEF Crash
  <2>2. "power" \in Crashes => kind = "power"
    BY <1>7 DEF OneKind
  <2> QED
    BY <2>1, <2>2 DEF BootHeir
<1> QED
  BY <1>1, <1>2, <1>3, <1>4, <1>5, <1>6, <1>7 DEF Next, Operation

\* The contest goes to the youngest candidate.
LEMMA WinnerIsYoungest ==
  ASSUME CoreInv, OrderInv, BootHeir, phase = "scan", NEW w \in cands, NEW k \in cands,
         prefix[w] >= prefix[k]
  PROVE  w >= k
<1>1. w \in Gens /\ k \in Gens /\ w \in Nat /\ k \in Nat /\ minted \in Nat
      /\ prefix[w] \in Nat /\ prefix[k] \in Nat
  BY GenFacts DEF CoreInv, TypeOK
<1>2. CASE ~Backward
  <2>1. w <= minted /\ k <= minted
    BY <1>1 DEF CoreInv
  <2> QED
    BY <1>1, <1>2, <2>1 DEF OrderInv
<1>3. CASE Backward
  <2>1. Bears(w) /\ Bears(k)
    BY <1>1 DEF BootHeir, Standing, Whole, Bears, Listed, finalized
  <2> QED
    BY <1>1, <1>3, <2>1 DEF OrderInv
<1> QED
  BY <1>2, <1>3

\* Every step keeps an heir of the last published value.
LEMMA LatestHeirStep ==
  ASSUME OneKind, Durable, CoreInv, OrderInv, WriterHeir, BootHeir, LatestHeir, [Next]_vars
  PROVE  LatestHeir'
<1> USE DEF diskVars, idVars, slotVars, opVars, bootVars, histVars
<1>0. /\ TypeOK /\ cands \subseteq Gens /\ latest \in Nat /\ current \in Nat
      /\ (latest # 0 => latest \in Gens)
      /\ (current # 0 => current \in Gens)
      /\ (live # 0 => live \in Gens /\ live # current)
      /\ (live # 0 <=> wpc # "none") /\ (phase # "up" => live = 0 /\ lock = "free")
      /\ (current # 0 /\ phase = "up" => current \notin doomed)
      /\ (phase = "contest" => current \notin doomed)
      /\ (lock # "free" => current # 0 /\ current \in touched)
      /\ phase \in {"up", "scan", "contest"}
      /\ Gens \subseteq Nat /\ 0 \notin Gens
  BY GenFacts DEF CoreInv, TypeOK
\* A running server's steps on other homes than the current one's.
<1>1. ASSUME phase = "up", phase' = "up", current' = current, latest' = latest,
             touched' = touched, NEW x \in Gens, x # current, Only(x)
      PROVE  LatestHeir'
  <2>1. SUFFICES ASSUME latest # 0, latest \notin touched
                 PROVE  current' = latest' /\ Standing(latest)'
    BY <1>1 DEF LatestHeir
  <2>2. current = latest /\ Standing(latest)
    BY <1>1, <2>1 DEF LatestHeir
  <2>3. PICK h \in Gens : h = latest
    BY <1>0, <2>1
  <2>4. Standing(h)'
    BY <1>1, <2>2, <2>3, OtherStanding
  <2> QED
    BY <1>1, <2>2, <2>3, <2>4
\* Steps that touch no home.
<1>2. ASSUME vol' = vol, dur' = dur, phase' = phase, current' = current, latest' = latest,
             touched' = touched, scanned' = scanned, cands' = cands,
             phase = "scan" => doomed' \subseteq doomed
      PROVE  LatestHeir'
  BY <1>2 DEF LatestHeir, Standing, Whole, Full
<1>3. ASSUME Create  PROVE LatestHeir'
  <2>1. minted \in Nat /\ minted + 1 \in Gens /\ Only(minted + 1)
    BY <1>0, <1>3, CreateFacts DEF TypeOK
  <2>2. current # minted + 1
    BY <1>0, <2>1 DEF CoreInv
  <2> QED
    BY <1>1, <1>3, <2>1, <2>2 DEF Create, Gate
<1>4. ASSUME CloseSync \/ CloseRecord \/ ClosePublish  PROVE LatestHeir'
  <2>1. live \in Gens /\ live # current /\ phase = "up" /\ phase' = "up" /\ current' = current
        /\ latest' = latest /\ touched' = touched
    BY <1>0, <1>4 DEF CloseSync, CloseRecord, ClosePublish, Step
  <2>2. Only(live)
    BY <1>0, <1>4, <2>1, CloseFacts
  <2> QED
    BY <1>1, <2>1, <2>2
<1>5. ASSUME CloseCommit \/ AbortRename \/ AbortSync \/ Abort  PROVE LatestHeir'
  <2>1. live \in Gens /\ live # current /\ phase = "up" /\ phase' = "up" /\ current' = current
        /\ latest' = latest /\ touched' = touched
    BY <1>0, <1>5 DEF CloseCommit, AbortRename, AbortSync, Abort, Step
  <2>2. Only(live)
    BY <1>0, <1>5, <2>1, RenameStep, SyncStep
       DEF CloseCommit, AbortRename, AbortSync, Abort, Names
  <2> QED
    BY <1>1, <2>1, <2>2
<1>6. ASSUME CloseFlip  PROVE LatestHeir'
  <2>1. vol' = vol /\ dur' = dur /\ current' = live /\ latest' = live /\ phase' = "up"
        /\ Standing(live)
    BY <1>6 DEF CloseFlip, Gate, WriterHeir
  <2> QED
    BY <2>1 DEF LatestHeir, Standing, Whole, Full
<1>7. ASSUME Discard \/ Evict  PROVE LatestHeir'
  BY <1>2, <1>7 DEF Discard, Evict, Gate
<1>8. ASSUME ClaimRename \/ DeleteRename  PROVE LatestHeir'
  <2>1. phase' = "up" /\ phase = "up" /\ latest' = latest /\ touched' = touched \cup {current}
    BY <1>8 DEF ClaimRename, DeleteRename, Gate
  <2> QED
    BY <2>1 DEF LatestHeir
<1>9. ASSUME ClaimCommit \/ DeleteCommit  PROVE LatestHeir'
  <2>1. phase' = "up" /\ phase = "up" /\ latest' = latest /\ touched' = touched
        /\ current \in touched
    BY <1>0, <1>9 DEF ClaimCommit, DeleteCommit
  <2> QED
    BY <2>1 DEF LatestHeir
<1>10. ASSUME Contest  PROVE LatestHeir'
  <2>1. phase = "scan" /\ phase' = "contest" /\ latest' = latest /\ touched' = touched
        /\ Listed \subseteq scanned
    BY <1>10 DEF Contest
  <2>2. SUFFICES ASSUME latest # 0, latest \notin touched  PROVE current' >= latest
    BY <2>1 DEF LatestHeir
  <2>3. PICK k \in Gens : k >= latest /\ Standing(k) /\ (k \in scanned => k \in cands)
    BY <2>1, <2>2 DEF LatestHeir
  <2>4. k \in cands
    BY <2>1, <2>3, StandingIsCandidate
  <2>5. current' \in cands /\ prefix[current'] >= prefix[k]
    BY <1>10, <2>4 DEF Contest, winners
  <2>6. current' >= k
    BY <2>1, <2>4, <2>5, WinnerIsYoungest
  <2>7. current' \in Nat /\ k \in Nat
    BY <1>0, <2>5
  <2> QED
    BY <1>0, <2>3, <2>6, <2>7
<1>11. ASSUME Restore  PROVE LatestHeir'
  <2>1. phase = "contest" /\ phase' = "up" /\ vol' = vol /\ dur' = dur /\ current' = current
        /\ touched' = touched /\ latest' = IF current > latest THEN current ELSE latest
    BY <1>11 DEF Restore
  <2>2. SUFFICES ASSUME latest' # 0, latest' \notin touched
                 PROVE  current = latest' /\ Standing(latest)'
    BY <2>1 DEF LatestHeir
  <2>3. current = latest'
    BY <1>0, <2>1, <2>2 DEF LatestHeir
  <2>4. Standing(current)
    BY <2>1, <2>2, <2>3 DEF BootHeir
  <2> QED
    BY <2>1, <2>3, <2>4 DEF Standing, Whole, Full
<1>12. ASSUME NEW g \in Gens, ReaderClose(g) \/ DeleteReturn(g) \/ RemoveFails(g)
       PROVE  LatestHeir'
  BY <1>2, <1>12 DEF ReaderClose, DeleteReturn, RemoveFails, CoreInv
<1>13. ASSUME NEW g \in Gens, Classify(g)  PROVE LatestHeir'
  <2>1. phase = "scan" /\ phase' = "scan" /\ latest' = latest /\ touched' = touched
        /\ scanned' = scanned \cup {g} /\ g \notin scanned
        /\ cands' = (IF verdict(g) = "candidate" THEN cands \cup {g} ELSE cands)
        /\ doomed' = (IF verdict(g) = "garbage" THEN {g} ELSE {})
    BY <1>13 DEF Classify
  <2>2. SUFFICES ASSUME latest # 0, latest \notin touched
                 PROVE  \E k \in Gens : /\ k >= latest /\ k \notin doomed' /\ Standing(k)'
                                        /\ k \in scanned' => k \in cands'
    BY <2>1 DEF LatestHeir
  <2>3. PICK k \in Gens : k >= latest /\ Standing(k) /\ (k \in scanned => k \in cands)
    BY <2>1, <2>2 DEF LatestHeir
  <2>4. Only(g) /\ dur' = dur /\ (verdict(g) # "quarantine" => vol' = vol)
    BY <1>0, <1>13, ClassifyFacts
  <2>5. CASE k = g
    <3>1. verdict(g) = "candidate"
      BY <2>3, <2>5, StandingIsCandidate
    <3>2. Standing(k)'
      BY <2>3, <2>4, <3>1 DEF Standing, Whole, Full
    <3> QED
      BY <2>1, <2>3, <2>5, <3>1, <3>2
  <2>6. CASE k # g
    <3>1. Standing(k)'
      BY <2>3, <2>4, <2>6, OtherStanding
    <3> QED
      BY <2>1, <2>3, <2>6, <3>1
  <2> QED
    BY <2>5, <2>6
<1>14. ASSUME NEW g \in Gens, Unlink(g) \/ Rmdir(g) \/ Writeback(g)  PROVE LatestHeir'
  <2>1. phase' = phase /\ latest' = latest /\ touched' = touched /\ scanned' = scanned
        /\ cands' = cands /\ current' = current /\ doomed' \subseteq doomed
    BY <1>14 DEF Unlink, Rmdir, Writeback
  <2>2. SUFFICES ASSUME latest # 0, latest \notin touched
        PROVE  /\ phase = "up" => current = latest /\ Standing(latest)'
               /\ phase = "contest" => current >= latest
               /\ phase = "scan" =>
                    \E k \in Gens : /\ k >= latest /\ k \notin doomed' /\ Standing(k)'
                                    /\ k \in scanned => k \in cands
    BY <2>1 DEF LatestHeir
  <2>3. CASE phase = "up"
    <3>1. current = latest /\ Standing(latest)
      BY <2>2, <2>3 DEF LatestHeir
    <3>2. PICK h \in Gens : h = latest
      BY <1>0, <2>2
    <3>3. Standing(h)'
      BY <1>0, <1>14, <2>3, <3>1, <3>2, KernelStanding
    <3> QED
      BY <2>1, <2>3, <3>1, <3>2, <3>3
  <2>4. CASE phase = "contest"
    BY <2>2, <2>4 DEF LatestHeir
  <2>5. CASE phase = "scan"
    <3>1. PICK k \in Gens : /\ k >= latest /\ k \notin doomed /\ Standing(k)
                            /\ k \in scanned => k \in cands
      BY <2>2, <2>5 DEF LatestHeir
    <3>2. Standing(k)'
      BY <1>0, <1>14, <3>1, KernelStanding
    <3> QED
      BY <2>1, <2>5, <3>1, <3>2
  <2> QED
    BY <1>0, <2>3, <2>4, <2>5
<1>15. ASSUME NEW kind \in Crashes, Crash(kind)  PROVE LatestHeir'
  <2>1. phase' = "scan" /\ latest' = latest /\ touched' = touched /\ scanned' = {} /\ doomed' = {}
        /\ dur' = dur /\ vol' = IF kind = "power" THEN dur ELSE vol
    BY <1>15 DEF Crash
  <2>2. SUFFICES ASSUME latest # 0, latest \notin touched
                 PROVE  \E k \in Gens : k >= latest /\ Standing(k)'
    BY <2>1 DEF LatestHeir
  <2>3. PICK k \in Gens : k >= latest /\ Standing(k)
    <3>1. CASE phase = "up"
      BY <1>0, <2>2, <3>1 DEF LatestHeir
    <3>2. CASE phase = "contest"
      <4>1. current >= latest
        BY <2>2, <3>2 DEF LatestHeir
      <4>2. current # 0 /\ current \in Gens
        BY <1>0, <2>2, <4>1
      <4> QED
        BY <3>2, <4>1, <4>2 DEF BootHeir
    <3>3. CASE phase = "scan"
      BY <2>2, <3>3 DEF LatestHeir
    <3> QED
      BY <1>0, <3>1, <3>2, <3>3
  <2>4. kind = "power" => "power" \in Crashes
    BY <1>15
  <2>5. Standing(k)'
    BY <2>1, <2>3, <2>4 DEF Standing, Whole, Full
  <2> QED
    BY <2>3, <2>5
<1>16. ASSUME UNCHANGED vars  PROVE LatestHeir'
  BY <1>2, <1>16 DEF vars
<1> QED
  BY <1>3, <1>4, <1>5, <1>6, <1>7, <1>8, <1>9, <1>10, <1>11, <1>12, <1>13, <1>14, <1>15, <1>16
     DEF Next, Operation

\* Where one kind of crash occurs, ids that matter follow the mint order.
THEOREM OrderInvariant == OneKind => (Spec => []OrderInv)
<1> SUFFICES ASSUME OneKind  PROVE Spec => []OrderInv
  OBVIOUS
<1>1. Init => OrderInv
  BY GenFacts DEF Init, OrderInv, Bears, Listed, NoHome
<1>2. CASE Backward
  <2>1. Removable /\ Crashes = {"process"}
    BY <1>2 DEF OneKind
  <2>2. Spec => []MarkerInv
    BY <2>1, MarkerInvariant
  <2>3. BaseInv /\ MarkerInv /\ OrderInv /\ [Next]_vars => OrderInv'
    BY <1>2, <2>1, BackwardStep DEF BaseInv
  <2> QED
    BY <1>1, <2>2, <2>3, BaseInvariant, PTL DEF Spec
<1>3. CASE ~Backward
  <2>1. BaseInv /\ OrderInv /\ [Next]_vars => OrderInv'
    BY <1>3, StraightStep DEF BaseInv
  <2> QED
    BY <1>1, <2>1, BaseInvariant, PTL DEF Spec
<1> QED
  BY <1>2, <1>3

\* PublishedSurvives, for any number of crashes of one kind: a flushed write is
\* readable after every one of them, unless a claim or a removal got hold of it
\* or a younger one took its place.
THEOREM PublishedIsKept == OneKind => (Spec => []PublishedSurvives)
<1> SUFFICES ASSUME OneKind  PROVE Spec => []PublishedSurvives
  OBVIOUS
<1>1. Init => HeirInv
  BY DEF Init, HeirInv, WriterHeir, BootHeir, LatestHeir
<1>2. BaseInv /\ IntactInv /\ OrderInv /\ HeirInv /\ [Next]_vars => HeirInv'
  <2> SUFFICES ASSUME BaseInv, IntactInv, OrderInv, HeirInv, [Next]_vars  PROVE HeirInv'
    OBVIOUS
  <2>1. Durable' => Durable
    BY DEF Durable, Fsync, Next, vars
  <2> QED
    BY <2>1, WriterHeirStep, BootHeirStep, LatestHeirStep DEF HeirInv, BaseInv
<1>3. BaseInv /\ HeirInv => PublishedSurvives
  BY GenFacts DEF BaseInv, CoreInv, TypeOK, HeirInv, LatestHeir, PublishedSurvives
<1>4. Spec => []OrderInv
  BY OrderInvariant
<1> QED
  BY <1>1, <1>2, <1>3, <1>4, BaseInvariant, IntactInvariant, PTL DEF Spec
=============================================================================
