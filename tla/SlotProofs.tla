----------------------------- MODULE SlotProofs -----------------------------
(***************************************************************************)
(* The inductive invariant IInv of module SlotInv is one of module Slot,   *)
(* for any number of writers, readers, deleters, sweeps and handles, any   *)
(* options, faults, clock and bounds; what follows from it about leases,   *)
(* quota, deliveries, homes and logs.  On top of it OrderInv is one too:   *)
(* wakeups, follow-next, conditional writes, the medium at rest.  And the  *)
(* slot implements the register of module ClipRegister.                    *)
(*                                                                         *)
(* One lemma per conjunct shows that every step keeps it, with one step    *)
(* per action; each uses only the conjuncts named in its ASSUME.           *)
(***************************************************************************)
EXTENDS SlotInv, FiniteSetTheorems, TLAPS

-----------------------------------------------------------------------------
(* The shape of the state *)

\* What a resolve returns: nothing, the finalized current, or the live
\* generation of a plain write.
LEMMA ResolveFacts ==
  ASSUME Shape, NEW h \in Handles, NEW t
  PROVE  /\ presentCurrent(h, t) \in Gens \cup {0}
         /\ presentCurrent(h, t) # 0 =>
              presentCurrent(h, t) = current[h] /\ state[current[h]] = "finalized"
         /\ expiredCurrent(h, t) \in Gens \cup {0}
         /\ expiredCurrent(h, t) # 0 =>
              expiredCurrent(h, t) = current[h] /\ state[current[h]] = "finalized"
         /\ followable(h) \in Gens \cup {0}
         /\ followable(h) # 0 => followable(h) = live[h] /\ ~consume[live[h]]
  BY DEF Shape, presentCurrent, expiredCurrent, followable

\* What a reader's target is: nothing, the finalized current, or the live
\* generation of a plain write.
LEMMA TargetFacts ==
  ASSUME Shape, NEW r \in Readers, hnd[r] \in Handles, NEW m
  PROVE  /\ baseOf(r, m) \in Gens \cup {0}
         /\ target(r, m) \in Gens \cup {0}
         /\ target(r, m) # 0 =>
              \/ target(r, m) = current[hnd[r]] /\ state[target(r, m)] = "finalized"
              \/ target(r, m) = live[hnd[r]] /\ ~consume[target(r, m)]
<1>1. baseOf(r, m) \in Gens \cup {0}
  BY DEF Shape, baseOf
<1>2. target(r, m) \in {presentCurrent(hnd[r], now), followable(hnd[r])}
  BY DEF target, followResolve, resolveRead
<1> QED
  BY <1>1, <1>2, ResolveFacts

\* Where a lease is held there is a handle.
LEMMA LeasedHandle ==
  ASSUME Shape, Leased, NEW p \in Procs, pc[p] \notin Unleased
  PROVE  hnd[p] \in Handles
  BY DEF Shape, Leased

\* Every step keeps the shape of the state.
LEMMA ShapeStep ==
  ASSUME Shape, Leased, [Next]_vars
  PROVE  Shape'
<1> USE DEF regVars, slotVars, bornVars, genVars, quotaVars, sweepVars,
            readVars, procVars
<1>1. ASSUME NEW w \in Procs, w \in Writers, CreateAcquire(w)  PROVE Shape'
  BY <1>1
     DEF CreateAcquire, Acquire, Shape, PCs, WriterPC, SweepPC, ReaderPC,
         TailPC
<1>2. ASSUME NEW w \in Procs, w \in Writers,
             PressureGivesUp(w) \/ CloseFinalize(w)
      PROVE  Shape'
  BY <1>2
     DEF PressureGivesUp, CloseFinalize, Shape, PCs, WriterPC, SweepPC,
         ReaderPC, TailPC
<1>3. ASSUME NEW w \in Procs, w \in Writers, CloseFinish(w)  PROVE Shape'
  BY <1>3 DEF CloseFinish, Shape, PCs, WriterPC, SweepPC, ReaderPC, TailPC
<1>4. ASSUME NEW w \in Procs, w \in Writers, Abort(w)  PROVE Shape'
  BY <1>4 DEF Abort, Shape, PCs, WriterPC, SweepPC, ReaderPC, TailPC
<1>5. ASSUME NEW w \in Procs, w \in Writers, Discard(w)  PROVE Shape'
  BY <1>5 DEF Discard, wake, Shape, PCs, WriterPC, SweepPC, ReaderPC, TailPC
<1>6. ASSUME NEW w \in Procs, w \in Writers, DiscardFail(w)  PROVE Shape'
  BY <1>6 DEF DiscardFail, Shape, PCs, WriterPC, SweepPC, ReaderPC, TailPC
<1>7. ASSUME NEW w \in Procs, w \in Writers,
             CreateReject(w) \/ CreateNoSpace(w)
      PROVE  Shape'
  <2>1. seed' \in [Handles -> Nat]
    BY <1>7, ConstantsAssumption DEF CreateReject, CreateNoSpace, allocate, Shape
  <2>2. put' \in [Writers -> PutOpts \cup {None}]
    BY <1>7 DEF CreateReject, CreateNoSpace, optionsOf, Shape
  <2>3. pc' \in [Procs -> PCs] /\ ret' \in [Procs -> {"idle", "pressure", "again"}]
    BY <1>7
       DEF CreateReject, CreateNoSpace, Shape, PCs, WriterPC, SweepPC, ReaderPC, TailPC
  <2> QED
    BY <1>7, <2>1, <2>2, <2>3 DEF CreateReject, CreateNoSpace, Shape
<1>8. ASSUME NEW r \in Procs, r \in Readers, OpenAcquire(r)  PROVE Shape'
  BY <1>8
     DEF OpenAcquire, Acquire, Shape, PCs, WriterPC, SweepPC, ReaderPC,
         TailPC
<1>9. ASSUME NEW r \in Procs, r \in Readers,
             OpenPark(r) \/ OpenWake(r)
      PROVE  Shape'
  <2>1. CASE OpenPark(r)
    <3>1. hnd[r] \in Handles
      BY <2>1, LeasedHandle DEF OpenPark, Unleased
    <3>2. PICK m \in modesOf(r) : /\ mode' = [mode EXCEPT ![r] = m]
                                  /\ base' = [base EXCEPT ![r] = baseOf(r, m)]
      BY <2>1 DEF OpenPark
    <3>3. mode' \in [Readers -> Modes \cup {None}]
      BY <3>2 DEF modesOf, Shape
    <3>4. base' \in [Readers -> Gens \cup {0}]
      <4>1. baseOf(r, m) \in Gens \cup {0}
        BY <1>9, <3>1, TargetFacts
      <4> QED
        BY <3>2, <4>1 DEF Shape
    <3>5. pc' \in [Procs -> PCs] /\ armed' \subseteq Readers
      BY <2>1, <1>9 DEF OpenPark, Shape, PCs, ReaderPC
    <3> QED
      BY <2>1, <3>3, <3>4, <3>5 DEF OpenPark, Shape
  <2>2. CASE OpenWake(r)
    BY <2>2 DEF OpenWake, Shape, PCs, ReaderPC, TailPC
  <2> QED
    BY <1>9, <2>1, <2>2
<1>10. ASSUME NEW r \in Procs, r \in Readers, OpenError(r)  PROVE Shape'
  BY <1>10 DEF OpenError, Shape, PCs, WriterPC, SweepPC, ReaderPC, TailPC
<1>11. ASSUME NEW r \in Procs, r \in Readers,
              CloseReader(r) \/ CleanupClear(r)
       PROVE  Shape'
  <2>1. CASE CloseReader(r)
    BY <1>11, <2>1 DEF CloseReader, Shape, PCs, WriterPC, SweepPC, ReaderPC, TailPC
  <2>2. CASE CleanupClear(r)
    BY <1>11, <2>2
       DEF CleanupClear, cleared, wake, Leased, Unleased, Shape, PCs, WriterPC, SweepPC, ReaderPC, TailPC
  <2> QED
    BY <1>11, <2>1, <2>2
<1>12. ASSUME NEW r \in Procs, r \in Readers,
              StatAcquire(r) \/ Cancel(r) \/ Elapse(r)
       PROVE  Shape'
  <2>1. CASE StatAcquire(r)
    BY <1>12, <2>1 DEF StatAcquire, Acquire, Shape, PCs, WriterPC, SweepPC, ReaderPC, TailPC
  <2>2. CASE Cancel(r) \/ Elapse(r)
    BY <1>12, <2>2 DEF Cancel, Elapse, Shape
  <2> QED
    BY <1>12, <2>1, <2>2
<1>13. ASSUME NEW d \in Procs, d \in Deleters, DeleteAcquire(d)  PROVE Shape'
  BY <1>13
     DEF DeleteAcquire, Acquire, Shape, PCs, WriterPC, SweepPC, ReaderPC,
         TailPC
<1>14. ASSUME NEW p \in Procs, p \in Sweepers, SweepSnapshot(p)  PROVE Shape'
  BY <1>14 DEF SweepSnapshot, Shape, PCs, WriterPC, SweepPC, ReaderPC, TailPC
<1>15. ASSUME NEW p \in Procs, p \in Sweepers, ReapAcquire(p)  PROVE Shape'
  BY <1>15
     DEF ReapAcquire, Acquire, Shape, PCs, WriterPC, SweepPC, ReaderPC,
         TailPC
<1>16. ASSUME NEW p \in Procs, Remove(p) \/ ReleaseGen(p)  PROVE Shape'
  <2>1. CASE Remove(p)
    <3>1. home' \in [Gens -> {"none", "present", "left", "gone"}]
      BY <2>1 DEF Remove, Shape
    <3>2. pc' \in [Procs -> PCs]
      BY <2>1 DEF Remove, Shape, PCs, TailPC
    <3> QED
      BY <2>1, <3>1, <3>2 DEF Remove, Shape
  <2>2. CASE ReleaseGen(p)
    <3>1. pc' \in [Procs -> PCs]
      BY <2>2 DEF ReleaseGen, Shape, PCs, ReaderPC, TailPC
    <3> QED
      BY <2>2, <3>1 DEF ReleaseGen, Shape
  <2> QED
    BY <1>16, <2>1, <2>2
<1>17. ASSUME NEW w \in Procs, w \in Writers, CreateInstall(w)  PROVE Shape'
  <2>1. hnd[w] \in Handles
    BY <1>17, LeasedHandle DEF CreateInstall, Unleased
  <2>2. PICK o \in optionsOf(w), t \in Wall :
          /\ consume' = [consume EXCEPT ![minted + 1] = o.consume]
          /\ ttl' = [ttl EXCEPT ![minted + 1] = o.ttl]
          /\ match' = [match EXCEPT ![minted + 1] =
                         IF o.ifMatch = 0 THEN 0 ELSE presentCurrent(hnd[w], now)]
          /\ seed' = [seed EXCEPT ![hnd[w]] = allocate(hnd[w], t)]
          /\ prefix' = [prefix EXCEPT ![minted + 1] = allocate(hnd[w], t)]
    BY <1>17 DEF CreateInstall
  <2>3. o \in PutOpts
    BY <1>17 DEF optionsOf, Shape
  <2>4. minted + 1 \in Gens /\ allocate(hnd[w], t) \in Nat
    <3>1. minted \in Gens \cup {0} /\ minted < MaxGen /\ seed[hnd[w]] \in Nat
      BY <1>17, <2>1 DEF CreateInstall, Shape
    <3>2. t \in Nat /\ MaxGen \in Nat
      BY ConstantsAssumption
    <3> QED
      BY <3>1, <3>2 DEF Gens, allocate
  <2>5. presentCurrent(hnd[w], now) \in Gens \cup {0}
    BY <2>1, ResolveFacts
  <2>6. /\ consume' \in [Gens -> BOOLEAN] /\ ttl' \in [Gens -> Nat]
        /\ match' \in [Gens -> Gens \cup {0}]
    <3>1. o.consume \in BOOLEAN /\ o.ttl \in Nat
      BY <2>3, ConstantsAssumption
    <3>2. consume' \in [Gens -> BOOLEAN]
      BY <2>2, <3>1 DEF Shape
    <3>3. ttl' \in [Gens -> Nat]
      BY <2>2, <3>1 DEF Shape
    <3> QED
      BY <2>2, <2>5, <3>2, <3>3 DEF Shape
  <2>7. seed' \in [Handles -> Nat] /\ prefix' \in [Gens -> Nat]
    BY <2>2, <2>4 DEF Shape
  <2>8. /\ state' \in [Gens -> States] /\ minted' \in Gens \cup {0}
        /\ live' \in [Handles -> Gens \cup {0}] /\ mine' \in [Procs -> Gens \cup {0}]
    BY <1>17, <2>4 DEF CreateInstall, Shape, States
  <2> QED
    BY <1>17, <2>6, <2>7, <2>8
       DEF CreateInstall, wake, Shape, PCs, WriterPC, SweepPC, ReaderPC,
           TailPC
<1>18. ASSUME NEW w \in Procs, w \in Writers, CloseStamp(w)  PROVE Shape'
  <2>1. now \in Nat /\ ttl \in [Gens -> Nat] /\ expires \in [Gens -> Nat]
    BY ConstantsAssumption DEF Shape
  <2>2. expires' \in [Gens -> Nat]
    <3>1. CASE mine[w] \in Gens
      <4>1. (IF ttl[mine[w]] > 0 THEN now + ttl[mine[w]] ELSE expires[mine[w]]) \in Nat
        BY <2>1, <3>1
      <4> QED
        BY <1>18, <2>1, <4>1 DEF CloseStamp
    <3>2. CASE mine[w] \notin Gens
      BY <1>18, <2>1, <3>2 DEF CloseStamp
    <3> QED
      BY <3>1, <3>2
  <2> QED
    BY <1>18, <2>2
       DEF CloseStamp, Shape, PCs, WriterPC, SweepPC, ReaderPC, TailPC
<1>19. ASSUME NEW w \in Procs, w \in Writers, CloseFlip(w)  PROVE Shape'
  <2>1. hnd[w] \in Handles
    BY <1>19, LeasedHandle DEF CloseFlip, Unleased
  <2>2. /\ owed' \in [Procs -> Gens \cup {0}] /\ state' \in [Gens -> States]
        /\ current' \in [Handles -> Gens \cup {0}]
    BY <1>19, <2>1 DEF CloseFlip, superseded, Shape, States
  <2> QED
    BY <1>19, <2>2
       DEF CloseFlip, wake, Shape, PCs, WriterPC, SweepPC, ReaderPC,
           TailPC
<1>20. ASSUME NEW r \in Procs, r \in Readers, OpenPlain(r)  PROVE Shape'
  <2>1. hnd[r] \in Handles
    BY <1>20, LeasedHandle DEF OpenPlain, Unleased
  <2>2. PICK m \in modesOf(r) :
          /\ target(r, m) # 0
          /\ mine' = [mine EXCEPT ![r] = target(r, m)]
          /\ delivered' = [delivered EXCEPT ![target(r, m)] = counted(target(r, m))]
          /\ base' = [base EXCEPT ![r] = baseOf(r, m)]
    BY <1>20 DEF OpenPlain
  <2>3. target(r, m) \in Gens /\ baseOf(r, m) \in Gens \cup {0}
    BY <1>20, <2>1, <2>2, TargetFacts
  <2>4. delivered' \in [Gens -> Nat]
    BY <2>2, <2>3 DEF Shape, counted
  <2>5. mine' \in [Procs -> Gens \cup {0}] /\ base' \in [Readers -> Gens \cup {0}]
    BY <2>2, <2>3 DEF Shape
  <2> QED
    BY <1>20, <2>4, <2>5
       DEF OpenPlain, Shape, PCs, WriterPC, SweepPC, ReaderPC, TailPC
<1>21. ASSUME NEW r \in Procs, r \in Readers, OpenClaim(r)  PROVE Shape'
  <2>1. hnd[r] \in Handles
    BY <1>21, LeasedHandle DEF OpenClaim, Unleased
  <2>2. PICK m \in modesOf(r) :
          /\ target(r, m) # 0
          /\ state' = [state EXCEPT ![target(r, m)] = claimedState(target(r, m))]
          /\ owed' = [owed EXCEPT ![r] = target(r, m)]
          /\ mine' = [mine EXCEPT ![r] = target(r, m)]
          /\ base' = [base EXCEPT ![r] = baseOf(r, m)]
          /\ \/ delivered' = [delivered EXCEPT ![target(r, m)] = counted(target(r, m))]
             \/ delivered' = delivered
          /\ armed' \in {armed, wake(hnd[r])}
          /\ pc' \in {[pc EXCEPT ![r] = "streaming"], [pc EXCEPT ![r] = "remove"]}
    BY <1>21 DEF OpenClaim
  <2>3. target(r, m) \in Gens /\ baseOf(r, m) \in Gens \cup {0}
    BY <1>21, <2>1, <2>2, TargetFacts
  <2>4. delivered' \in [Gens -> Nat]
    BY <2>2, <2>3 DEF Shape, counted
  <2>5. /\ mine' \in [Procs -> Gens \cup {0}] /\ owed' \in [Procs -> Gens \cup {0}]
        /\ base' \in [Readers -> Gens \cup {0}]
    BY <2>2, <2>3 DEF Shape
  <2>6. state' \in [Gens -> States] /\ armed' \subseteq Readers
    BY <2>2 DEF Shape, States, claimedState, wake
  <2>7. pc' \in [Procs -> PCs]
    BY <2>2 DEF Shape, PCs, WriterPC, SweepPC, ReaderPC, TailPC
  <2> QED
    BY <1>21, <2>4, <2>5, <2>6, <2>7 DEF OpenClaim, Shape
<1>22. ASSUME NEW r \in Procs, r \in Readers, StatPeek(r)  PROVE Shape'
  <2>1. at' \in [Procs -> 0..(MaxNow + 1)]
    BY <1>22, ConstantsAssumption DEF StatPeek, Shape
  <2> QED
    BY <1>22, <2>1 DEF StatPeek, Shape, PCs, WriterPC, SweepPC, ReaderPC, TailPC
<1>23. ASSUME NEW d \in Procs, d \in Deleters, DeleteCommit(d)  PROVE Shape'
  <2>1. hnd[d] \in Handles
    BY <1>23, LeasedHandle DEF DeleteCommit, Unleased
  <2>2. presentCurrent(hnd[d], at[d]) \in Gens \cup {0}
    BY <2>1, ResolveFacts
  <2>3. at' \in [Procs -> 0..(MaxNow + 1)]
    BY <1>23, ConstantsAssumption DEF DeleteCommit, Retire, Spare, Shape
  <2>4. /\ current' \in [Handles -> Gens \cup {0}] /\ armed' \subseteq Readers
        /\ owed' \in [Procs -> Gens \cup {0}] /\ put' \in [Writers -> PutOpts \cup {None}]
    BY <1>23, <2>2 DEF DeleteCommit, Retire, Spare, wake, Shape
  <2>5. pc' \in [Procs -> PCs] /\ ret' \in [Procs -> {"idle", "pressure", "again"}]
    BY <1>23
       DEF DeleteCommit, Retire, Spare, Shape, PCs, WriterPC, SweepPC,
           ReaderPC, TailPC
  <2> QED
    BY <1>23, <2>3, <2>4, <2>5 DEF DeleteCommit, Shape
<1>24. ASSUME NEW p \in Procs, p \in Sweepers, SweepPeek(p)  PROVE Shape'
  <2>1. walk[p] \in Handles
    BY <1>24 DEF SweepPeek, Shape, Leased
  <2>2. expiredCurrent(walk[p], at[p]) \in Gens \cup {0}
    BY <2>1, ResolveFacts
  <2>3. at' \in [Procs -> 0..(MaxNow + 1)]
    BY <1>24, ConstantsAssumption DEF SweepPeek, Shape
  <2>4. mine' \in [Procs -> Gens \cup {0}] /\ put' \in [Writers -> PutOpts \cup {None}]
    BY <1>24, <2>2 DEF SweepPeek, Shape
  <2> QED
    BY <1>24, <2>3, <2>4
       DEF SweepPeek, afterMiss, Shape, PCs, WriterPC, SweepPC, ReaderPC,
           TailPC
<1>25. ASSUME NEW p \in Procs, p \in Sweepers, ReapRecheck(p)  PROVE Shape'
  <2>1. hnd[p] \in Handles
    BY <1>25, LeasedHandle DEF ReapRecheck, Unleased
  <2>2. reapable(hnd[p], at[p], mine[p]) \in Gens \cup {0}
    BY <2>1, ResolveFacts DEF reapable
  <2>3. at' \in [Procs -> 0..(MaxNow + 1)]
    BY <1>25, ConstantsAssumption DEF ReapRecheck, Retire, Spare, Shape
  <2>4. /\ current' \in [Handles -> Gens \cup {0}] /\ armed' \subseteq Readers
        /\ owed' \in [Procs -> Gens \cup {0}] /\ put' \in [Writers -> PutOpts \cup {None}]
    BY <1>25, <2>2 DEF ReapRecheck, Retire, Spare, wake, Shape
  <2>5. mine' \in [Procs -> Gens \cup {0}]
    BY <1>25 DEF ReapRecheck, Shape
  <2>6. pc' \in [Procs -> PCs] /\ ret' \in [Procs -> {"idle", "pressure", "again"}]
    BY <1>25
       DEF ReapRecheck, Retire, Spare, Shape, PCs, WriterPC, SweepPC,
           ReaderPC, TailPC
  <2> QED
    BY <1>25, <2>3, <2>4, <2>5, <2>6 DEF ReapRecheck, Shape
<1>26. ASSUME NEW p \in Procs, Release(p)  PROVE Shape'
  <2>1. reg' \in Handles \cup {None}
    BY <1>26 DEF Release, Shape
  <2>2. leases' \in [Handles -> Int]
    <3>1. hnd[p] \in Handles
      BY <1>26, LeasedHandle DEF Release, Unleased
    <3> QED
      BY <1>26, <3>1 DEF Release, Shape
  <2>3. pc' \in [Procs -> PCs]
    BY <1>26 DEF Release, Shape, PCs, WriterPC
  <2> QED
    BY <1>26, <2>1, <2>2, <2>3 DEF Release, Shape
<1>27. ASSUME Tick  PROVE Shape'
  BY <1>27, ConstantsAssumption
     DEF Tick, Shape, PCs, WriterPC, SweepPC, ReaderPC, TailPC
<1>28. ASSUME UNCHANGED vars  PROVE Shape'
  BY <1>28 DEF vars, Shape, PCs, WriterPC, SweepPC, ReaderPC, TailPC
<1> QED
  BY <1>1, <1>2, <1>3, <1>4, <1>5, <1>6, <1>7, <1>8, <1>9, <1>10, <1>11,
     <1>12, <1>13, <1>14, <1>15, <1>16, <1>17, <1>18, <1>19, <1>20, <1>21,
     <1>22, <1>23, <1>24, <1>25, <1>26, <1>27, <1>28
     DEF Next, WriterStep, ReaderStep, SweepStep, Tail, Procs, Sweepers

-----------------------------------------------------------------------------
(* Leases and the handle *)

\* Every step takes and drops leases where the program points say.
LEMMA LeasedStep ==
  ASSUME Shape, Leased, [Next]_vars
  PROVE  Leased'
<1> USE DEF regVars, slotVars, bornVars, genVars, quotaVars, sweepVars,
            readVars, procVars
<1>1. ASSUME NEW p \in Procs,
             CreateAcquire(p) \/ OpenAcquire(p) \/ StatAcquire(p) \/
             DeleteAcquire(p) \/ SweepSnapshot(p) \/ ReapAcquire(p)
      PROVE  Leased'
  BY <1>1, ConstantsAssumption
     DEF CreateAcquire, OpenAcquire, StatAcquire, DeleteAcquire,
         SweepSnapshot, ReapAcquire, Acquire, Leased, Unleased, Shape
<1>2. ASSUME NEW p \in Procs,
             CreateReject(p) \/ CreateNoSpace(p) \/ CreateInstall(p) \/
             PressureGivesUp(p) \/ CloseStamp(p) \/ CloseFinalize(p)
      PROVE  Leased'
  BY <1>2
     DEF CreateReject, CreateNoSpace, CreateInstall, PressureGivesUp,
         CloseStamp, CloseFinalize, Leased, Unleased, Shape
<1>3. ASSUME NEW p \in Procs,
             CloseFlip(p) \/ CloseFinish(p) \/ Abort(p) \/ Discard(p) \/
             DiscardFail(p) \/ OpenPark(p)
      PROVE  Leased'
  BY <1>3
     DEF CloseFlip, CloseFinish, Abort, Discard, DiscardFail, OpenPark,
         Leased, Unleased, Shape
<1>4. ASSUME NEW p \in Procs,
             OpenWake(p) \/ OpenError(p) \/ OpenPlain(p) \/ OpenClaim(p) \/
             CloseReader(p) \/ CleanupClear(p)
      PROVE  Leased'
  BY <1>4
     DEF OpenWake, OpenError, OpenPlain, OpenClaim, CloseReader,
         CleanupClear, Leased, Unleased, Shape
<1>5. ASSUME NEW p \in Procs,
             StatPeek(p) \/ Cancel(p) \/ Elapse(p) \/ DeleteCommit(p) \/
             SweepPeek(p) \/ ReapRecheck(p)
      PROVE  Leased'
  BY <1>5
     DEF StatPeek, Cancel, Elapse, DeleteCommit, SweepPeek, ReapRecheck,
         Retire, Spare, afterMiss, Leased, Unleased, Shape
<1>6. ASSUME NEW p \in Procs,
             Remove(p) \/ ReleaseGen(p) \/ Release(p)
      PROVE  Leased'
  BY <1>6 DEF Remove, ReleaseGen, Release, Leased, Unleased, Shape
<1>7. ASSUME Tick  PROVE Leased'
  BY <1>7 DEF Tick, Leased, Unleased, Shape
<1>8. ASSUME UNCHANGED vars  PROVE Leased'
  BY <1>8 DEF vars, Leased, Unleased, Shape
<1> QED
  BY <1>1, <1>2, <1>3, <1>4, <1>5, <1>6, <1>7, <1>8
     DEF Next, WriterStep, ReaderStep, SweepStep, Tail, Procs, Sweepers

\* Finite cardinalities as the lease count uses them.
LEMMA HoldersFinite ==
  ASSUME NEW h
  PROVE  IsFiniteSet(holders(h)) /\ Cardinality(holders(h)) \in Nat
<1>1. holders(h) \subseteq Procs
  BY DEF holders
<1> QED
  BY <1>1, RolesAssumption, FS_Subset, FS_CardinalityType

\* Acquiring a lease keeps the handle unique: the registered handle gains a
\* holder, or a handle nobody refers to becomes the registered one.
LEMMA AcquireHandle ==
  ASSUME Shape, OneHandle, NEW p \in Procs, hnd[p] = None, Acquire(p)
  PROVE  OneHandle'
<1>1. PICK h \in Handles :
        /\ IF reg = None THEN h \notin Referenced ELSE h = reg
        /\ reg' = h
        /\ hnd' = [hnd EXCEPT ![p] = h]
        /\ leases'  = [leases  EXCEPT ![h] = IF reg = None THEN 1 ELSE @ + 1]
        /\ current' = [current EXCEPT ![h] = IF reg = None THEN 0 ELSE @]
        /\ live'    = [live    EXCEPT ![h] = IF reg = None THEN 0 ELSE @]
  BY DEF Acquire
<1>2. h # None
  BY ConstantsAssumption
<1>3. p \notin holders(h) /\ holders(h)' = holders(h) \cup {p}
  BY <1>1, <1>2 DEF holders, Shape
<1>4. \A k \in Handles : k # h => holders(k)' = holders(k)
  BY <1>1, ConstantsAssumption DEF holders, Shape
<1>5. reg = None => holders(h) = {}
  BY <1>1 DEF holders, Referenced
<1>6. leases'[h] = Cardinality(holders(h)')
  <2>1. Cardinality(holders(h)') = Cardinality(holders(h)) + 1
    BY <1>3, HoldersFinite, FS_AddElement
  <2>2. CASE reg = None
    <3>1. Cardinality(holders(h)) = 0
      BY <1>5, <2>2, FS_EmptySet
    <3> QED
      BY <1>1, <2>1, <2>2, <3>1 DEF Shape
  <2>3. CASE reg # None
    BY <1>1, <2>1, <2>3 DEF Shape, OneHandle
  <2> QED
    BY <2>2, <2>3
<1>7. ASSUME NEW k \in Handles, k # h
      PROVE  /\ leases'[k] = Cardinality(holders(k)')
             /\ holders(k)' = {} /\ current'[k] = 0 /\ live'[k] = 0
  <2>1. k # reg
    BY <1>1, <1>7, ConstantsAssumption
  <2>2. holders(k) = {} /\ current[k] = 0 /\ live[k] = 0 /\ leases[k] = Cardinality(holders(k))
    BY <2>1 DEF OneHandle
  <2> QED
    BY <1>1, <1>4, <1>7, <2>2 DEF Shape
<1> QED
  BY <1>1, <1>6, <1>7 DEF OneHandle

\* Taking a lease moves no pointer: a new handle is empty, as an unregistered
\* one already was.
LEMMA AcquirePointers ==
  ASSUME Shape, OneHandle, NEW p \in Procs, Acquire(p)
  PROVE  current' = current /\ live' = live
<1> PICK h \in Handles :
        /\ current' = [current EXCEPT ![h] = IF reg = None THEN 0 ELSE @]
        /\ live'    = [live    EXCEPT ![h] = IF reg = None THEN 0 ELSE @]
  BY DEF Acquire
<1>1. reg = None => current[h] = 0 /\ live[h] = 0
  BY ConstantsAssumption DEF OneHandle
<1> QED
  BY <1>1 DEF Shape

\* Dropping a lease keeps it too: release evicts only when the last lease goes
\* and nothing is left in the handle.
LEMMA ReleaseHandle ==
  ASSUME Shape, Leased, OneHandle, NEW p \in Procs, Release(p)
  PROVE  OneHandle'
<1> PICK h \in Handles : h = hnd[p]
  BY LeasedHandle DEF Release, Unleased
<1>1. h # None
  BY ConstantsAssumption
<1>2. /\ leases' = [leases EXCEPT ![h] = @ - 1]
      /\ reg' = IF evicts(h) THEN None ELSE reg
      /\ hnd' = [hnd EXCEPT ![p] = None]
      /\ current' = current /\ live' = live
  BY DEF Release, slotVars
<1>3. p \in holders(h) /\ holders(h)' = holders(h) \ {p}
  BY <1>1, <1>2 DEF holders, Shape
<1>4. \A k \in Handles : k # h => holders(k)' = holders(k)
  BY <1>2, ConstantsAssumption DEF holders, Shape
<1>5. reg = h
  BY <1>1, <1>3 DEF OneHandle
<1>6. Cardinality(holders(h)') = Cardinality(holders(h)) - 1
  BY <1>3, HoldersFinite, FS_RemoveElement
<1>7. leases'[h] = Cardinality(holders(h)')
  BY <1>1, <1>2, <1>6 DEF Shape, OneHandle
<1>8. evicts(h) => holders(h)' = {} /\ current'[h] = 0 /\ live'[h] = 0
  <2> SUFFICES ASSUME evicts(h) PROVE holders(h)' = {}
    BY <1>2 DEF evicts
  <2>1. Cardinality(holders(h)') = 0
    BY <1>1, <1>6 DEF evicts, OneHandle
  <2>2. IsFiniteSet(holders(h)')
    BY <1>3, HoldersFinite, FS_RemoveElement
  <2> QED
    BY <2>1, <2>2, FS_EmptySet
<1>9. ASSUME NEW k \in Handles, k # h
      PROVE  /\ leases'[k] = Cardinality(holders(k)')
             /\ holders(k)' = {} /\ current'[k] = 0 /\ live'[k] = 0
  BY <1>1, <1>2, <1>4, <1>5, <1>9 DEF Shape, OneHandle
<1> QED
  BY <1>2, <1>5, <1>7, <1>8, <1>9 DEF OneHandle

\* A step that takes and drops no lease keeps it, if it writes only to the
\* registered handle.
LEMMA SameHandle ==
  ASSUME OneHandle, reg' = reg, hnd' = hnd, leases' = leases,
         \A h \in Handles : h # reg => current'[h] = current[h] /\ live'[h] = live[h]
  PROVE  OneHandle'
<1>1. \A h \in Handles : holders(h)' = holders(h)
  BY DEF holders
<1> QED
  BY <1>1 DEF OneHandle

\* A goroutine that holds a lease holds the registered handle.
LEMMA HolderOfReg ==
  ASSUME Shape, Leased, OneHandle, NEW p \in Procs, pc[p] \notin Unleased
  PROVE  hnd[p] \in Handles /\ hnd[p] = reg
<1>1. hnd[p] \in Handles
  BY LeasedHandle
<1>2. p \in holders(hnd[p])
  BY DEF holders
<1> QED
  BY <1>1, <1>2 DEF OneHandle

\* Every step leaves one handle serving the name.
LEMMA HandleStep ==
  ASSUME Shape, Leased, OneHandle, [Next]_vars
  PROVE  OneHandle'
<1> USE DEF regVars, slotVars, bornVars, genVars, quotaVars, sweepVars,
            readVars, procVars
<1>1. ASSUME NEW p \in Procs,
             CreateAcquire(p) \/ OpenAcquire(p) \/ StatAcquire(p) \/
             DeleteAcquire(p) \/ ReapAcquire(p)
      PROVE  OneHandle'
  <2>1. hnd[p] = None
    BY <1>1
       DEF CreateAcquire, OpenAcquire, StatAcquire, DeleteAcquire,
           ReapAcquire, Leased, Unleased
  <2> QED
    BY <1>1, <2>1, AcquireHandle
       DEF CreateAcquire, OpenAcquire, StatAcquire, DeleteAcquire,
           ReapAcquire
<1>2. ASSUME NEW p \in Procs,
             CreateReject(p) \/ CreateNoSpace(p) \/ PressureGivesUp(p) \/
             CloseStamp(p) \/ CloseFinalize(p) \/ CloseFinish(p) \/ Abort(p) \/
             DiscardFail(p) \/ OpenPark(p) \/ OpenWake(p)
      PROVE  OneHandle'
  BY <1>2, SameHandle
     DEF CreateReject, CreateNoSpace, PressureGivesUp, CloseStamp,
         CloseFinalize, CloseFinish, Abort, DiscardFail, OpenPark, OpenWake
<1>3. ASSUME NEW p \in Procs,
             OpenError(p) \/ OpenPlain(p) \/ OpenClaim(p) \/ CloseReader(p) \/
             StatPeek(p) \/ Cancel(p) \/ Elapse(p) \/ SweepSnapshot(p) \/
             SweepPeek(p) \/ Remove(p)
      PROVE  OneHandle'
  BY <1>3, SameHandle
     DEF OpenError, OpenPlain, OpenClaim, CloseReader, StatPeek, Cancel,
         Elapse, SweepSnapshot, SweepPeek, Remove
<1>4. ASSUME NEW p \in Procs, ReleaseGen(p)  PROVE OneHandle'
  BY <1>4, SameHandle DEF ReleaseGen
<1>5. ASSUME NEW p \in Procs,
             CreateInstall(p) \/ CloseFlip(p) \/ Discard(p) \/ CleanupClear(p)
             \/ DeleteCommit(p) \/ ReapRecheck(p)
      PROVE  OneHandle'
  <2>1. hnd[p] = reg
    BY <1>5, HolderOfReg
       DEF CreateInstall, CloseFlip, Discard, CleanupClear, DeleteCommit, ReapRecheck, Unleased
  <2>2. \A h \in Handles : h # reg => current'[h] = current[h] /\ live'[h] = live[h]
    BY <1>5, <2>1
       DEF CreateInstall, CloseFlip, Discard, CleanupClear, DeleteCommit,
           ReapRecheck, Retire, Spare, Shape
  <2> QED
    BY <1>5, <2>2, SameHandle
       DEF CreateInstall, CloseFlip, Discard, CleanupClear, DeleteCommit,
           ReapRecheck
<1>6. ASSUME NEW p \in Procs, Release(p)  PROVE OneHandle'
  BY <1>6, ReleaseHandle
<1>7. ASSUME Tick  PROVE OneHandle'
  BY <1>7, SameHandle DEF Tick
<1>8. ASSUME UNCHANGED vars  PROVE OneHandle'
  BY <1>8, SameHandle DEF vars
<1> QED
  BY <1>1, <1>2, <1>3, <1>4, <1>5, <1>6, <1>7, <1>8
     DEF Next, WriterStep, ReaderStep, SweepStep, Tail, Procs, Sweepers

-----------------------------------------------------------------------------
(* Pointers and uploads *)

\* Every step leaves the pointers on generations in the right state.
LEMMA BornStep ==
  ASSUME Shape, Leased, OneHandle, Born, Uploads, [Next]_vars
  PROVE  Born'
<1> USE DEF regVars, slotVars, bornVars, genVars, quotaVars, sweepVars,
            readVars, procVars
<1>1. ASSUME NEW p \in Procs,
             CreateAcquire(p) \/ CreateReject(p) \/ CreateNoSpace(p) \/
             PressureGivesUp(p) \/ CloseStamp(p) \/ CloseFinalize(p) \/
             CloseFinish(p) \/ Abort(p)
      PROVE  Born'
  BY <1>1
     DEF CreateAcquire, CreateReject, CreateNoSpace, PressureGivesUp,
         CloseStamp, CloseFinalize, CloseFinish, Abort, Acquire, Shape, Born
<1>2. ASSUME NEW p \in Procs,
             Discard(p) \/ DiscardFail(p) \/ OpenAcquire(p) \/ OpenPark(p) \/
             OpenWake(p) \/ OpenError(p) \/ OpenPlain(p) \/ CloseReader(p)
      PROVE  Born'
  BY <1>2
     DEF Discard, DiscardFail, OpenAcquire, OpenPark, OpenWake, OpenError,
         OpenPlain, CloseReader, Shape, Acquire, Born
<1>3. ASSUME NEW p \in Procs,
             CleanupClear(p) \/ StatAcquire(p) \/ StatPeek(p) \/ Cancel(p) \/
             Elapse(p) \/ DeleteAcquire(p) \/ DeleteCommit(p) \/
             SweepSnapshot(p)
      PROVE  Born'
  BY <1>3
     DEF CleanupClear, StatAcquire, StatPeek, Cancel, Elapse, DeleteAcquire,
         DeleteCommit, SweepSnapshot, cleared, Shape, Acquire, Retire,
         Spare, Born
<1>4. ASSUME NEW p \in Procs,
             SweepPeek(p) \/ ReapAcquire(p) \/ ReapRecheck(p) \/ Remove(p) \/
             ReleaseGen(p) \/ Release(p)
      PROVE  Born'
  BY <1>4
     DEF SweepPeek, ReapAcquire, ReapRecheck, Remove, ReleaseGen, Release,
         Acquire, Shape, Retire, Spare, Born
<1>5. ASSUME NEW w \in Procs, w \in Writers, CreateInstall(w)  PROVE Born'
  <2>1. hnd[w] \in Handles
    BY <1>5, LeasedHandle DEF CreateInstall, Unleased
  <2>2. minted \in Nat /\ minted + 1 \in Gens /\ minted' = minted + 1
    BY <1>5, ConstantsAssumption DEF CreateInstall, Shape, Gens
  <2>3. state' = [state EXCEPT ![minted + 1] = "live"] /\ state[minted + 1] = "unborn"
    BY <1>5, <2>2 DEF CreateInstall, Born, Gens
  <2>4. \A g \in Gens : state'[g] = "unborn" <=> g > minted'
    BY <2>2, <2>3 DEF Born, Gens, Shape
  <2>5. live' = [live EXCEPT ![hnd[w]] = minted + 1] /\ current' = current
    BY <1>5 DEF CreateInstall
  <2> QED
    BY <2>1, <2>2, <2>3, <2>4, <2>5 DEF Born, Shape
<1>6. ASSUME NEW w \in Procs, w \in Writers, CloseFlip(w)  PROVE Born'
  <2>1. hnd[w] \in Handles /\ hnd[w] = reg
    BY <1>6, HolderOfReg DEF CloseFlip, Unleased
  <2>2. mine[w] \in Gens /\ live[hnd[w]] = mine[w] /\ state[mine[w]] = "live"
    BY <1>6, <2>1 DEF CloseFlip, Uploads, Uploading, Born, Shape
  <2>3. \A g \in Gens : state'[g] = "unborn" <=> g > minted'
    BY <1>6, <2>2 DEF CloseFlip, Born, Shape
  <2>4. live' = [live EXCEPT ![reg] = 0]
    BY <1>6, <2>1 DEF CloseFlip
  <2>5. \A h \in Handles : live'[h] = 0
    BY <2>4 DEF OneHandle, Shape
  <2> QED
    BY <1>6, <2>1, <2>2, <2>3, <2>5 DEF CloseFlip, Born, Shape
<1>7. ASSUME NEW r \in Procs, r \in Readers, OpenClaim(r)  PROVE Born'
  <2>1. hnd[r] \in Handles
    BY <1>7, LeasedHandle DEF OpenClaim, Unleased
  <2>2. PICK m \in modesOf(r) :
          /\ target(r, m) # 0 /\ state[target(r, m)] = "finalized"
          /\ state' = [state EXCEPT ![target(r, m)] = claimedState(target(r, m))]
    BY <1>7 DEF OpenClaim
  <2>3. target(r, m) \in Gens
    BY <1>7, <2>1, <2>2, TargetFacts
  <2> QED
    BY <1>7, <2>2, <2>3 DEF OpenClaim, claimedState, Born, Shape
<1>8. ASSUME Tick  PROVE Born'
  BY <1>8 DEF Tick, Born
<1>9. ASSUME UNCHANGED vars  PROVE Born'
  BY <1>9 DEF vars, Born
<1> QED
  BY <1>1, <1>2, <1>3, <1>4, <1>5, <1>6, <1>7, <1>8, <1>9
     DEF Next, WriterStep, ReaderStep, SweepStep, Tail, Procs, Sweepers

\* A step of a goroutine that is not uploading does not disturb an upload.
LEMMA UploadsFrame ==
  ASSUME Uploads, NEW p \in Procs, live' = live,
         \A q \in Procs : q # p => pc'[q] = pc[q] /\ mine'[q] = mine[q] /\ hnd'[q] = hnd[q],
         pc[p] \notin Uploading, pc'[p] \notin Uploading
  PROVE  Uploads'
  BY DEF Uploads

\* Every step leaves at most one upload, the one the live pointer names.
LEMMA UploadsStep ==
  ASSUME Shape, Leased, OneHandle, Uploads, [Next]_vars
  PROVE  Uploads'
<1> USE DEF regVars, slotVars, bornVars, genVars, quotaVars, sweepVars,
            readVars, procVars
<1>1. ASSUME NEW p \in Procs,
             CreateAcquire(p) \/ OpenAcquire(p) \/ StatAcquire(p) \/
             DeleteAcquire(p) \/ ReapAcquire(p)
      PROVE  Uploads'
  <2>1. hnd' = [hnd EXCEPT ![p] = hnd'[p]] /\ live' = live
    BY <1>1, AcquirePointers
       DEF CreateAcquire, OpenAcquire, StatAcquire, DeleteAcquire,
           ReapAcquire, Acquire, Shape
  <2>2. /\ \A q \in Procs : q # p => pc'[q] = pc[q] /\ mine'[q] = mine[q] /\ hnd'[q] = hnd[q]
        /\ pc[p] \notin Uploading /\ pc'[p] \notin Uploading
    BY <1>1, <2>1
       DEF CreateAcquire, OpenAcquire, StatAcquire, DeleteAcquire,
           ReapAcquire, Uploading, Shape
  <2> QED
    BY <2>1, <2>2, UploadsFrame
<1>2. ASSUME NEW p \in Procs,
             CreateReject(p) \/ CreateNoSpace(p) \/ PressureGivesUp(p) \/
             CloseFinish(p) \/ DiscardFail(p) \/ Remove(p) \/ ReleaseGen(p) \/
             Release(p)
      PROVE  Uploads'
  <2>1. live' = live /\ \A q \in Procs : q # p =>
          pc'[q] = pc[q] /\ mine'[q] = mine[q] /\ hnd'[q] = hnd[q]
    BY <1>2
       DEF CreateReject, CreateNoSpace, PressureGivesUp, CloseFinish,
           DiscardFail, Remove, ReleaseGen, Release, Shape
  <2>2. pc[p] \notin Uploading /\ pc'[p] \notin Uploading
    BY <1>2
       DEF CreateReject, CreateNoSpace, PressureGivesUp, CloseFinish,
           DiscardFail, Remove, ReleaseGen, Release, Uploading, Shape
  <2> QED
    BY <2>1, <2>2, UploadsFrame
<1>3. ASSUME NEW p \in Procs,
             OpenPark(p) \/ OpenWake(p) \/ OpenError(p) \/ OpenPlain(p) \/
             OpenClaim(p) \/ CloseReader(p) \/ CleanupClear(p)
      PROVE  Uploads'
  <2>1. live' = live /\ \A q \in Procs : q # p =>
          pc'[q] = pc[q] /\ mine'[q] = mine[q] /\ hnd'[q] = hnd[q]
    BY <1>3
       DEF OpenPark, OpenWake, OpenError, OpenPlain, OpenClaim,
           CloseReader, CleanupClear, Shape
  <2>2. pc[p] \notin Uploading /\ pc'[p] \notin Uploading
    BY <1>3
       DEF OpenPark, OpenWake, OpenError, OpenPlain, OpenClaim,
           CloseReader, CleanupClear, Uploading, Shape
  <2> QED
    BY <2>1, <2>2, UploadsFrame
<1>4. ASSUME NEW p \in Procs,
             StatPeek(p) \/ Cancel(p) \/ Elapse(p) \/ DeleteCommit(p) \/
             SweepSnapshot(p) \/ SweepPeek(p) \/ ReapRecheck(p)
      PROVE  Uploads'
  <2>1. live' = live /\ \A q \in Procs : q # p =>
          pc'[q] = pc[q] /\ mine'[q] = mine[q] /\ hnd'[q] = hnd[q]
    BY <1>4
       DEF StatPeek, Cancel, Elapse, DeleteCommit, SweepSnapshot,
           SweepPeek, ReapRecheck, Retire, Spare, afterMiss, Shape
  <2>2. pc[p] \notin Uploading /\ pc'[p] \notin Uploading
    BY <1>4
       DEF StatPeek, Cancel, Elapse, DeleteCommit, SweepSnapshot,
           SweepPeek, ReapRecheck, Retire, Spare, afterMiss, Uploading,
           Shape
  <2> QED
    BY <2>1, <2>2, UploadsFrame
<1>5. ASSUME NEW p \in Procs,
             CloseStamp(p) \/ CloseFinalize(p) \/ Abort(p)
      PROVE  Uploads'
  <2>1. live' = live /\ hnd' = hnd /\ mine' = mine
    BY <1>5 DEF CloseStamp, CloseFinalize, Abort
  <2>2. \A q \in Procs : pc'[q] \in Uploading <=> pc[q] \in Uploading
    BY <1>5 DEF CloseStamp, CloseFinalize, Abort, Uploading, Shape
  <2> QED
    BY <2>1, <2>2 DEF Uploads
<1>6. ASSUME NEW p \in Procs, CloseFlip(p) \/ Discard(p)  PROVE Uploads'
  <2>1. hnd[p] \in Handles /\ hnd[p] = reg
    BY <1>6, HolderOfReg DEF CloseFlip, Discard, Unleased
  <2>2. \A q \in Procs : pc'[q] \notin Uploading
    BY <1>6 DEF CloseFlip, Discard, Uploads, Uploading, Shape
  <2>3. \A h \in Handles : live'[h] = 0
    BY <1>6, <2>1 DEF CloseFlip, Discard, OneHandle, Shape
  <2> QED
    BY <2>2, <2>3 DEF Uploads
<1>7. ASSUME NEW w \in Procs, w \in Writers, CreateInstall(w)  PROVE Uploads'
  <2>1. hnd[w] \in Handles /\ hnd[w] = reg
    BY <1>7, HolderOfReg DEF CreateInstall, Unleased
  <2>2. minted + 1 \in Gens
    BY <1>7, ConstantsAssumption DEF CreateInstall, Shape, Gens
  <2>3. \A q \in Procs : pc[q] \notin Uploading
    <3> SUFFICES ASSUME NEW q \in Procs, pc[q] \in Uploading PROVE FALSE
      OBVIOUS
    <3>1. hnd[q] = reg
      BY HolderOfReg DEF Uploading, Unleased
    <3> QED
      BY <1>7, <2>1, <3>1 DEF CreateInstall, busy, Uploads
  <2>4. /\ live' = [live EXCEPT ![hnd[w]] = minted + 1] /\ hnd' = hnd
        /\ mine' = [mine EXCEPT ![w] = minted + 1]
        /\ pc' = [pc EXCEPT ![w] = "writing"]
    BY <1>7 DEF CreateInstall
  <2>5. \A q \in Procs : pc'[q] \in Uploading <=> q = w
    BY <2>3, <2>4 DEF Uploading, Shape
  <2>6. \A h \in Handles : live'[h] # 0 => h = hnd[w]
    BY <2>1, <2>4 DEF OneHandle, Shape
  <2>7. minted + 1 # 0
    BY <2>2, ConstantsAssumption DEF Gens
  <2> QED
    BY <2>1, <2>2, <2>4, <2>5, <2>6, <2>7 DEF Uploads, Shape
<1>8. ASSUME Tick  PROVE Uploads'
  BY <1>8 DEF Tick, Uploading, Shape, Uploads
<1>9. ASSUME UNCHANGED vars  PROVE Uploads'
  BY <1>9 DEF vars, Uploading, Shape, Uploads
<1> QED
  BY <1>1, <1>2, <1>3, <1>4, <1>5, <1>6, <1>7, <1>8, <1>9
     DEF Next, WriterStep, ReaderStep, SweepStep, Tail, Procs, Sweepers

-----------------------------------------------------------------------------
(* What can be reached, and what is owed *)

\* A live generation is not a current one.
LEMMA LiveIsNotCurrent ==
  ASSUME Shape, Born, NEW h \in Handles, NEW k \in Handles, live[h] # 0
  PROVE  live[h] # current[k]
  BY DEF Born, Shape

\* A step that moves no pointer and no generation's state keeps what can be
\* reached.
LEMMA SameReach ==
  ASSUME current' = current, live' = live, state' = state
  PROVE  \A g \in Gens : (state[g] # "unborn" =>
           state'[g] # "unborn" /\ (reachable(g)' => reachable(g)))
  BY DEF reachable

\* What was reachable may be given up, but not gained.
Sinks == \A g \in Gens : (state[g] # "unborn" =>
           state'[g] # "unborn" /\ (reachable(g)' => reachable(g)))

\* No step makes an old generation reachable again, or unborn.
LEMMA SinksStep ==
  ASSUME Shape, Leased, OneHandle, Born, Uploads, [Next]_vars
  PROVE  Sinks
<1> USE DEF regVars, slotVars, bornVars, genVars, quotaVars, sweepVars,
            readVars, procVars
<1>1. ASSUME NEW p \in Procs,
             CreateAcquire(p) \/ OpenAcquire(p) \/ StatAcquire(p) \/
             DeleteAcquire(p) \/ ReapAcquire(p)
      PROVE  Sinks
  <2>1. \A h \in Handles : current'[h] \in {0, current[h]} /\ live'[h] \in {0, live[h]}
    BY <1>1
       DEF CreateAcquire, OpenAcquire, StatAcquire, DeleteAcquire,
           ReapAcquire, Acquire, Shape
  <2>2. state' = state
    BY <1>1
       DEF CreateAcquire, OpenAcquire, StatAcquire, DeleteAcquire,
           ReapAcquire
  <2> QED
    BY <2>1, <2>2, ConstantsAssumption DEF Sinks, reachable, Gens
<1>2. ASSUME NEW p \in Procs,
             CreateReject(p) \/ CreateNoSpace(p) \/ PressureGivesUp(p) \/
             CloseStamp(p) \/ CloseFinalize(p) \/ CloseFinish(p) \/ Abort(p) \/
             DiscardFail(p) \/ OpenPark(p) \/ OpenWake(p)
      PROVE  Sinks
  BY <1>2, SameReach
     DEF CreateReject, CreateNoSpace, PressureGivesUp, CloseStamp,
         CloseFinalize, CloseFinish, Abort, DiscardFail, OpenPark, OpenWake,
         Sinks
<1>3. ASSUME NEW p \in Procs,
             OpenError(p) \/ OpenPlain(p) \/ CloseReader(p) \/ StatPeek(p) \/
             Cancel(p) \/ Elapse(p) \/ SweepSnapshot(p) \/ SweepPeek(p) \/
             Remove(p) \/ ReleaseGen(p)
      PROVE  Sinks
  BY <1>3, SameReach
     DEF OpenError, OpenPlain, CloseReader, StatPeek, Cancel, Elapse,
         SweepSnapshot, SweepPeek, Remove, ReleaseGen, Sinks
<1>4. ASSUME NEW p \in Procs, Release(p)  PROVE Sinks
  BY <1>4, SameReach DEF Release, Sinks
<1>5. ASSUME NEW p \in Procs,
             CleanupClear(p) \/ DeleteCommit(p) \/ ReapRecheck(p) \/ Discard(p)
      PROVE  Sinks
  <2>1. \A h \in Handles : current'[h] \in {0, current[h]} /\ live'[h] \in {0, live[h]}
    BY <1>5
       DEF CleanupClear, DeleteCommit, ReapRecheck, Discard, cleared,
           Retire, Spare, Shape
  <2>2. state' = state
    BY <1>5 DEF CleanupClear, DeleteCommit, ReapRecheck, Discard
  <2> QED
    BY <2>1, <2>2, ConstantsAssumption DEF Sinks, reachable, Gens
<1>6. ASSUME NEW w \in Procs, w \in Writers, CreateInstall(w)  PROVE Sinks
  <2>1. minted + 1 \in Gens /\ hnd[w] \in Handles /\ state[minted + 1] = "unborn"
    <3>1. minted + 1 \in Gens /\ minted + 1 > minted
      BY <1>6, ConstantsAssumption DEF CreateInstall, Shape, Gens
    <3> QED
      BY <1>6, <3>1, LeasedHandle DEF CreateInstall, Unleased, Born
  <2>2. /\ state' = [state EXCEPT ![minted + 1] = "live"]
        /\ live' = [live EXCEPT ![hnd[w]] = minted + 1] /\ current' = current
    BY <1>6 DEF CreateInstall
  <2> QED
    BY <2>1, <2>2 DEF Sinks, reachable, Shape
<1>7. ASSUME NEW w \in Procs, w \in Writers, CloseFlip(w)  PROVE Sinks
  <2>1. hnd[w] \in Handles
    BY <1>7, LeasedHandle DEF CloseFlip, Unleased
  <2>2. mine[w] = live[hnd[w]] /\ mine[w] \in Gens
    BY <1>7 DEF CloseFlip, Uploads, Uploading, Shape
  <2>3. /\ state' = [state EXCEPT ![mine[w]] = "finalized"]
        /\ live' = [live EXCEPT ![hnd[w]] = 0]
        /\ current' = [current EXCEPT ![hnd[w]] = mine[w]]
    BY <1>7 DEF CloseFlip
  <2>4. SUFFICES ASSUME NEW g \in Gens, state[g] # "unborn"
                 PROVE  state'[g] # "unborn" /\ (reachable(g)' => reachable(g))
    BY DEF Sinks
  <2>5. CASE g = mine[w]
    BY <2>1, <2>2, <2>3, <2>5 DEF reachable, Shape
  <2>6. CASE g # mine[w]
    <3>1. \A h \in Handles : (live'[h] = g => live[h] = g) /\ (current'[h] = g => current[h] = g)
      BY <2>1, <2>3, <2>6, ConstantsAssumption DEF Shape, Gens
    <3>2. state'[g] = state[g]
      BY <2>3, <2>6 DEF Shape
    <3> QED
      BY <2>4, <3>1, <3>2 DEF reachable
  <2> QED
    BY <2>5, <2>6
<1>8. ASSUME NEW r \in Procs, r \in Readers, OpenClaim(r)  PROVE Sinks
  <2>1. hnd[r] \in Handles
    BY <1>8, LeasedHandle DEF OpenClaim, Unleased
  <2>2. PICK m \in modesOf(r) : target(r, m) # 0 /\ state' = [state EXCEPT ![target(r, m)] = "consumed"]
    BY <1>8 DEF OpenClaim, claimedState
  <2>3. current' = current /\ live' = live
    BY <1>8 DEF OpenClaim
  <2> QED
    BY <2>2, <2>3 DEF Sinks, reachable, Shape
<1>9. ASSUME Tick  PROVE Sinks
  BY <1>9, SameReach DEF Tick, Sinks
<1>10. ASSUME UNCHANGED vars  PROVE Sinks
  BY <1>10, SameReach DEF vars, Sinks
<1> QED
  BY <1>1, <1>2, <1>3, <1>4, <1>5, <1>6, <1>7, <1>8, <1>9, <1>10
     DEF Next, WriterStep, ReaderStep, SweepStep, Tail, Procs, Sweepers

\* A step that incurs no debt keeps every debt, or pays its own.
LEMMA DebtsFrame ==
  ASSUME Debts, Sinks, NEW p \in Procs,
         \A q \in Procs : q # p => pc'[q] = pc[q] /\ owed'[q] = owed[q],
         owed'[p] \in {0, owed[p]},
         pc'[p] \in {"fail", "remove", "uncharge"} => owed'[p] # 0,
         owed'[p] # 0 => pc'[p] \in Owing
  PROVE  Debts'
<1> SUFFICES ASSUME NEW q \in Procs PROVE Debt(q)'
  BY DEF Debts
<1>1. ASSUME NEW g \in Gens, owed'[q] = g
      PROVE  /\ state'[g] # "unborn"
             /\ ~reachable(g)'
             /\ \A o \in Procs : owed'[o] = g => o = q
  <2>1. \A o \in Procs : owed'[o] = g => owed[o] = g
    BY ConstantsAssumption DEF Gens
  <2>2. /\ state[g] # "unborn" /\ ~reachable(g)
        /\ \A o \in Procs : owed[o] = g => o = q
    BY <1>1, <2>1 DEF Debts, Debt
  <2> QED
    BY <2>1, <2>2 DEF Sinks
<1>2. /\ pc'[q] \in {"fail", "remove", "uncharge"} => owed'[q] # 0
      /\ owed'[q] # 0 => pc'[q] \in Owing
  BY DEF Debts, Debt
<1> QED
  BY <1>1, <1>2 DEF Debt

\* A goroutine may take on a generation that its step makes unreachable: nobody
\* owed it before.
LEMMA DebtsTakeOn ==
  ASSUME Debts, Sinks, NEW p \in Procs, NEW g \in Gens,
         \A q \in Procs : q # p => pc'[q] = pc[q] /\ owed'[q] = owed[q],
         owed'[p] = g, pc'[p] \in Owing,
         state[g] # "unborn", reachable(g), ~reachable(g)'
  PROVE  Debts'
<1> SUFFICES ASSUME NEW q \in Procs PROVE Debt(q)'
  BY DEF Debts
<1>1. \A o \in Procs : owed[o] # g
  BY DEF Debts, Debt
<1>2. ASSUME NEW f \in Gens, owed'[q] = f
      PROVE  /\ state'[f] # "unborn"
             /\ ~reachable(f)'
             /\ \A o \in Procs : owed'[o] = f => o = q
  <2>1. CASE q = p
    BY <1>1, <1>2, <2>1 DEF Sinks
  <2>2. CASE q # p
    <3>1. /\ state[f] # "unborn" /\ ~reachable(f) /\ f # g
          /\ \A o \in Procs : owed[o] = f => o = q
      BY <1>1, <1>2, <2>2 DEF Debts, Debt
    <3> QED
      BY <2>2, <3>1 DEF Sinks
  <2> QED
    BY <2>1, <2>2
<1>3. g # 0
  BY ConstantsAssumption DEF Gens
<1>4. /\ pc'[q] \in {"fail", "remove", "uncharge"} => owed'[q] # 0
      /\ owed'[q] # 0 => pc'[q] \in Owing
  BY <1>3 DEF Debts, Debt
<1> QED
  BY <1>2, <1>4 DEF Debt

\* Retiring the finalized current takes it on as a debt; sparing it takes on
\* none.
LEMMA RetireDebts ==
  ASSUME Shape, OneHandle, Born, Debts, Sinks, NEW p \in Procs,
         hnd[p] \in Handles, hnd[p] = reg, owed[p] = 0,
         live' = live, state' = state,
         \/ \E g \in Gens : /\ g = current[reg] /\ state[g] = "finalized"
                            /\ Retire(p, g)
         \/ Spare(p)
  PROVE  Debts'
<1>1. CASE Spare(p)
  BY <1>1, DebtsFrame DEF Spare, Shape, Owing
<1>2. ASSUME NEW g \in Gens, g = current[reg], state[g] = "finalized", Retire(p, g)
      PROVE  Debts'
  <2>0. g # 0
    BY ConstantsAssumption DEF Gens
  <2>1. CASE owed' = owed
    <3>1. pc' = [pc EXCEPT ![p] = "release"]
      BY <1>2, <2>0, <2>1 DEF Retire, Shape
    <3> QED
      BY <2>1, <3>1, DebtsFrame DEF Shape, Owing
  <2>2. CASE owed' # owed
    <3>1. /\ current' = [current EXCEPT ![reg] = 0]
          /\ owed' = [owed EXCEPT ![p] = g]
          /\ pc' = [pc EXCEPT ![p] = "remove"]
      BY <1>2, <2>2 DEF Retire
    <3>2. reachable(g)
      BY <1>2 DEF reachable
    <3>3. ~reachable(g)'
      <4>1. \A h \in Handles : current'[h] = 0
        BY <3>1 DEF OneHandle, Shape
      <4>2. \A h \in Handles : live'[h] # g
        BY <1>2, <2>0 DEF Born
      <4> QED
        BY <2>0, <4>1, <4>2 DEF reachable
    <3> QED
      BY <1>2, <3>1, <3>2, <3>3, DebtsTakeOn DEF Shape, Owing
  <2> QED
    BY <2>1, <2>2
<1> QED
  BY <1>1, <1>2

\* Every step keeps the debts apart and out of reach.
LEMMA DebtsStep ==
  ASSUME Shape, Leased, OneHandle, Born, Uploads, Debts, [Next]_vars
  PROVE  Debts'
<1> USE DEF regVars, slotVars, bornVars, genVars, quotaVars, sweepVars,
            readVars, procVars
<1>s. Sinks
  BY SinksStep
<1>1. ASSUME NEW p \in Procs,
             CreateAcquire(p) \/ CreateReject(p) \/ CreateNoSpace(p) \/
             CreateInstall(p) \/ PressureGivesUp(p) \/ CloseStamp(p)
      PROVE  Debts'
  BY <1>1, <1>s, DebtsFrame
     DEF CreateAcquire, CreateReject, CreateNoSpace, CreateInstall,
         PressureGivesUp, CloseStamp, Acquire, Debts, Debt, Owing, Shape
<1>2. ASSUME NEW p \in Procs,
             CloseFinalize(p) \/ CloseFinish(p) \/ Abort(p) \/ DiscardFail(p)
             \/ OpenAcquire(p) \/ OpenPark(p)
      PROVE  Debts'
  BY <1>2, <1>s, DebtsFrame
     DEF CloseFinalize, CloseFinish, Abort, DiscardFail, OpenAcquire,
         OpenPark, Debts, Debt, Owing, Shape, Acquire
<1>3. ASSUME NEW p \in Procs,
             OpenWake(p) \/ OpenError(p) \/ OpenPlain(p) \/ CloseReader(p) \/
             CleanupClear(p) \/ StatAcquire(p)
      PROVE  Debts'
  BY <1>3, <1>s, DebtsFrame
     DEF OpenWake, OpenError, OpenPlain, CloseReader, CleanupClear,
         StatAcquire, Debts, Debt, Owing, Shape, Acquire
<1>4. ASSUME NEW p \in Procs,
             StatPeek(p) \/ Cancel(p) \/ Elapse(p) \/ DeleteAcquire(p) \/
             SweepSnapshot(p) \/ SweepPeek(p)
      PROVE  Debts'
  BY <1>4, <1>s, DebtsFrame
     DEF StatPeek, Cancel, Elapse, DeleteAcquire, SweepSnapshot, SweepPeek,
         Debts, Debt, Owing, Shape, Acquire, afterMiss
<1>5. ASSUME NEW p \in Procs, ReapAcquire(p) \/ Remove(p)  PROVE Debts'
  BY <1>5, <1>s, DebtsFrame
     DEF ReapAcquire, Remove, Acquire, Debts, Debt, Owing, Shape
<1>6. ASSUME NEW p \in Procs, ReleaseGen(p) \/ Release(p)  PROVE Debts'
  BY <1>6, <1>s, DebtsFrame DEF ReleaseGen, Release, Debts, Debt, Owing, Shape
<1>7. ASSUME NEW w \in Procs, w \in Writers, CloseFlip(w)  PROVE Debts'
  <2>1. hnd[w] \in Handles /\ hnd[w] = reg
    BY <1>7, HolderOfReg DEF CloseFlip, Unleased
  <2>2. mine[w] = live[hnd[w]] /\ mine[w] \in Gens
    BY <1>7 DEF CloseFlip, Uploads, Uploading, Shape
  <2>3. /\ state' = [state EXCEPT ![mine[w]] = "finalized"]
        /\ live' = [live EXCEPT ![reg] = 0]
        /\ current' = [current EXCEPT ![reg] = mine[w]]
        /\ owed' = [owed EXCEPT ![w] = superseded(reg)]
        /\ pc' = [pc EXCEPT ![w] = "finish"]
    BY <1>7, <2>1 DEF CloseFlip
  <2>4. CASE superseded(reg) = 0
    BY <2>3, <2>4, <1>s, DebtsFrame DEF Shape, Owing
  <2>5. CASE superseded(reg) # 0
    <3> PICK g \in Gens : g = superseded(reg)
      BY <2>1, <2>5 DEF superseded, Shape
    <3>1. g = current[reg] /\ state[g] = "finalized" /\ g # mine[w]
      BY <2>1, <2>2, <2>5, LiveIsNotCurrent, ConstantsAssumption
         DEF superseded, Born, Gens
    <3>2. reachable(g)
      BY <2>1, <3>1 DEF reachable
    <3>3. \A h \in Handles : live'[h] = 0 /\ (current'[h] = 0 \/ current'[h] = mine[w])
      BY <2>1, <2>3 DEF OneHandle, Shape
    <3>4. ~reachable(g)'
      BY <3>1, <3>3, ConstantsAssumption DEF reachable, Gens
    <3> QED
      BY <2>3, <3>1, <3>2, <3>4, <1>s, DebtsTakeOn DEF Shape, Owing
  <2> QED
    BY <2>4, <2>5
<1>8. ASSUME NEW w \in Procs, w \in Writers, Discard(w)  PROVE Debts'
  <2>1. hnd[w] \in Handles /\ hnd[w] = reg
    BY <1>8, HolderOfReg DEF Discard, Unleased
  <2> PICK g \in Gens : g = mine[w]
    BY <1>8 DEF Discard, Uploads, Uploading, Shape
  <2>2. g = live[reg] /\ state[g] = "live"
    BY <1>8, <2>1, ConstantsAssumption
       DEF Discard, Uploads, Uploading, Born, Gens
  <2>3. /\ live' = [live EXCEPT ![reg] = 0] /\ current' = current /\ state' = state
        /\ owed' = [owed EXCEPT ![w] = g]
        /\ pc' = [pc EXCEPT ![w] = "fail"]
    BY <1>8, <2>1 DEF Discard
  <2>4. reachable(g)
    BY <2>1, <2>2 DEF reachable
  <2>5. \A h \in Handles : live'[h] = 0
    BY <2>1, <2>3 DEF OneHandle, Shape
  <2>6. ~reachable(g)'
    BY <2>2, <2>3, <2>5, ConstantsAssumption DEF reachable, Gens
  <2> QED
    BY <2>2, <2>3, <2>4, <2>6, <1>s, DebtsTakeOn DEF Shape, Owing
<1>9. ASSUME NEW r \in Procs, r \in Readers, OpenClaim(r)  PROVE Debts'
  <2>1. hnd[r] \in Handles
    BY <1>9, LeasedHandle DEF OpenClaim, Unleased
  <2>2. PICK m \in modesOf(r) :
          /\ target(r, m) # 0 /\ state[target(r, m)] = "finalized" /\ consume[target(r, m)]
          /\ state' = [state EXCEPT ![target(r, m)] = "consumed"]
          /\ owed' = [owed EXCEPT ![r] = target(r, m)]
          /\ pc' \in {[pc EXCEPT ![r] = "streaming"], [pc EXCEPT ![r] = "remove"]}
    BY <1>9 DEF OpenClaim, claimedState
  <2> PICK g \in Gens : g = target(r, m)
    BY <1>9, <2>1, <2>2, TargetFacts
  <2>3. g = current[hnd[r]] /\ current' = current /\ live' = live
    BY <1>9, <2>1, <2>2, TargetFacts DEF OpenClaim
  <2>4. reachable(g)
    BY <2>1, <2>2, <2>3 DEF reachable
  <2>5. ~reachable(g)'
    BY <2>2, <2>3, ConstantsAssumption DEF reachable, Gens, Born, Shape
  <2> QED
    BY <2>2, <2>4, <2>5, <1>s, DebtsTakeOn DEF Shape, Owing
<1>10. ASSUME NEW d \in Procs, d \in Deleters, DeleteCommit(d)  PROVE Debts'
  <2>1. hnd[d] \in Handles /\ hnd[d] = reg
    BY <1>10, HolderOfReg DEF DeleteCommit, Unleased
  <2>2. owed[d] = 0 /\ live' = live /\ state' = state
    BY <1>10 DEF DeleteCommit, Debts, Debt, Owing
  <2> DEFINE g == presentCurrent(reg, at[d])
  <2>3. g # 0 => g \in Gens /\ g = current[reg] /\ state[g] = "finalized"
    BY <2>1, ResolveFacts
  <2>4. IF g # 0 THEN Retire(d, g) ELSE Spare(d)
    BY <1>10, <2>1 DEF DeleteCommit
  <2> QED
    BY <2>1, <2>2, <2>3, <2>4, <1>s, RetireDebts
<1>11. ASSUME NEW p \in Procs, p \in Sweepers, ReapRecheck(p)  PROVE Debts'
  <2>1. hnd[p] \in Handles /\ hnd[p] = reg
    BY <1>11, HolderOfReg DEF ReapRecheck, Unleased
  <2>2. owed[p] = 0 /\ live' = live /\ state' = state
    BY <1>11 DEF ReapRecheck, Debts, Debt, Owing
  <2> DEFINE g == reapable(reg, at[p], mine[p])
  <2>3. g # 0 => g \in Gens /\ g = current[reg] /\ state[g] = "finalized"
    BY <2>1, ResolveFacts DEF reapable
  <2>4. IF g # 0 THEN Retire(p, g) ELSE Spare(p)
    BY <1>11, <2>1 DEF ReapRecheck
  <2> QED
    BY <2>1, <2>2, <2>3, <2>4, <1>s, RetireDebts
<1>12. ASSUME Tick  PROVE Debts'
  <2>1. pc' = pc /\ owed' = owed /\ current' = current /\ live' = live /\ state' = state
    BY <1>12 DEF Tick
  <2> QED
    BY <2>1 DEF Debts, Debt, reachable
<1>13. ASSUME UNCHANGED vars  PROVE Debts'
  <2>1. pc' = pc /\ owed' = owed /\ current' = current /\ live' = live /\ state' = state
    BY <1>13 DEF vars
  <2> QED
    BY <2>1 DEF Debts, Debt, reachable
<1> QED
  BY <1>1, <1>2, <1>3, <1>4, <1>5, <1>6, <1>7, <1>8, <1>9, <1>10, <1>11,
     <1>12, <1>13
     DEF Next, WriterStep, ReaderStep, SweepStep, Tail, Procs, Sweepers

-----------------------------------------------------------------------------
(* Readers' claims *)

\* A step of one goroutine that un-consumes nothing leaves the others' claims.
LEMMA ClaimsFrame ==
  ASSUME Shape, Claims, NEW p \in Procs,
         \A q \in Procs : q # p => pc'[q] = pc[q] /\ mine'[q] = mine[q] /\ owed'[q] = owed[q],
         \A g \in Gens : state[g] = "consumed" => state'[g] = "consumed",
         Claim(p)'
  PROVE  Claims'
<1> SUFFICES ASSUME NEW q \in Procs, q # p PROVE Claim(q)'
  BY DEF Claims
<1> QED
  BY DEF Claims, Claim, Shape

\* Every step keeps a reader's claim and its debt together.
LEMMA ClaimsStep ==
  ASSUME Shape, Leased, OneHandle, Born, Uploads, Debts, Claims, [Next]_vars
  PROVE  Claims'
<1> USE DEF regVars, slotVars, bornVars, genVars, quotaVars, sweepVars,
            readVars, procVars
<1>1. ASSUME NEW w \in Procs, w \in Writers,
             CreateAcquire(w) \/ CreateReject(w) \/ CreateNoSpace(w) \/
             PressureGivesUp(w) \/ CloseStamp(w) \/ CloseFinalize(w)
      PROVE  Claims'
  BY <1>1, ClaimsFrame, RolesAssumption
     DEF CreateAcquire, CreateReject, CreateNoSpace, PressureGivesUp,
         CloseStamp, CloseFinalize, Acquire, Claims, Claim, Debts, Debt,
         Owing, Shape
<1>2. ASSUME NEW w \in Procs, w \in Writers,
             CloseFinish(w) \/ Abort(w) \/ Discard(w) \/ DiscardFail(w)
      PROVE  Claims'
  BY <1>2, ClaimsFrame, RolesAssumption
     DEF CloseFinish, Abort, Discard, DiscardFail, Claims, Claim, Debts,
         Debt, Owing, Shape
<1>3. ASSUME NEW r \in Procs, r \in Readers,
             OpenAcquire(r) \/ OpenPark(r) \/ OpenWake(r) \/ OpenError(r) \/
             OpenPlain(r) \/ CloseReader(r)
      PROVE  Claims'
  BY <1>3, ClaimsFrame
     DEF OpenAcquire, OpenPark, OpenWake, OpenError, OpenPlain, CloseReader,
         Acquire, Claims, Claim, Debts, Debt, Owing, Shape
<1>4. ASSUME NEW r \in Procs, r \in Readers,
             CleanupClear(r) \/ StatAcquire(r) \/ StatPeek(r) \/ Cancel(r) \/
             Elapse(r)
      PROVE  Claims'
  BY <1>4, ClaimsFrame
     DEF CleanupClear, StatAcquire, StatPeek, Cancel, Elapse, Claims, Claim,
         Debts, Debt, Owing, Shape, Acquire
<1>5. ASSUME NEW d \in Procs, d \in Deleters,
             DeleteAcquire(d) \/ DeleteCommit(d)
      PROVE  Claims'
  BY <1>5, ClaimsFrame, RolesAssumption
     DEF DeleteAcquire, DeleteCommit, Acquire, Claims, Claim, Debts, Debt,
         Owing, Shape, Retire, Spare
<1>6. ASSUME NEW p \in Procs, p \in Sweepers,
             SweepSnapshot(p) \/ SweepPeek(p) \/ ReapAcquire(p) \/
             ReapRecheck(p)
      PROVE  Claims'
  BY <1>6, ClaimsFrame, RolesAssumption
     DEF SweepSnapshot, SweepPeek, ReapAcquire, ReapRecheck, Claims, Claim,
         Debts, Debt, Owing, Shape, Sweepers, afterMiss, Acquire, Retire,
         Spare
<1>7. ASSUME NEW p \in Procs,
             Remove(p) \/ ReleaseGen(p) \/ Release(p)
      PROVE  Claims'
  BY <1>7, ClaimsFrame, RolesAssumption
     DEF Remove, ReleaseGen, Release, Claims, Claim, Debts, Debt, Owing,
         Shape
<1>8. ASSUME NEW w \in Procs, w \in Writers, CreateInstall(w)  PROVE Claims'
  <2>1. minted + 1 \in Gens /\ state[minted + 1] = "unborn"
    <3>1. minted + 1 \in Gens /\ minted + 1 > minted
      BY <1>8, ConstantsAssumption DEF CreateInstall, Shape, Gens
    <3> QED
      BY <3>1 DEF Born
  <2>2. /\ state' = [state EXCEPT ![minted + 1] = "live"]
        /\ mine' = [mine EXCEPT ![w] = minted + 1] /\ owed' = owed
        /\ pc' = [pc EXCEPT ![w] = "writing"]
    BY <1>8 DEF CreateInstall
  <2>3. \A g \in Gens : state[g] = "consumed" => state'[g] = "consumed"
    BY <2>1, <2>2 DEF Shape
  <2>4. Claim(w)'
    BY <1>8, <2>2, RolesAssumption DEF Claim, Shape
  <2> QED
    BY <2>2, <2>3, <2>4, ClaimsFrame DEF Shape
<1>9. ASSUME NEW w \in Procs, w \in Writers, CloseFlip(w)  PROVE Claims'
  <2>1. state[mine[w]] = "live" /\ mine[w] \in Gens
    <3>1. hnd[w] \in Handles
      BY <1>9, LeasedHandle DEF CloseFlip, Unleased
    <3> QED
      BY <1>9, <3>1 DEF CloseFlip, Uploads, Uploading, Born, Shape
  <2>2. state' = [state EXCEPT ![mine[w]] = "finalized"]
    BY <1>9 DEF CloseFlip
  <2>3. \A g \in Gens : state[g] = "consumed" => state'[g] = "consumed"
    BY <2>1, <2>2 DEF Shape
  <2>4. Claim(w)'
    BY <1>9, RolesAssumption DEF CloseFlip, Claim, Shape
  <2> QED
    BY <1>9, <2>3, <2>4, ClaimsFrame DEF CloseFlip, Shape
<1>10. ASSUME NEW r \in Procs, r \in Readers, OpenClaim(r)  PROVE Claims'
  <2>1. hnd[r] \in Handles
    BY <1>10, LeasedHandle DEF OpenClaim, Unleased
  <2>2. PICK m \in modesOf(r) :
          /\ target(r, m) # 0
          /\ state' = [state EXCEPT ![target(r, m)] = "consumed"]
          /\ owed' = [owed EXCEPT ![r] = target(r, m)]
          /\ mine' = [mine EXCEPT ![r] = target(r, m)]
          /\ pc' \in {[pc EXCEPT ![r] = "streaming"], [pc EXCEPT ![r] = "remove"]}
    BY <1>10 DEF OpenClaim, claimedState
  <2>3. target(r, m) \in Gens
    BY <1>10, <2>1, <2>2, TargetFacts
  <2>4. \A g \in Gens : state[g] = "consumed" => state'[g] = "consumed"
    BY <2>2, <2>3 DEF Shape
  <2>5. Claim(r)'
    BY <1>10, <2>2, <2>3 DEF Claim, Shape
  <2> QED
    BY <2>2, <2>4, <2>5, ClaimsFrame DEF Shape
<1>11. ASSUME Tick  PROVE Claims'
  <2>1. pc' = pc /\ owed' = owed /\ mine' = mine /\ state' = state
    BY <1>11 DEF Tick
  <2> QED
    BY <2>1 DEF Claims, Claim
<1>12. ASSUME UNCHANGED vars  PROVE Claims'
  <2>1. pc' = pc /\ owed' = owed /\ mine' = mine /\ state' = state
    BY <1>12 DEF vars
  <2> QED
    BY <2>1 DEF Claims, Claim
<1> QED
  BY <1>1, <1>2, <1>3, <1>4, <1>5, <1>6, <1>7, <1>8, <1>9, <1>10, <1>11,
     <1>12
     DEF Next, WriterStep, ReaderStep, SweepStep, Tail, Procs, Sweepers

-----------------------------------------------------------------------------
(* The footprint *)

\* Generations held are finitely many.
LEMMA HeldFinite == IsFiniteSet(held) /\ Cardinality(held) \in Nat
<1>1. held \subseteq Gens
  BY DEF held
<1>2. IsFiniteSet(Gens)
  BY ConstantsAssumption, FS_Interval DEF Gens
<1> QED
  BY <1>1, <1>2, FS_Subset, FS_CardinalityType

\* A step that moves no pointer, state or debt holds what was held.
LEMMA SameHeld ==
  ASSUME current' = current, live' = live, state' = state, owed' = owed, clips' = clips,
         FootprintExact
  PROVE  FootprintExact'
<1>1. held' = held
  BY DEF held, reachable
<1> QED
  BY <1>1 DEF FootprintExact

\* A generation that passes from reachable to owed is still held.
LEMMA HeldAsDebt ==
  ASSUME NEW p \in Procs, NEW g \in Gens, FootprintExact, Shape, clips' = clips,
         owed[p] = 0, owed' = [owed EXCEPT ![p] = g], reachable(g),
         \A f \in Gens : f # g => (reachable(f)' <=> reachable(f))
  PROVE  FootprintExact'
<1>1. ASSUME NEW f \in Gens, f # g
      PROVE  (\E q \in Procs : owed'[q] = f) <=> (\E q \in Procs : owed[q] = f)
  <2>1. f # 0
    BY ConstantsAssumption DEF Gens
  <2>2. \A q \in Procs : owed'[q] = f <=> owed[q] = f
    BY <1>1, <2>1 DEF Shape
  <2> QED
    BY <2>2
<1>2. g \in held /\ g \in held'
  BY DEF held, Shape
<1>3. \A f \in Gens : f # g => (f \in held' <=> f \in held)
  BY <1>1 DEF held
<1>4. held' = held
  BY <1>2, <1>3 DEF held
<1> QED
  BY <1>4 DEF FootprintExact

\* Retiring the finalized current, or sparing it, holds what was held.
LEMMA RetireHeld ==
  ASSUME Shape, OneHandle, Born, FootprintExact, NEW p \in Procs, reg \in Handles,
         hnd[p] = reg, owed[p] = 0,
         live' = live, state' = state, clips' = clips,
         \/ \E g \in Gens : /\ g = current[reg] /\ state[g] = "finalized"
                            /\ Retire(p, g)
         \/ Spare(p)
  PROVE  FootprintExact'
<1>1. CASE Spare(p)
  BY <1>1, SameHeld DEF Spare
<1>2. ASSUME NEW g \in Gens, g = current[reg], state[g] = "finalized", Retire(p, g)
      PROVE  FootprintExact'
  <2>1. CASE owed' = owed /\ current' = current
    BY <1>2, <2>1, SameHeld
  <2>2. CASE owed' # owed \/ current' # current
    <3>1. /\ current' = [current EXCEPT ![reg] = 0]
          /\ owed' = [owed EXCEPT ![p] = g]
      BY <1>2, <2>2 DEF Retire
    <3>2. reachable(g)
      BY <1>2 DEF reachable
    <3>3. ASSUME NEW f \in Gens, f # g PROVE reachable(f)' <=> reachable(f)
      <4>1. f # 0
        BY ConstantsAssumption DEF Gens
      <4>2. \A h \in Handles : current'[h] = f <=> current[h] = f
        BY <1>2, <3>1, <3>3, <4>1 DEF Shape
      <4> QED
        BY <4>2 DEF reachable
    <3> QED
      BY <3>1, <3>2, <3>3, HeldAsDebt
  <2> QED
    BY <2>1, <2>2
<1> QED
  BY <1>1, <1>2

\* Every step keeps the quota's count exact.
LEMMA FootprintStep ==
  ASSUME Shape, Leased, OneHandle, Born, Uploads, Debts, Claims, FootprintExact, [Next]_vars
  PROVE  FootprintExact'
<1> USE DEF regVars, slotVars, bornVars, genVars, quotaVars, sweepVars,
            readVars, procVars
<1>1. ASSUME NEW p \in Procs,
             CreateAcquire(p) \/ OpenAcquire(p) \/ StatAcquire(p) \/
             DeleteAcquire(p) \/ ReapAcquire(p)
      PROVE  FootprintExact'
  <2>1. current' = current /\ live' = live
    BY <1>1, AcquirePointers
       DEF CreateAcquire, OpenAcquire, StatAcquire, DeleteAcquire,
           ReapAcquire
  <2> QED
    BY <1>1, <2>1, SameHeld
       DEF CreateAcquire, OpenAcquire, StatAcquire, DeleteAcquire,
           ReapAcquire
<1>2. ASSUME NEW p \in Procs,
             CreateReject(p) \/ CreateNoSpace(p) \/ PressureGivesUp(p) \/
             CloseStamp(p) \/ CloseFinalize(p) \/ CloseFinish(p) \/ Abort(p) \/
             DiscardFail(p) \/ OpenPark(p) \/ OpenWake(p)
      PROVE  FootprintExact'
  BY <1>2, SameHeld
     DEF CreateReject, CreateNoSpace, PressureGivesUp, CloseStamp,
         CloseFinalize, CloseFinish, Abort, DiscardFail, OpenPark, OpenWake
<1>3. ASSUME NEW p \in Procs,
             OpenError(p) \/ OpenPlain(p) \/ CloseReader(p) \/ StatPeek(p) \/
             Cancel(p) \/ Elapse(p) \/ SweepSnapshot(p) \/ SweepPeek(p) \/
             Remove(p) \/ Release(p)
      PROVE  FootprintExact'
  BY <1>3, SameHeld
     DEF OpenError, OpenPlain, CloseReader, StatPeek, Cancel, Elapse,
         SweepSnapshot, SweepPeek, Remove, Release
<1>4. ASSUME NEW w \in Procs, w \in Writers,
             CreateInstall(w)
      PROVE  FootprintExact'
  <2>1. hnd[w] \in Handles
    BY <1>4, LeasedHandle DEF CreateInstall, Unleased
  <2> PICK g \in Gens : g = minted + 1
    BY <1>4, ConstantsAssumption DEF CreateInstall, Shape, Gens
  <2>2. state[g] = "unborn"
    <3>1. g > minted
      BY DEF Shape, Gens
    <3> QED
      BY <3>1 DEF Born
  <2>3. /\ state' = [state EXCEPT ![g] = "live"] /\ live[hnd[w]] = 0
        /\ live' = [live EXCEPT ![hnd[w]] = g] /\ current' = current /\ owed' = owed
    BY <1>4 DEF CreateInstall, busy
  <2>4. g \notin held
    <3>1. g # 0
      BY ConstantsAssumption DEF Gens
    <3>2. ~reachable(g)
      BY <2>2, <3>1 DEF reachable, Born
    <3> QED
      BY <2>2, <3>2 DEF held, Debts, Debt
  <2>5. reachable(g)'
    BY <2>1, <2>3 DEF reachable, Shape
  <2>6. ASSUME NEW f \in Gens, f # g PROVE reachable(f)' <=> reachable(f)
    <3>1. state'[f] = state[f]
      BY <2>3, <2>6 DEF Shape
    <3>2. \A h \in Handles : live'[h] = f <=> live[h] = f
      <4>1. f # 0
        BY ConstantsAssumption DEF Gens
      <4> QED
        BY <2>1, <2>3, <2>6, <4>1 DEF Shape
    <3> QED
      BY <2>3, <3>1, <3>2 DEF reachable
  <2>7. held' = held \cup {g}
    BY <2>3, <2>5, <2>6 DEF held
  <2>8. Cardinality(held') = Cardinality(held) + 1
    BY <2>4, <2>7, HeldFinite, FS_AddElement
  <2> QED
    BY <1>4, <2>8 DEF CreateInstall, FootprintExact
<1>5. ASSUME NEW w \in Procs, w \in Writers, CloseFlip(w)  PROVE FootprintExact'
  <2>1. hnd[w] \in Handles /\ hnd[w] = reg
    BY <1>5, HolderOfReg DEF CloseFlip, Unleased
  <2> PICK m \in Gens : m = mine[w]
    BY <1>5 DEF CloseFlip, Uploads, Uploading, Shape
  <2>2. m = live[reg] /\ m # 0 /\ m # current[reg] /\ state[m] = "live"
    BY <1>5, <2>1, LiveIsNotCurrent DEF CloseFlip, Uploads, Uploading, Born
  <2>3. /\ state' = [state EXCEPT ![m] = "finalized"]
        /\ live' = [live EXCEPT ![reg] = 0]
        /\ current' = [current EXCEPT ![reg] = m]
        /\ owed' = [owed EXCEPT ![w] = superseded(reg)]
        /\ clips' = clips
    BY <1>5, <2>1 DEF CloseFlip
  <2>4. owed[w] = 0
    BY <1>5 DEF CloseFlip, Debts, Debt, Owing
  <2>5. reachable(m) /\ reachable(m)'
    BY <2>1, <2>2, <2>3 DEF reachable, Shape
  <2>6. ASSUME NEW f \in Gens, f # m, ~(f = current[reg] /\ state[f] = "finalized")
        PROVE  reachable(f)' <=> reachable(f)
    <3>1. state'[f] = state[f]
      BY <2>3, <2>6 DEF Shape
    <3>2. \A h \in Handles : live'[h] = f <=> live[h] = f
      BY <2>1, <2>2, <2>3, <2>6, ConstantsAssumption DEF Shape, Gens
    <3>3. \A h \in Handles : current'[h] = f /\ state'[f] = "finalized"
                               <=> current[h] = f /\ state[f] = "finalized"
      BY <2>1, <2>3, <2>6, <3>1 DEF Shape
    <3> QED
      BY <3>2, <3>3 DEF reachable
  <2>7. CASE superseded(reg) = 0
    <3>1. \A f \in Gens : reachable(f)' <=> reachable(f)
      BY <2>5, <2>6, <2>7, ConstantsAssumption DEF superseded, Gens
    <3>2. owed' = owed
      BY <2>3, <2>4, <2>7 DEF Shape
    <3>3. held' = held
      BY <3>1, <3>2 DEF held
    <3> QED
      BY <2>3, <3>3 DEF FootprintExact
  <2>8. CASE superseded(reg) # 0
    <3> PICK g \in Gens : g = superseded(reg)
      BY <2>1, <2>8 DEF superseded, Shape
    <3>1. g = current[reg] /\ state[g] = "finalized"
      BY <2>1, <2>8 DEF superseded, Born
    <3>2. reachable(g)
      BY <2>1, <3>1 DEF reachable
    <3>3. \A f \in Gens : f # g => (reachable(f)' <=> reachable(f))
      BY <2>5, <2>6, <3>1
    <3> QED
      BY <2>3, <2>4, <3>2, <3>3, HeldAsDebt
  <2> QED
    BY <2>7, <2>8
<1>6. ASSUME NEW w \in Procs, w \in Writers, Discard(w)  PROVE FootprintExact'
  <2>1. hnd[w] \in Handles
    BY <1>6, LeasedHandle DEF Discard, Unleased
  <2> PICK g \in Gens : g = mine[w]
    BY <1>6 DEF Discard, Uploads, Uploading, Shape
  <2>2. g = live[hnd[w]] /\ owed[w] = 0
    BY <1>6 DEF Discard, Uploads, Uploading, Debts, Debt, Owing
  <2>3. /\ live' = [live EXCEPT ![hnd[w]] = 0] /\ current' = current /\ state' = state
        /\ owed' = [owed EXCEPT ![w] = g] /\ clips' = clips
    BY <1>6 DEF Discard
  <2>4. reachable(g)
    BY <2>1, <2>2 DEF reachable
  <2>5. \A f \in Gens : f # g => (reachable(f)' <=> reachable(f))
    <3> SUFFICES ASSUME NEW f \in Gens, f # g PROVE reachable(f)' <=> reachable(f)
      OBVIOUS
    <3>1. f # 0
      BY ConstantsAssumption DEF Gens
    <3>2. \A h \in Handles : live'[h] = f <=> live[h] = f
      BY <2>1, <2>2, <2>3, <3>1 DEF Shape
    <3> QED
      BY <2>3, <3>2 DEF reachable
  <2> QED
    BY <2>2, <2>3, <2>4, <2>5, HeldAsDebt
<1>7. ASSUME NEW r \in Procs, r \in Readers, OpenClaim(r)  PROVE FootprintExact'
  <2>1. hnd[r] \in Handles /\ owed[r] = 0
    BY <1>7, LeasedHandle DEF OpenClaim, Unleased, Debts, Debt, Owing
  <2>2. PICK m \in modesOf(r) :
          /\ target(r, m) # 0 /\ state[target(r, m)] = "finalized" /\ consume[target(r, m)]
          /\ state' = [state EXCEPT ![target(r, m)] = "consumed"]
          /\ owed' = [owed EXCEPT ![r] = target(r, m)]
    BY <1>7 DEF OpenClaim, claimedState
  <2> PICK g \in Gens : g = target(r, m)
    BY <1>7, <2>1, <2>2, TargetFacts
  <2>3. g = current[hnd[r]] /\ current' = current /\ live' = live /\ clips' = clips
    BY <1>7, <2>1, <2>2, TargetFacts DEF OpenClaim
  <2>4. reachable(g)
    BY <2>1, <2>2, <2>3 DEF reachable
  <2>5. \A f \in Gens : f # g => (reachable(f)' <=> reachable(f))
    BY <2>2, <2>3 DEF reachable, Shape
  <2> QED
    BY <2>1, <2>2, <2>3, <2>4, <2>5, HeldAsDebt
<1>8. ASSUME NEW r \in Procs, r \in Readers,
             CleanupClear(r)
      PROVE  FootprintExact'
  <2>1. hnd[r] \in Handles
    BY <1>8, LeasedHandle DEF CleanupClear, Unleased
  <2>2. state[mine[r]] = "consumed"
    BY <1>8 DEF CleanupClear, Claims, Claim
  <2>3. /\ current' = [current EXCEPT ![hnd[r]] = cleared(hnd[r], mine[r])]
        /\ live' = live /\ state' = state /\ owed' = owed /\ clips' = clips
    BY <1>8 DEF CleanupClear
  <2>4. \A f \in Gens : reachable(f)' <=> reachable(f)
    <3> SUFFICES ASSUME NEW f \in Gens PROVE reachable(f)' <=> reachable(f)
      OBVIOUS
    <3>1. f # 0
      BY ConstantsAssumption DEF Gens
    <3>2. \A h \in Handles : current'[h] = f /\ state[f] = "finalized"
                               <=> current[h] = f /\ state[f] = "finalized"
      BY <2>1, <2>2, <2>3, <3>1 DEF cleared, Shape
    <3> QED
      BY <2>3, <3>2 DEF reachable
  <2>5. held' = held
    BY <2>3, <2>4 DEF held
  <2> QED
    BY <2>3, <2>5 DEF FootprintExact
<1>9. ASSUME NEW d \in Procs, d \in Deleters,
             DeleteCommit(d)
      PROVE  FootprintExact'
  <2>1. hnd[d] = reg /\ reg \in Handles
    BY <1>9, HolderOfReg DEF DeleteCommit, Unleased
  <2>2. owed[d] = 0 /\ live' = live /\ state' = state /\ clips' = clips
    BY <1>9 DEF DeleteCommit, Debts, Debt, Owing
  <2> DEFINE g == presentCurrent(reg, at[d])
  <2>3. g # 0 => g \in Gens /\ g = current[reg] /\ state[g] = "finalized"
    BY <2>1, ResolveFacts
  <2>4. IF g # 0 THEN Retire(d, g) ELSE Spare(d)
    BY <1>9, <2>1 DEF DeleteCommit
  <2> QED
    BY <2>1, <2>2, <2>3, <2>4, RetireHeld
<1>10. ASSUME NEW p \in Procs, p \in Sweepers,
              ReapRecheck(p)
       PROVE  FootprintExact'
  <2>1. hnd[p] = reg /\ reg \in Handles
    BY <1>10, HolderOfReg DEF ReapRecheck, Unleased
  <2>2. owed[p] = 0 /\ live' = live /\ state' = state /\ clips' = clips
    BY <1>10 DEF ReapRecheck, Debts, Debt, Owing
  <2> DEFINE g == reapable(reg, at[p], mine[p])
  <2>3. g # 0 => g \in Gens /\ g = current[reg] /\ state[g] = "finalized"
    BY <2>1, ResolveFacts DEF reapable
  <2>4. IF g # 0 THEN Retire(p, g) ELSE Spare(p)
    BY <1>10, <2>1 DEF ReapRecheck
  <2> QED
    BY <2>1, <2>2, <2>3, <2>4, RetireHeld
<1>11. ASSUME NEW p \in Procs, ReleaseGen(p)  PROVE FootprintExact'
  <2> PICK g \in Gens : g = owed[p]
    BY <1>11 DEF ReleaseGen, Debts, Debt, Shape
  <2>1. ~reachable(g) /\ \A q \in Procs : owed[q] = g => q = p
    BY DEF Debts, Debt
  <2>2. owed' = [owed EXCEPT ![p] = 0] /\ current' = current /\ live' = live /\ state' = state
    BY <1>11 DEF ReleaseGen
  <2>3. \A f : reachable(f)' <=> reachable(f)
    BY <2>2 DEF reachable
  <2>4. held' = held \ {g}
    <3>1. \A q \in Procs : \A f \in Gens : owed'[q] = f <=> owed[q] = f /\ f # g
      BY <2>1, <2>2, ConstantsAssumption DEF Shape, Gens
    <3> QED
      BY <2>1, <2>3, <3>1 DEF held
  <2>5. g \in held
    BY DEF held
  <2>6. Cardinality(held') = Cardinality(held) - 1
    BY <2>4, <2>5, HeldFinite, FS_RemoveElement
  <2> QED
    BY <1>11, <2>6, HeldFinite DEF ReleaseGen, FootprintExact
<1>12. ASSUME Tick  PROVE FootprintExact'
  BY <1>12, SameHeld DEF Tick
<1>13. ASSUME UNCHANGED vars  PROVE FootprintExact'
  BY <1>13, SameHeld DEF vars
<1> QED
  BY <1>1, <1>2, <1>3, <1>4, <1>5, <1>6, <1>7, <1>8, <1>9, <1>10, <1>11,
     <1>12, <1>13
     DEF Next, WriterStep, ReaderStep, SweepStep, Tail, Procs, Sweepers

-----------------------------------------------------------------------------
(* Deliveries, homes and logs *)

\* The steps that leave every generation's state, options, deliveries, log and
\* home alone: all but seven.
Quiet == /\ minted' = minted /\ state' = state /\ consume' = consume /\ delivered' = delivered
         /\ log' = log /\ home' = home

GenStep ==
  \/ \E w \in Writers : CreateInstall(w) \/ CloseFlip(w) \/ CloseFinish(w) \/ DiscardFail(w)
  \/ \E r \in Readers : OpenPlain(r) \/ OpenClaim(r)
  \/ \E p \in Procs : Remove(p)

\* Only those seven touch a generation's record.
LEMMA GenStepOrQuiet ==
  ASSUME [Next]_vars
  PROVE  Quiet \/ GenStep
<1> USE DEF regVars, slotVars, bornVars, genVars, quotaVars, sweepVars,
            readVars, procVars
<1>1. ASSUME NEW p \in Procs,
             CreateAcquire(p) \/ CreateReject(p) \/ CreateNoSpace(p) \/
             PressureGivesUp(p) \/ CloseStamp(p) \/ CloseFinalize(p) \/
             Abort(p) \/ Discard(p) \/ OpenAcquire(p) \/ OpenPark(p)
      PROVE  Quiet \/ GenStep
  BY <1>1
     DEF CreateAcquire, CreateReject, CreateNoSpace, PressureGivesUp,
         CloseStamp, CloseFinalize, Abort, Discard, OpenAcquire, OpenPark,
         Quiet
<1>2. ASSUME NEW p \in Procs,
             OpenWake(p) \/ OpenError(p) \/ CloseReader(p) \/ CleanupClear(p)
             \/ StatAcquire(p) \/ StatPeek(p) \/ Cancel(p) \/ Elapse(p) \/
             DeleteAcquire(p) \/ DeleteCommit(p)
      PROVE  Quiet \/ GenStep
  BY <1>2
     DEF OpenWake, OpenError, CloseReader, CleanupClear, StatAcquire,
         StatPeek, Cancel, Elapse, DeleteAcquire, DeleteCommit, Quiet
<1>3. ASSUME NEW p \in Procs,
             SweepSnapshot(p) \/ SweepPeek(p) \/ ReapAcquire(p) \/
             ReapRecheck(p) \/ ReleaseGen(p) \/ Release(p)
      PROVE  Quiet \/ GenStep
  BY <1>3
     DEF SweepSnapshot, SweepPeek, ReapAcquire, ReapRecheck, ReleaseGen,
         Release, Quiet
<1>4. ASSUME NEW w \in Procs, w \in Writers,
             CreateInstall(w)
      PROVE  Quiet \/ GenStep
  BY <1>4 DEF GenStep
<1>5. ASSUME NEW w \in Procs, w \in Writers,
             CloseFlip(w)
      PROVE  Quiet \/ GenStep
  BY <1>5 DEF GenStep
<1>6. ASSUME NEW w \in Procs, w \in Writers,
             CloseFinish(w)
      PROVE  Quiet \/ GenStep
  BY <1>6 DEF GenStep
<1>7. ASSUME NEW w \in Procs, w \in Writers,
             DiscardFail(w)
      PROVE  Quiet \/ GenStep
  BY <1>7 DEF GenStep
<1>8. ASSUME NEW r \in Procs, r \in Readers,
             OpenPlain(r)
      PROVE  Quiet \/ GenStep
  BY <1>8 DEF GenStep
<1>9. ASSUME NEW r \in Procs, r \in Readers,
             OpenClaim(r)
      PROVE  Quiet \/ GenStep
  BY <1>9 DEF GenStep
<1>10. ASSUME NEW p \in Procs, Remove(p)  PROVE Quiet \/ GenStep
  BY <1>10 DEF GenStep
<1>11. ASSUME Tick  PROVE Quiet \/ GenStep
  BY <1>11 DEF Tick, Quiet
<1>12. ASSUME UNCHANGED vars  PROVE Quiet \/ GenStep
  BY <1>12 DEF vars, Quiet
<1> QED
  BY <1>1, <1>2, <1>3, <1>4, <1>5, <1>6, <1>7, <1>8, <1>9, <1>10, <1>11,
     <1>12
     DEF Next, WriterStep, ReaderStep, SweepStep, Tail, Procs, Sweepers

\* A step delivers a consume-once generation only by claiming it.
LEMMA DeliveryStep ==
  ASSUME Shape, Leased, Born, Uploads, Undelivered, AtMostOnce, [Next]_vars
  PROVE  Undelivered' /\ AtMostOnce'
<1> USE DEF regVars, slotVars, bornVars, genVars, quotaVars, sweepVars, readVars, procVars
<1>1. CASE Quiet
  BY <1>1 DEF Quiet, Undelivered, AtMostOnce
<1>2. ASSUME NEW w \in Procs, w \in Writers, CreateInstall(w)  PROVE Undelivered' /\ AtMostOnce'
  <2> PICK g \in Gens : g = minted + 1
    BY <1>2, ConstantsAssumption DEF CreateInstall, Shape, Gens
  <2>1. state[g] = "unborn"
    <3>1. g > minted
      BY DEF Shape, Gens
    <3> QED
      BY <3>1 DEF Born
  <2>2. /\ state' = [state EXCEPT ![g] = "live"] /\ delivered' = delivered
        /\ \A f \in Gens : f # g => consume'[f] = consume[f]
    BY <1>2 DEF CreateInstall, Shape
  <2>3. delivered[g] = 0
    BY <2>1 DEF Undelivered
  <2> QED
    BY <2>2, <2>3 DEF Undelivered, AtMostOnce, Shape
<1>3. ASSUME NEW w \in Procs, w \in Writers, CloseFlip(w)  PROVE Undelivered' /\ AtMostOnce'
  <2>1. mine[w] \in Gens /\ state[mine[w]] = "live"
    <3>1. hnd[w] \in Handles
      BY <1>3, LeasedHandle DEF CloseFlip, Unleased
    <3> QED
      BY <1>3, <3>1 DEF CloseFlip, Uploads, Uploading, Born, Shape
  <2> QED
    BY <1>3, <2>1 DEF CloseFlip, Undelivered, AtMostOnce, Shape
<1>4. ASSUME NEW w \in Procs, w \in Writers, CloseFinish(w) \/ DiscardFail(w)
      PROVE  Undelivered' /\ AtMostOnce'
  BY <1>4 DEF CloseFinish, DiscardFail, Undelivered, AtMostOnce
<1>5. ASSUME NEW r \in Procs, r \in Readers, OpenPlain(r)  PROVE Undelivered' /\ AtMostOnce'
  <2>1. hnd[r] \in Handles
    BY <1>5, LeasedHandle DEF OpenPlain, Unleased
  <2>2. PICK m \in modesOf(r) :
          /\ target(r, m) # 0
          /\ ~(state[target(r, m)] = "finalized" /\ consume[target(r, m)])
          /\ delivered' = [delivered EXCEPT ![target(r, m)] = counted(target(r, m))]
    BY <1>5 DEF OpenPlain
  <2>3. ~consume[target(r, m)]
    BY <1>5, <2>1, <2>2, TargetFacts
  <2>4. delivered' = delivered
    BY <2>2, <2>3 DEF counted, Shape
  <2> QED
    BY <1>5, <2>4 DEF OpenPlain, Undelivered, AtMostOnce
<1>6. ASSUME NEW r \in Procs, r \in Readers, OpenClaim(r)  PROVE Undelivered' /\ AtMostOnce'
  <2>1. hnd[r] \in Handles
    BY <1>6, LeasedHandle DEF OpenClaim, Unleased
  <2>2. PICK m \in modesOf(r) :
          /\ target(r, m) # 0
          /\ state[target(r, m)] = "finalized" /\ consume[target(r, m)]
          /\ state' = [state EXCEPT ![target(r, m)] = "consumed"]
          /\ \/ delivered' = [delivered EXCEPT ![target(r, m)] = counted(target(r, m))]
             \/ delivered' = delivered
    BY <1>6 DEF OpenClaim, claimedState
  <2> PICK g \in Gens : g = target(r, m)
    BY <1>6, <2>1, <2>2, TargetFacts
  <2>3. delivered[g] = 0 /\ counted(g) = 1
    BY <2>2 DEF Undelivered, counted
  <2>4. consume' = consume
    BY <1>6 DEF OpenClaim
  <2> QED
    BY <2>2, <2>3, <2>4 DEF Undelivered, AtMostOnce, Shape
<1>7. ASSUME NEW p \in Procs, Remove(p)  PROVE Undelivered' /\ AtMostOnce'
  BY <1>7 DEF Remove, Undelivered, AtMostOnce
<1> QED
  BY <1>1, <1>2, <1>3, <1>4, <1>5, <1>6, <1>7, GenStepOrQuiet DEF GenStep, Procs

\* What can be reached keeps its home: only a generation that is owed, hence
\* out of reach, loses it.
LEMMA HomeStep ==
  ASSUME Shape, Leased, OneHandle, Born, Born', Uploads, Debts, Homed, [Next]_vars
  PROVE  Homed'
<1> USE DEF regVars, slotVars, bornVars, genVars, quotaVars, sweepVars, readVars, procVars
<1>1. SUFFICES ASSUME NEW g \in Gens, reachable(g)' PROVE home'[g] = "present"
  BY DEF Homed
<1>2. CASE state[g] # "unborn"
  <2>1. reachable(g)
    BY <1>1, <1>2, SinksStep DEF Sinks
  <2>2. home[g] = "present"
    BY <2>1 DEF Homed
  <2>3. CASE home' = home
    BY <2>2, <2>3
  <2>4. ASSUME NEW p \in Procs, Remove(p) PROVE home'[g] = "present"
    <3>1. owed[p] # g /\ \E left \in {"gone", "left"} : home' = [home EXCEPT ![owed[p]] = left]
      BY <2>1, <2>4 DEF Debts, Debt, Remove
    <3> QED
      BY <2>2, <3>1 DEF Shape
  <2>5. ASSUME NEW w \in Writers, CreateInstall(w) PROVE home'[g] = "present"
    BY <2>2, <2>5 DEF CreateInstall, Shape
  <2> QED
    BY <2>3, <2>4, <2>5, GenStepOrQuiet
       DEF GenStep, Quiet, CloseFlip, CloseFinish, DiscardFail, OpenPlain, OpenClaim
<1>3. CASE state[g] = "unborn"
  <2>1. state'[g] # "unborn"
    <3>1. g # 0
      BY ConstantsAssumption DEF Gens
    <3>2. PICK h \in Handles : live'[h] = g \/ (current'[h] = g /\ state'[g] = "finalized")
      BY <1>1 DEF reachable
    <3> QED
      BY <3>1, <3>2 DEF Born
  <2>2. minted' # minted
    BY <1>3, <2>1 DEF Born
  <2>3. PICK w \in Writers : CreateInstall(w)
    BY <2>2, GenStepOrQuiet
       DEF GenStep, Quiet, CloseFlip, CloseFinish, DiscardFail, OpenPlain, OpenClaim, Remove
  <2>4. state' = [state EXCEPT ![minted + 1] = "live"] /\ home' = [home EXCEPT ![minted + 1] = "present"]
    BY <2>3 DEF CreateInstall
  <2>5. g = minted + 1
    BY <1>3, <2>1, <2>4 DEF Shape
  <2> QED
    BY <2>4, <2>5 DEF Shape
<1> QED
  BY <1>2, <1>3

\* Every step keeps the logs in line with the flips.
LEMMA LogsStep ==
  ASSUME Shape, Leased, OneHandle, Born, Uploads, Debts, Logs, [Next]_vars
  PROVE  Logs'
<1> USE DEF regVars, slotVars, bornVars, genVars, quotaVars, sweepVars,
            readVars, procVars
<1>1. ASSUME NEW p \in Procs,
             CreateAcquire(p) \/ OpenAcquire(p) \/ StatAcquire(p) \/
             DeleteAcquire(p) \/ ReapAcquire(p)
      PROVE  Logs'
  <2>1. current' = current /\ live' = live
    BY <1>1, AcquirePointers
       DEF CreateAcquire, OpenAcquire, StatAcquire, DeleteAcquire,
           ReapAcquire
  <2> QED
    BY <1>1, <2>1
       DEF CreateAcquire, OpenAcquire, StatAcquire, DeleteAcquire,
           ReapAcquire, Logs, LogsOfGens, LogsOfLive, LogsOfEnds, Shape
<1>2. ASSUME NEW p \in Procs,
             CreateReject(p) \/ CreateNoSpace(p) \/ PressureGivesUp(p) \/
             CloseStamp(p) \/ CloseFinalize(p) \/ Abort(p)
      PROVE  Logs'
  BY <1>2
     DEF CreateReject, CreateNoSpace, PressureGivesUp, CloseStamp,
         CloseFinalize, Abort, Logs, LogsOfGens, LogsOfLive, LogsOfEnds,
         Shape
<1>3. ASSUME NEW p \in Procs,
             OpenPark(p) \/ OpenWake(p) \/ OpenError(p) \/ OpenPlain(p) \/
             CloseReader(p) \/ CleanupClear(p)
      PROVE  Logs'
  BY <1>3
     DEF OpenPark, OpenWake, OpenError, OpenPlain, CloseReader,
         CleanupClear, Logs, LogsOfGens, LogsOfLive, LogsOfEnds, Shape
<1>4. ASSUME NEW p \in Procs,
             StatPeek(p) \/ Cancel(p) \/ Elapse(p) \/ DeleteCommit(p) \/
             SweepSnapshot(p) \/ SweepPeek(p)
      PROVE  Logs'
  BY <1>4
     DEF StatPeek, Cancel, Elapse, DeleteCommit, SweepSnapshot, SweepPeek,
         Logs, LogsOfGens, LogsOfLive, LogsOfEnds, Shape, Retire, Spare,
         afterMiss
<1>5. ASSUME NEW p \in Procs,
             ReapRecheck(p) \/ Remove(p) \/ ReleaseGen(p) \/ Release(p)
      PROVE  Logs'
  BY <1>5
     DEF ReapRecheck, Remove, ReleaseGen, Release, Retire, Spare, Logs,
         LogsOfGens, LogsOfLive, LogsOfEnds, Shape
<1>6. ASSUME NEW w \in Procs, w \in Writers, CreateInstall(w)  PROVE Logs'
  <2>1. hnd[w] \in Handles
    BY <1>6, LeasedHandle DEF CreateInstall, Unleased
  <2> PICK g \in Gens : g = minted + 1
    BY <1>6, ConstantsAssumption DEF CreateInstall, Shape, Gens
  <2>2. state[g] = "unborn" /\ log[g] = "open"
    <3>1. g > minted
      BY DEF Shape, Gens
    <3> QED
      BY <3>1 DEF Born, Logs, LogsOfGens
  <2>3. /\ state' = [state EXCEPT ![g] = "live"] /\ log' = log
        /\ live' = [live EXCEPT ![hnd[w]] = g]
        /\ mine' = [mine EXCEPT ![w] = g] /\ owed' = owed
        /\ pc' = [pc EXCEPT ![w] = "writing"]
    BY <1>6 DEF CreateInstall
  <2>4. LogsOfGens'
    BY <2>2, <2>3 DEF Logs, LogsOfGens, Shape
  <2>5. LogsOfLive'
    BY <2>1, <2>2, <2>3 DEF Logs, LogsOfLive, Shape
  <2>6. LogsOfEnds'
    BY <2>2, <2>3 DEF Logs, LogsOfEnds, Shape
  <2> QED
    BY <2>4, <2>5, <2>6 DEF Logs
<1>7. ASSUME NEW w \in Procs, w \in Writers, CloseFlip(w)  PROVE Logs'
  <2>1. hnd[w] \in Handles /\ hnd[w] = reg
    BY <1>7, HolderOfReg DEF CloseFlip, Unleased
  <2> PICK m \in Gens : m = mine[w]
    BY <1>7 DEF CloseFlip, Uploads, Uploading, Shape
  <2>2. m = live[reg] /\ m # 0 /\ state[m] = "live" /\ log[m] = "open"
    BY <1>7, <2>1 DEF CloseFlip, Uploads, Uploading, Born, Logs, LogsOfLive
  <2>3. /\ state' = [state EXCEPT ![m] = "finalized"] /\ log' = log
        /\ live' = [live EXCEPT ![reg] = 0]
        /\ mine' = mine /\ pc' = [pc EXCEPT ![w] = "finish"]
        /\ \A q \in Procs : q # w => owed'[q] = owed[q]
    BY <1>7, <2>1 DEF CloseFlip, Shape
  <2>4. reachable(m)
    BY <2>1, <2>2 DEF reachable
  <2>5. \A q \in Procs : owed[q] # m
    BY <2>4 DEF Debts, Debt
  <2>7. LogsOfGens'
    BY <2>2, <2>3 DEF Logs, LogsOfGens, Shape
  <2>8. LogsOfLive'
    BY <2>1, <2>3 DEF LogsOfLive, OneHandle, Shape
  <2>9. LogsOfEnds'
    <3> SUFFICES ASSUME NEW q \in Procs
                 PROVE  (/\ pc[q] = "finish" => mine[q] # 0 /\ state[mine[q]] \in {"finalized", "consumed"}
                         /\ pc[q] = "fail" => mine[q] # 0 /\ mine[q] = owed[q] /\ state[mine[q]] = "live")'
      BY DEF LogsOfEnds
    <3>1. CASE q = w
      BY <2>2, <2>3, <3>1 DEF Shape
    <3>2. CASE q # w
      <4>1. pc'[q] = pc[q] /\ mine'[q] = mine[q] /\ owed'[q] = owed[q]
        BY <2>3, <3>2 DEF Shape
      <4>2. pc[q] \in {"finish", "fail"} => mine[q] # m /\ mine[q] \in Gens
        BY <2>2, <2>5 DEF Logs, LogsOfEnds, Shape
      <4>3. pc[q] \in {"finish", "fail"} => state'[mine[q]] = state[mine[q]]
        BY <2>3, <4>2 DEF Shape
      <4> QED
        BY <4>1, <4>3 DEF Logs, LogsOfEnds
    <3> QED
      BY <3>1, <3>2
  <2> QED
    BY <2>7, <2>8, <2>9 DEF Logs
<1>8. ASSUME NEW w \in Procs, w \in Writers, CloseFinish(w)  PROVE Logs'
  <2> PICK m \in Gens : m = mine[w]
    BY <1>8 DEF CloseFinish, Logs, LogsOfEnds, Shape
  <2>2. state[m] \in {"finalized", "consumed"}
    BY <1>8 DEF CloseFinish, Logs, LogsOfEnds
  <2>3. /\ state' = state /\ log' = [log EXCEPT ![m] = "closed"] /\ live' = live
        /\ mine' = [mine EXCEPT ![w] = 0] /\ owed' = owed
        /\ \A q \in Procs : q # w => pc'[q] = pc[q]
        /\ pc'[w] \in {"remove", "release"}
    BY <1>8 DEF CloseFinish, Shape
  <2>7. LogsOfGens'
    BY <2>2, <2>3 DEF Logs, LogsOfGens, Shape
  <2>8. LogsOfLive'
    BY <2>2, <2>3 DEF Logs, LogsOfLive, Born, Shape
  <2>9. LogsOfEnds'
    BY <2>3 DEF Logs, LogsOfEnds, Shape
  <2> QED
    BY <2>7, <2>8, <2>9 DEF Logs
<1>9. ASSUME NEW w \in Procs, w \in Writers, Discard(w)  PROVE Logs'
  <2>1. hnd[w] \in Handles /\ hnd[w] = reg
    BY <1>9, HolderOfReg DEF Discard, Unleased
  <2> PICK m \in Gens : m = mine[w]
    BY <1>9 DEF Discard, Uploads, Uploading, Shape
  <2>2. m # 0 /\ state[m] = "live"
    BY <1>9, <2>1 DEF Discard, Uploads, Uploading, Born
  <2>3. /\ state' = state /\ log' = log /\ live' = [live EXCEPT ![reg] = 0]
        /\ mine' = mine /\ owed' = [owed EXCEPT ![w] = m]
        /\ pc' = [pc EXCEPT ![w] = "fail"]
    BY <1>9, <2>1 DEF Discard
  <2>7. LogsOfGens'
    BY <2>3 DEF Logs, LogsOfGens
  <2>8. LogsOfLive'
    BY <2>1, <2>3 DEF LogsOfLive, OneHandle, Shape
  <2>9. LogsOfEnds'
    BY <2>2, <2>3 DEF Logs, LogsOfEnds, Shape
  <2> QED
    BY <2>7, <2>8, <2>9 DEF Logs
<1>10. ASSUME NEW w \in Procs, w \in Writers, DiscardFail(w)  PROVE Logs'
  <2> PICK m \in Gens : m = mine[w]
    BY <1>10 DEF DiscardFail, Logs, LogsOfEnds, Shape
  <2>2. state[m] = "live" /\ m = owed[w]
    BY <1>10 DEF DiscardFail, Logs, LogsOfEnds
  <2>3. /\ state' = state /\ log' = [log EXCEPT ![m] = "aborted"] /\ live' = live
        /\ mine' = [mine EXCEPT ![w] = 0] /\ owed' = owed
        /\ pc' = [pc EXCEPT ![w] = "remove"]
    BY <1>10 DEF DiscardFail
  <2>4. ~reachable(m)
    BY <2>2 DEF Debts, Debt
  <2>5. \A h \in Handles : live[h] # m
    BY <2>4 DEF reachable
  <2>7. LogsOfGens'
    BY <2>2, <2>3 DEF Logs, LogsOfGens, Shape
  <2>8. LogsOfLive'
    BY <2>3, <2>5 DEF Logs, LogsOfLive, Shape
  <2>9. LogsOfEnds'
    BY <2>3 DEF Logs, LogsOfEnds, Shape
  <2> QED
    BY <2>7, <2>8, <2>9 DEF Logs
<1>11. ASSUME NEW r \in Procs, r \in Readers, OpenClaim(r)  PROVE Logs'
  <2>1. hnd[r] \in Handles
    BY <1>11, LeasedHandle DEF OpenClaim, Unleased
  <2>2. PICK m \in modesOf(r) :
          /\ target(r, m) # 0 /\ state[target(r, m)] = "finalized"
          /\ state' = [state EXCEPT ![target(r, m)] = "consumed"]
          /\ mine' = [mine EXCEPT ![r] = target(r, m)]
          /\ owed' = [owed EXCEPT ![r] = target(r, m)]
          /\ pc' \in {[pc EXCEPT ![r] = "streaming"], [pc EXCEPT ![r] = "remove"]}
    BY <1>11 DEF OpenClaim, claimedState
  <2> PICK g \in Gens : g = target(r, m)
    BY <1>11, <2>1, <2>2, TargetFacts
  <2>3. log' = log /\ live' = live
    BY <1>11 DEF OpenClaim
  <2>7. LogsOfGens'
    BY <2>2, <2>3 DEF Logs, LogsOfGens, Shape
  <2>8. LogsOfLive'
    BY <2>3 DEF Logs, LogsOfLive
  <2>9. LogsOfEnds'
    BY <2>2 DEF Logs, LogsOfEnds, Shape
  <2> QED
    BY <2>7, <2>8, <2>9 DEF Logs
<1>12. ASSUME Tick  PROVE Logs'
  BY <1>12 DEF Tick, Logs, LogsOfGens, LogsOfLive, LogsOfEnds, Shape
<1>13. ASSUME UNCHANGED vars  PROVE Logs'
  BY <1>13 DEF vars, Logs, LogsOfGens, LogsOfLive, LogsOfEnds, Shape
<1> QED
  BY <1>1, <1>2, <1>3, <1>4, <1>5, <1>6, <1>7, <1>8, <1>9, <1>10, <1>11,
     <1>12, <1>13
     DEF Next, WriterStep, ReaderStep, SweepStep, Tail, Procs, Sweepers

-----------------------------------------------------------------------------
(* The invariant and what follows from it *)

\* The program starts with nothing held and nothing owed.
LEMMA Initially == Init => IInv
<1> SUFFICES ASSUME Init PROVE IInv
  OBVIOUS
<1>1. Shape
  <2>1. now \in 1..(MaxNow + 1) /\ \A p \in Procs : at[p] \in 0..(MaxNow + 1)
    BY ConstantsAssumption DEF Init
  <2> QED
    BY <2>1 DEF Init, Shape, PCs, States
<1>2. Leased
  BY DEF Init, Leased, Unleased
<1>3. \A h \in Handles : holders(h) = {} /\ ~(\E g \in Gens : current[h] = g \/ live[h] = g)
  BY ConstantsAssumption DEF Init, holders, Gens
<1>4. OneHandle
  BY <1>3, FS_EmptySet DEF Init, OneHandle
<1>5. Born
  BY ConstantsAssumption DEF Init, Born, Gens
<1>6. Uploads /\ Debts /\ Claims
  <2>1. \A g \in Gens : g # 0
    BY ConstantsAssumption DEF Gens
  <2> QED
    BY <2>1 DEF Init, Uploads, Uploading, Debts, Debt, Claims, Claim
<1>7. FootprintExact
  <2>1. \A g \in Gens : ~reachable(g)
    BY <1>3 DEF reachable
  <2>2. held = {}
    BY <2>1, ConstantsAssumption DEF Init, held, Gens
  <2> QED
    BY <2>2, FS_EmptySet DEF Init, FootprintExact
<1>8. Undelivered /\ AtMostOnce
  BY DEF Init, Undelivered, AtMostOnce
<1>9. Homed
  BY <1>3 DEF Homed, reachable
<1>10. Logs
  BY DEF Init, Logs, LogsOfGens, LogsOfLive, LogsOfEnds
<1> QED
  BY <1>1, <1>2, <1>4, <1>5, <1>6, <1>7, <1>8, <1>9, <1>10 DEF IInv, Ownership

\* Every step keeps the invariant.
LEMMA Inductive == IInv /\ [Next]_vars => IInv'
<1> SUFFICES ASSUME IInv, [Next]_vars PROVE IInv'
  OBVIOUS
<1>1. /\ Shape /\ Leased /\ OneHandle /\ Born /\ Uploads /\ Debts /\ Claims
      /\ FootprintExact /\ Undelivered /\ AtMostOnce /\ Homed /\ Logs
  BY DEF IInv, Ownership
<1>2. Shape' /\ Leased' /\ OneHandle'
  BY <1>1, ShapeStep, LeasedStep, HandleStep
<1>3. Born' /\ Uploads' /\ Debts' /\ Claims'
  BY <1>1, BornStep, UploadsStep, DebtsStep, ClaimsStep
<1>4. FootprintExact' /\ Logs' /\ Undelivered' /\ AtMostOnce'
  BY <1>1, FootprintStep, LogsStep, DeliveryStep
<1>5. Homed'
  BY <1>1, <1>3, HomeStep
<1> QED
  BY <1>2, <1>3, <1>4, <1>5 DEF IInv, Ownership

\* The invariant holds of every reachable state of the slot.
THEOREM InvariantHolds == Spec => []IInv
  BY Initially, Inductive, PTL DEF Spec

\* No variable leaves its type; in particular neither the lease count of
\* registry.go nor the clip count of quota.go is ever decremented below zero.
THEOREM TypeCorrect == Spec => []TypeOK
<1>1. IInv => TypeOK
  <2> SUFFICES ASSUME IInv PROVE TypeOK
    OBVIOUS
  <2>1. \A h \in Handles : leases[h] \in Nat
    BY HoldersFinite DEF IInv, Ownership, OneHandle
  <2>2. clips \in Nat
    BY HeldFinite DEF IInv, FootprintExact
  <2> QED
    BY <2>1, <2>2 DEF IInv, Ownership, Shape, TypeOK
<1> QED
  BY <1>1, InvariantHolds, PTL

\* One handle serves the name, however acquire and release interleave.
THEOREM HandleUnique == Spec => []OneHandle
<1>1. IInv => OneHandle
  BY DEF IInv, Ownership
<1> QED
  BY <1>1, InvariantHolds, PTL

\* The clip count is exact: no path frees a generation twice or forgets one.
THEOREM FootprintIsExact == Spec => []FootprintExact
<1>1. IInv => FootprintExact
  BY DEF IInv
<1> QED
  BY <1>1, InvariantHolds, PTL

\* A consume-once clip is delivered at most once, however many Opens race.
THEOREM DeliveredAtMostOnce == Spec => []AtMostOnce
<1>1. IInv => AtMostOnce
  BY DEF IInv
<1> QED
  BY <1>1, InvariantHolds, PTL

\* Whatever a read can resolve to still has its home on the medium.
THEOREM ReadableIsHomed == Spec => []ReadableHasHome
<1>1. IInv => ReadableHasHome
  <2> SUFFICES ASSUME IInv, NEW h \in Handles
               PROVE  /\ live[h] # 0 => home[live[h]] = "present"
                      /\ current[h] # 0 /\ state[current[h]] = "finalized"
                           => home[current[h]] = "present"
    BY DEF ReadableHasHome
  <2>1. live[h] \in Gens \cup {0} /\ current[h] \in Gens \cup {0}
    BY DEF IInv, Ownership, Shape
  <2> QED
    BY <2>1 DEF IInv, Homed, reachable
<1> QED
  BY <1>1, InvariantHolds, PTL

\* A clean end of stream means the value was published, a torn one that it
\* never was.
THEOREM CleanEndMeansPublished == Spec => []EOFMeansPublished
<1>1. IInv => EOFMeansPublished
  BY DEF IInv, Logs, LogsOfGens, EOFMeansPublished
<1> QED
  BY <1>1, InvariantHolds, PTL

\* A generation that stopped being readable never becomes readable again.
THEOREM NothingReturns == Spec => NeverReturns
<1>1. IInv /\ [Next]_vars => [\A g \in 1..minted : reachable(g)' => reachable(g)]_vars
  <2> SUFFICES ASSUME IInv, [Next]_vars, NEW g \in 1..minted, reachable(g)'
               PROVE  reachable(g)
    OBVIOUS
  <2>1. g \in Gens /\ ~(g > minted)
    BY ConstantsAssumption DEF IInv, Ownership, Shape, Gens
  <2>2. state[g] # "unborn"
    BY <2>1 DEF IInv, Ownership, Born
  <2>3. Sinks
    BY SinksStep DEF IInv, Ownership
  <2> QED
    BY <2>1, <2>2, <2>3 DEF Sinks
<1> QED
  BY <1>1, InvariantHolds, PTL DEF Spec, NeverReturns

-----------------------------------------------------------------------------
(* Steps by what they do to the name's pointers *)

\* Who moves a pointer or a generation's state: seven steps.
Still == current' = current /\ live' = live /\ state' = state /\ minted' = minted

Moves ==
  \/ \E w \in Writers : CreateInstall(w) \/ CloseFlip(w) \/ Discard(w)
  \/ \E r \in Readers : OpenClaim(r) \/ CleanupClear(r)
  \/ \E d \in Deleters : DeleteCommit(d)
  \/ \E p \in Sweepers : ReapRecheck(p)

\* Everybody else leaves the pointers still.
LEMMA StillOrMoves ==
  ASSUME Shape, OneHandle, [Next]_vars
  PROVE  Still \/ Moves
<1> USE DEF regVars, slotVars, bornVars, genVars, quotaVars, sweepVars,
            readVars, procVars
<1>1. ASSUME NEW p \in Procs,
             CreateAcquire(p) \/ OpenAcquire(p) \/ StatAcquire(p) \/
             DeleteAcquire(p) \/ ReapAcquire(p)
      PROVE  Still
  <2>1. Acquire(p) /\ state' = state /\ minted' = minted
    BY <1>1
       DEF CreateAcquire, OpenAcquire, StatAcquire, DeleteAcquire, ReapAcquire
  <2> QED
    BY <2>1, AcquirePointers DEF Still
<1>2. ASSUME NEW p \in Procs,
             CreateReject(p) \/ CreateNoSpace(p) \/ PressureGivesUp(p) \/
             CloseStamp(p) \/ CloseFinalize(p) \/ CloseFinish(p) \/ Abort(p) \/
             DiscardFail(p) \/ OpenPark(p) \/ OpenWake(p)
      PROVE  Still
  BY <1>2
     DEF CreateReject, CreateNoSpace, PressureGivesUp, CloseStamp,
         CloseFinalize, CloseFinish, Abort, DiscardFail, OpenPark, OpenWake,
         Still
<1>3. ASSUME NEW p \in Procs,
             OpenError(p) \/ OpenPlain(p) \/ CloseReader(p) \/ StatPeek(p) \/
             Cancel(p) \/ Elapse(p) \/ SweepSnapshot(p) \/ SweepPeek(p) \/
             Remove(p) \/ ReleaseGen(p) \/ Release(p)
      PROVE  Still
  BY <1>3
     DEF OpenError, OpenPlain, CloseReader, StatPeek, Cancel, Elapse,
         SweepSnapshot, SweepPeek, Remove, ReleaseGen, Release, Still
<1>4. ASSUME Tick \/ UNCHANGED vars  PROVE Still
  BY <1>4 DEF Tick, vars, Still
<1> QED
  BY <1>1, <1>2, <1>3, <1>4
     DEF Next, WriterStep, ReaderStep, SweepStep, Tail, Procs, Sweepers, Moves

\* An install: the name's handle gets the next generation as its live one.
LEMMA InstallFacts ==
  ASSUME Ownership, NEW w \in Writers, CreateInstall(w)
  PROVE  /\ w \in Procs /\ hnd[w] = reg /\ reg \in Handles /\ live[reg] = 0
         /\ minted + 1 \in Gens /\ state[minted + 1] = "unborn"
         /\ current' = current /\ live' = [live EXCEPT ![reg] = minted + 1]
         /\ state' = [state EXCEPT ![minted + 1] = "live"] /\ minted' = minted + 1
         /\ reg' = reg /\ armed' = wake(reg)
<1> USE DEF regVars, slotVars, bornVars, genVars, quotaVars, sweepVars,
            readVars, procVars
<1>0. w \in Procs
  BY DEF Procs
<1>1. hnd[w] = reg /\ reg \in Handles
  BY <1>0, HolderOfReg DEF CreateInstall, Unleased, Ownership
<1>2. minted + 1 \in Gens /\ minted + 1 > minted
  BY ConstantsAssumption DEF CreateInstall, Ownership, Shape, Gens
<1> QED
  BY <1>0, <1>1, <1>2 DEF CreateInstall, Ownership, Born, busy

\* A flip: the live generation becomes the current one.
LEMMA FlipFacts ==
  ASSUME Ownership, NEW w \in Writers, CloseFlip(w)
  PROVE  /\ w \in Procs /\ hnd[w] = reg /\ reg \in Handles
         /\ mine[w] \in Gens /\ live[reg] = mine[w] /\ state[mine[w]] = "live"
         /\ current' = [current EXCEPT ![reg] = mine[w]]
         /\ live' = [live EXCEPT ![reg] = 0]
         /\ state' = [state EXCEPT ![mine[w]] = "finalized"] /\ minted' = minted
         /\ reg' = reg /\ armed' = wake(reg)
         /\ owed[w] = 0 /\ owed' = [owed EXCEPT ![w] = superseded(reg)]
<1> USE DEF regVars, slotVars, bornVars, genVars, quotaVars, sweepVars,
            readVars, procVars
<1>0. w \in Procs
  BY DEF Procs
<1>1. hnd[w] = reg /\ reg \in Handles
  BY <1>0, HolderOfReg DEF CloseFlip, Unleased, Ownership
<1>2. mine[w] \in Gens /\ live[reg] = mine[w] /\ mine[w] # 0
  BY <1>0, <1>1 DEF CloseFlip, Uploads, Uploading, Shape, Ownership
<1>3. state[mine[w]] = "live"
  BY <1>1, <1>2 DEF Ownership, Born
<1>4. owed[w] = 0
  BY <1>0 DEF CloseFlip, Ownership, Debts, Debt, Owing
<1> QED
  BY <1>0, <1>1, <1>2, <1>3, <1>4 DEF CloseFlip

\* A discard: the live generation goes, and its writer owes the reclaim.
LEMMA DiscardFacts ==
  ASSUME Ownership, NEW w \in Writers, Discard(w)
  PROVE  /\ w \in Procs /\ hnd[w] = reg /\ reg \in Handles
         /\ mine[w] \in Gens /\ live[reg] = mine[w]
         /\ current' = current /\ state' = state /\ minted' = minted
         /\ live' = [live EXCEPT ![reg] = 0]
         /\ reg' = reg /\ armed' = wake(reg)
         /\ owed' = [owed EXCEPT ![w] = mine[w]]
<1> USE DEF regVars, slotVars, bornVars, genVars, quotaVars, sweepVars,
            readVars, procVars
<1>0. w \in Procs
  BY DEF Procs
<1>1. hnd[w] = reg /\ reg \in Handles
  BY <1>0, HolderOfReg DEF Discard, Unleased, Ownership
<1>2. mine[w] \in Gens /\ live[reg] = mine[w]
  BY <1>0, <1>1 DEF Discard, Uploads, Uploading, Shape, Ownership
<1> QED
  BY <1>0, <1>1, <1>2 DEF Discard

\* A claim: the present value, consume-once, becomes its reader's.
LEMMA ClaimFacts ==
  ASSUME Ownership, NEW r \in Readers, OpenClaim(r)
  PROVE  /\ r \in Procs /\ hnd[r] = reg /\ reg \in Handles
         /\ current' = current /\ live' = live /\ minted' = minted
         /\ reg' = reg
         /\ \E g \in Gens : /\ g = current[reg] /\ g = presentCurrent(reg, now)
                            /\ state[g] = "finalized" /\ consume[g]
                            /\ state' = [state EXCEPT ![g] = "consumed"]
                            /\ owed' = [owed EXCEPT ![r] = g]
<1> USE DEF regVars, slotVars, bornVars, genVars, quotaVars, sweepVars,
            readVars, procVars
<1>0. r \in Procs
  BY DEF Procs
<1>1. hnd[r] = reg /\ reg \in Handles
  BY <1>0, HolderOfReg DEF OpenClaim, Unleased, Ownership
<1>2. PICK m \in modesOf(r) :
          /\ target(r, m) # 0 /\ state[target(r, m)] = "finalized" /\ consume[target(r, m)]
          /\ state' = [state EXCEPT ![target(r, m)] = "consumed"]
          /\ owed' = [owed EXCEPT ![r] = target(r, m)]
  BY DEF OpenClaim, claimedState
<1>3. target(r, m) \in Gens
  BY <1>1, <1>2, TargetFacts DEF Ownership
<1>4. target(r, m) \in {presentCurrent(reg, now), followable(reg)}
  BY <1>1 DEF target, followResolve, resolveRead
<1>5. target(r, m) # followable(reg)
  BY <1>1, <1>2 DEF followable, Ownership, Born
<1>6. target(r, m) = current[reg]
  BY <1>1, <1>2, <1>4, <1>5, ResolveFacts DEF Ownership
<1> QED
  BY <1>0, <1>1, <1>2, <1>3, <1>4, <1>5, <1>6 DEF OpenClaim

\* A consumed generation's cleanup clears current if it is still there.
LEMMA ClearFacts ==
  ASSUME Ownership, NEW r \in Readers, CleanupClear(r)
  PROVE  /\ r \in Procs /\ hnd[r] = reg /\ reg \in Handles
         /\ live' = live /\ state' = state /\ minted' = minted /\ reg' = reg
         /\ owed' = owed
         /\ \/ current' = current
            \/ /\ current[reg] # 0 /\ state[current[reg]] = "consumed"
               /\ current' = [current EXCEPT ![reg] = 0]
         /\ armed' \in {armed, wake(reg)}
<1> USE DEF regVars, slotVars, bornVars, genVars, quotaVars, sweepVars,
            readVars, procVars
<1>0. r \in Procs
  BY DEF Procs
<1>1. hnd[r] = reg /\ reg \in Handles
  BY <1>0, HolderOfReg DEF CleanupClear, Unleased, Ownership
<1>2. mine[r] # 0 /\ state[mine[r]] = "consumed"
  BY <1>0 DEF CleanupClear, Ownership, Claims, Claim
<1>3. current' = [current EXCEPT ![reg] = cleared(reg, mine[r])]
  BY <1>1 DEF CleanupClear
<1>4. \/ current' = current
      \/ /\ current[reg] # 0 /\ state[current[reg]] = "consumed"
         /\ current' = [current EXCEPT ![reg] = 0]
  <2>1. CASE current[reg] = mine[r]
    BY <1>2, <1>3, <2>1 DEF cleared
  <2>2. CASE current[reg] # mine[r]
    BY <1>3, <2>2 DEF cleared, Ownership, Shape
  <2> QED
    BY <2>1, <2>2
<1>5. armed' \in {armed, wake(reg)}
  BY <1>1 DEF CleanupClear
<1> QED
  BY <1>0, <1>1, <1>4, <1>5 DEF CleanupClear

\* A retirement, by a Delete or by a sweep that saw the value expired: nothing
\* happens, or current goes and its reclaim is owed.
Retires(p) ==
  \E g \in Gens : /\ g = current[reg] /\ state[g] = "finalized"
                  /\ current' = [current EXCEPT ![reg] = 0]
                  /\ armed' = wake(reg)
                  /\ owed' = [owed EXCEPT ![p] = g]
                  /\ p \in Deleters \/ expired(g, at[p])

\* What a Delete or a sweep's recheck does under the gate.
LEMMA RetireFacts ==
  ASSUME Ownership, NEW p,
         \/ p \in Deleters /\ DeleteCommit(p)
         \/ p \in Sweepers /\ ReapRecheck(p)
  PROVE  /\ p \in Procs /\ hnd[p] = reg /\ reg \in Handles
         /\ pc[p] = IF p \in Deleters THEN "delete" ELSE "recheck"
         /\ live' = live /\ state' = state /\ minted' = minted /\ reg' = reg
         /\ owed[p] = 0
         /\ \/ current' = current /\ armed' = armed /\ owed' = owed
            \/ Retires(p)
<1> USE DEF regVars, slotVars, bornVars, genVars, quotaVars, sweepVars,
            readVars, procVars
<1>0. p \in Procs
  BY DEF Procs, Sweepers
<1>1. hnd[p] = reg /\ reg \in Handles
  BY <1>0, HolderOfReg DEF DeleteCommit, ReapRecheck, Unleased, Ownership
<1>2. owed[p] = 0
  BY <1>0 DEF DeleteCommit, ReapRecheck, Ownership, Debts, Debt, Owing
<1>3. ASSUME NEW g \in Gens, g = current[reg], state[g] = "finalized",
             p \in Deleters \/ expired(g, at[p]), Retire(p, g)
      PROVE  \/ current' = current /\ armed' = armed /\ owed' = owed
             \/ Retires(p)
  BY <1>3, <1>1 DEF Retire, Retires
<1>4. CASE p \in Deleters /\ DeleteCommit(p)
  <2> DEFINE g == presentCurrent(reg, at[p])
  <2>1. g # 0 => g \in Gens /\ g = current[reg] /\ state[g] = "finalized"
    BY <1>1, ResolveFacts DEF Ownership
  <2>2. IF g # 0 THEN Retire(p, g) ELSE Spare(p)
    BY <1>4, <1>1 DEF DeleteCommit
  <2> HIDE DEF g
  <2>3. (current' = current /\ armed' = armed /\ owed' = owed) \/ Retires(p)
    BY <1>3, <1>4, <2>1, <2>2 DEF Spare
  <2> QED
    BY <1>0, <1>1, <1>2, <1>4, <2>3 DEF DeleteCommit
<1>5. CASE p \in Sweepers /\ ReapRecheck(p)
  <2> DEFINE g == reapable(reg, at[p], mine[p])
  <2>1. g # 0 => g \in Gens /\ g = current[reg] /\ state[g] = "finalized"
    BY <1>1, ResolveFacts DEF Ownership, reapable
  <2>2. IF g # 0 THEN Retire(p, g) ELSE Spare(p)
    BY <1>5, <1>1 DEF ReapRecheck
  <2>3. g # 0 => expired(g, at[p])
    BY DEF reapable, expiredCurrent
  <2> HIDE DEF g
  <2>4. (current' = current /\ armed' = armed /\ owed' = owed) \/ Retires(p)
    BY <1>3, <2>1, <2>2, <2>3 DEF Spare
  <2>5. p \notin Deleters
    BY <1>5, RolesAssumption DEF Sweepers
  <2> QED
    BY <1>0, <1>1, <1>2, <1>5, <2>4, <2>5 DEF ReapRecheck
<1> QED
  BY <1>4, <1>5

-----------------------------------------------------------------------------
(* Whose step it is, and where the handle moves *)

\* A step of p, and a step that leaves what is p's alone.
Own(p) ==
  \/ p \in Writers /\ WriterStep(p)
  \/ p \in Readers /\ ReaderStep(p)
  \/ p \in Deleters /\ (DeleteAcquire(p) \/ DeleteCommit(p))
  \/ p \in Sweepers /\ SweepStep(p)
  \/ Tail(p)

Aside(p) ==
  /\ pc'[p] = pc[p] /\ hnd'[p] = hnd[p] /\ mine'[p] = mine[p] /\ owed'[p] = owed[p]
  /\ at'[p] = at[p]
  /\ p \in Readers => mode'[p] = mode[p] /\ base'[p] = base[p]
  /\ p \in armed' => p \in armed

\* Every step is one goroutine's.
LEMMA OwnOrAside ==
  ASSUME Shape, NEW p \in Procs, [Next]_vars
  PROVE  Own(p) \/ Aside(p)
<1> USE DEF regVars, slotVars, bornVars, genVars, quotaVars, sweepVars,
            readVars, procVars
<1>1. ASSUME NEW q \in Procs, q # p,
             CreateAcquire(q) \/ CreateReject(q) \/ CreateNoSpace(q) \/
             CreateInstall(q) \/ PressureGivesUp(q) \/ CloseStamp(q) \/
             CloseFinalize(q) \/ CloseFlip(q)
      PROVE  Aside(p)
  BY <1>1
     DEF CreateAcquire, CreateReject, CreateNoSpace, CreateInstall,
         PressureGivesUp, CloseStamp, CloseFinalize, CloseFlip, Acquire, wake,
         Aside, Shape
<1>2. ASSUME NEW q \in Procs, q # p,
             CloseFinish(q) \/ Abort(q) \/ Discard(q) \/ DiscardFail(q) \/
             OpenAcquire(q) \/ OpenPark(q) \/ OpenWake(q) \/ OpenError(q)
      PROVE  Aside(p)
  BY <1>2
     DEF CloseFinish, Abort, Discard, DiscardFail, OpenAcquire, OpenPark,
         OpenWake, OpenError, Acquire, wake, Aside, Shape
<1>3. ASSUME NEW q \in Procs, q # p,
             OpenPlain(q) \/ OpenClaim(q) \/ CloseReader(q) \/ CleanupClear(q)
             \/ StatAcquire(q) \/ StatPeek(q) \/ Cancel(q) \/ Elapse(q)
      PROVE  Aside(p)
  BY <1>3
     DEF OpenPlain, OpenClaim, CloseReader, CleanupClear, StatAcquire,
         StatPeek, Cancel, Elapse, Acquire, wake, Aside, Shape
<1>4. ASSUME NEW q \in Procs, q # p,
             DeleteAcquire(q) \/ DeleteCommit(q) \/ SweepSnapshot(q) \/
             SweepPeek(q) \/ ReapAcquire(q) \/ ReapRecheck(q) \/ Remove(q) \/
             ReleaseGen(q) \/ Release(q)
      PROVE  Aside(p)
  BY <1>4
     DEF DeleteAcquire, DeleteCommit, SweepSnapshot, SweepPeek, ReapAcquire,
         ReapRecheck, Remove, ReleaseGen, Release, Retire, Spare, Acquire,
         wake, Aside, Shape
<1>5. ASSUME Tick \/ UNCHANGED vars  PROVE Aside(p)
  BY <1>5 DEF Tick, vars, Aside
<1>6. ASSUME NEW q \in Procs, q # p, Own(q)  PROVE Aside(p)
  BY <1>1, <1>2, <1>3, <1>4, <1>6
     DEF Own, WriterStep, ReaderStep, SweepStep, Tail
<1>7. (\E q \in Procs : Own(q)) \/ Tick \/ UNCHANGED vars
  BY DEF Next, Own, Procs, Sweepers
<1> QED
  BY <1>5, <1>6, <1>7

\* Generations are numbered from one.
LEMMA GensNat == Gens \subseteq Nat /\ 0 \notin Gens
  BY ConstantsAssumption DEF Gens

\* A generation pointer is a number.
LEMMA GenOrNone ==
  ASSUME NEW x \in Gens \cup {0}
  PROVE  x \in Nat
  BY ConstantsAssumption DEF Gens

\* The registered handle only moves forward: its id counter does not fall, what
\* it writes is kept, dropped or newly minted with a fresh id, what it shows is
\* kept, dropped or what was being written; and no option of a generation
\* changes after its mint.
Forward ==
  /\ seed'[reg] >= seed[reg]
  /\ \/ live'[reg] \in {0, live[reg]} /\ minted' = minted
     \/ /\ live'[reg] = minted + 1 /\ minted' = minted + 1
        /\ prefix'[minted + 1] > seed[reg] /\ prefix'[minted + 1] <= seed'[reg]
        /\ current'[reg] = current[reg]
  /\ current'[reg] \in {0, current[reg], live[reg]}
  /\ current'[reg] \notin {0, current[reg]} => live'[reg] = 0
  /\ \A g \in Gens : g <= minted =>
       prefix'[g] = prefix[g] /\ match'[g] = match[g] /\ consume'[g] = consume[g]

\* No step takes the registered handle back.
LEMMA ForwardStep ==
  ASSUME Ownership, [Next]_vars, reg \in Handles
  PROVE  Forward
<1> USE DEF regVars, slotVars, bornVars, genVars, quotaVars, sweepVars,
            readVars, procVars
<1>0. Shape /\ OneHandle /\ None \notin Handles /\ minted \in Nat /\ seed[reg] \in Nat
  <2>1. Shape /\ OneHandle
    BY DEF Ownership
  <2> QED
    BY <2>1, ConstantsAssumption, GensNat DEF Shape
<1>1. ASSUME NEW p \in Procs,
             CreateAcquire(p) \/ OpenAcquire(p) \/ StatAcquire(p) \/
             DeleteAcquire(p) \/ ReapAcquire(p)
      PROVE  Forward
  <2>1. Acquire(p) /\ bornVars' = bornVars
    BY <1>1
       DEF CreateAcquire, OpenAcquire, StatAcquire, DeleteAcquire, ReapAcquire
  <2>2. current' = current /\ live' = live
    BY <1>0, <2>1, AcquirePointers
  <2>3. seed'[reg] = seed[reg]
    BY <1>0, <2>1 DEF Acquire, Shape
  <2> QED
    BY <1>0, <2>1, <2>2, <2>3 DEF Forward
<1>2. ASSUME NEW p \in Writers, CreateReject(p)  PROVE Forward
  <2>1. \/ seed' = seed
        \/ \E t \in Wall : seed' = [seed EXCEPT ![hnd[p]] = allocate(hnd[p], t)]
    BY <1>2 DEF CreateReject
  <2>2. hnd[p] = reg
    <3>1. p \in Procs
      BY DEF Procs
    <3> QED
      BY <1>2, <3>1, HolderOfReg DEF CreateReject, Unleased, Ownership
  <2>3. seed'[reg] >= seed[reg]
    BY <1>0, <2>1, <2>2, ConstantsAssumption DEF allocate, Shape
  <2> QED
    BY <1>2, <2>3 DEF CreateReject, Forward
<1>3. ASSUME NEW p \in Procs,
             CreateNoSpace(p) \/ PressureGivesUp(p) \/
             CloseStamp(p) \/ CloseFinalize(p) \/ CloseFinish(p) \/ Abort(p) \/
             DiscardFail(p) \/ OpenPark(p) \/ OpenWake(p) \/ OpenError(p)
      PROVE  Forward
  BY <1>0, <1>3
     DEF CreateNoSpace, PressureGivesUp, CloseStamp, OpenError,
         CloseFinalize, CloseFinish, Abort, DiscardFail, OpenPark, OpenWake,
         Forward
<1>4. ASSUME NEW p \in Procs,
             OpenPlain(p) \/ OpenClaim(p) \/ CloseReader(p) \/ StatPeek(p) \/
             Cancel(p) \/ Elapse(p) \/ SweepSnapshot(p) \/ SweepPeek(p) \/
             Remove(p) \/ ReleaseGen(p) \/ Release(p)
      PROVE  Forward
  BY <1>0, <1>4
     DEF OpenPlain, OpenClaim, CloseReader, StatPeek, Cancel, Elapse,
         SweepSnapshot, SweepPeek, Remove, ReleaseGen, Release, Forward
<1>5. ASSUME NEW w \in Writers, CreateInstall(w)  PROVE Forward
  <2>1. PICK t \in Wall : /\ seed' = [seed EXCEPT ![reg] = allocate(reg, t)]
                          /\ prefix' = [prefix EXCEPT ![minted + 1] = allocate(reg, t)]
    BY <1>5, InstallFacts DEF CreateInstall
  <2>2. allocate(reg, t) > seed[reg] /\ allocate(reg, t) \in Nat
    BY <1>0, ConstantsAssumption DEF allocate
  <2>3. /\ \E x : consume' = [consume EXCEPT ![minted + 1] = x]
        /\ \E x : match' = [match EXCEPT ![minted + 1] = x]
    BY <1>5 DEF CreateInstall
  <2>4. \A g \in Gens : g <= minted =>
          prefix'[g] = prefix[g] /\ match'[g] = match[g] /\ consume'[g] = consume[g]
    BY <1>0, <2>1, <2>3 DEF Shape
  <2>5. /\ live'[reg] = minted + 1 /\ minted' = minted + 1 /\ current' = current
        /\ seed'[reg] = allocate(reg, t) /\ prefix'[minted + 1] = allocate(reg, t)
    BY <1>0, <1>5, <2>1, InstallFacts DEF Shape
  <2> QED
    BY <1>0, <2>2, <2>4, <2>5 DEF Forward
<1>6. ASSUME NEW w \in Writers, CloseFlip(w) \/ Discard(w)  PROVE Forward
  <2>1. /\ seed' = seed /\ prefix' = prefix /\ match' = match /\ consume' = consume
        /\ minted' = minted
    BY <1>6 DEF CloseFlip, Discard
  <2>2. live'[reg] = 0 /\ current'[reg] \in {0, current[reg], live[reg]}
    BY <1>0, <1>6, FlipFacts, DiscardFacts DEF Shape
  <2> QED
    BY <1>0, <2>1, <2>2 DEF Forward
<1>7. ASSUME NEW p \in Procs, CleanupClear(p) \/ DeleteCommit(p) \/ ReapRecheck(p)
      PROVE  Forward
  <2>1. /\ seed' = seed /\ prefix' = prefix /\ match' = match /\ consume' = consume
        /\ minted' = minted /\ live' = live
    BY <1>7 DEF CleanupClear, DeleteCommit, ReapRecheck
  <2>2. current'[reg] \in {0, current[reg]}
    BY <1>0, <1>7 DEF CleanupClear, DeleteCommit, ReapRecheck, Retire, Spare, cleared, Shape
  <2> QED
    BY <1>0, <2>1, <2>2 DEF Forward
<1>8. ASSUME Tick \/ UNCHANGED vars  PROVE Forward
  BY <1>0, <1>8 DEF Tick, vars, Forward
<1> QED
  BY <1>1, <1>2, <1>3, <1>4, <1>5, <1>6, <1>7, <1>8
     DEF Next, WriterStep, ReaderStep, SweepStep, Tail, Procs, Sweepers

\* The name changes handles only while no generation is in any.
LEMMA SameOrEmpty ==
  ASSUME Ownership, OneHandle', [Next]_vars, reg' # reg
  PROVE  \A h \in Handles : current'[h] = 0 /\ live'[h] = 0
<1>1. Shape /\ OneHandle
  BY DEF Ownership
<1>2. ~Moves
  BY InstallFacts, FlipFacts, DiscardFacts, ClaimFacts, ClearFacts, RetireFacts DEF Moves
<1>3. Still
  BY <1>1, <1>2, StillOrMoves
<1> QED
  BY <1>1, <1>3 DEF Still, OneHandle

\* The clock does not run backwards, nor does the mint counter.
LEMMA ClockStep ==
  ASSUME Ownership, [Next]_vars
  PROVE  now' \in {now, now + 1} /\ minted' >= minted
<1> USE DEF regVars, slotVars, bornVars, genVars, quotaVars, sweepVars,
            readVars, procVars
<1>0. Shape /\ OneHandle
  BY DEF Ownership
<1>1. now \in Int /\ minted \in Int
  BY <1>0, ConstantsAssumption DEF Shape, Gens
<1>2. minted' >= minted
  BY <1>0, <1>1, StillOrMoves, InstallFacts, FlipFacts, DiscardFacts, ClaimFacts,
     ClearFacts, RetireFacts DEF Still, Moves
<1>3. now' = now \/ now' = now + 1
  <2>1. ASSUME NEW p \in Procs, Own(p)  PROVE now' = now
    BY <2>1
       DEF Own, WriterStep, ReaderStep, SweepStep, Tail,
           CreateAcquire, CreateReject, CreateNoSpace, CreateInstall, PressureGivesUp,
           CloseStamp, CloseFinalize, CloseFlip, CloseFinish, Abort, Discard,
           DiscardFail, OpenAcquire, OpenPark, OpenWake, OpenError, OpenPlain,
           OpenClaim, CloseReader, CleanupClear, StatAcquire, StatPeek, Cancel,
           Elapse, DeleteAcquire, DeleteCommit, SweepSnapshot, SweepPeek,
           ReapAcquire, ReapRecheck, Remove, ReleaseGen, Release
  <2>2. (\E p \in Procs : Own(p)) \/ Tick \/ UNCHANGED vars
    BY DEF Next, Own, Procs, Sweepers
  <2> QED
    BY <2>1, <2>2 DEF Tick, vars
<1> QED
  BY <1>1, <1>2, <1>3

-----------------------------------------------------------------------------
(* Order along a handle *)

\* Pointers of a handle point at generations already minted.
LEMMA Minted ==
  ASSUME Ownership, NEW h \in Handles
  PROVE  /\ current[h] <= minted /\ live[h] <= minted
         /\ minted \in Nat /\ current[h] \in Nat /\ live[h] \in Nat
<1>1. Shape /\ Born
  BY DEF Ownership
<1>2. /\ current[h] \in Gens \cup {0} /\ live[h] \in Gens \cup {0}
      /\ minted \in Nat /\ current[h] \in Nat /\ live[h] \in Nat
  <2>1. \A x \in {minted, current[h], live[h]} : x \in Gens \cup {0}
    BY <1>1 DEF Shape
  <2> QED
    BY <2>1, GenOrNone
<1>3. current[h] # 0 => ~(current[h] > minted)
  BY <1>1, <1>2 DEF Born
<1>4. live[h] # 0 => ~(live[h] > minted)
  BY <1>1, <1>2 DEF Born
<1>5. current[h] <= minted
  BY <1>2, <1>3
<1>6. live[h] <= minted
  BY <1>2, <1>4
<1> QED
  BY <1>2, <1>5, <1>6

\* Generations stay in mint order and in id order along the handle.
LEMMA InOrderStep ==
  ASSUME Ownership, Ownership', InOrder, [Next]_vars
  PROVE  InOrder'
<1>0. Shape /\ OneHandle' /\ Shape' /\ None \notin Handles
  BY ConstantsAssumption DEF Ownership
<1>1. CASE reg' # reg
  BY <1>0, <1>1, SameOrEmpty DEF InOrder
<1>2. CASE reg' = reg /\ reg \notin Handles
  BY <1>0, <1>2 DEF InOrder, OneHandle
<1>3. CASE reg' = reg /\ reg \in Handles
  <2>1. Forward
    BY <1>3, ForwardStep
  <2>2. SUFFICES ASSUME NEW h \in Handles, h = reg
                 PROVE  /\ current'[h] # 0 => prefix'[current'[h]] <= seed'[h]
                        /\ live'[h] # 0 => /\ prefix'[live'[h]] <= seed'[h]
                                           /\ live'[h] > current'[h]
                        /\ live'[h] # 0 /\ current'[h] # 0
                             => prefix'[live'[h]] > prefix'[current'[h]]
    BY <1>0, <1>3 DEF InOrder, OneHandle
  <2>3. /\ current[h] <= minted /\ live[h] <= minted
        /\ minted \in Nat /\ current[h] \in Nat /\ live[h] \in Nat
        /\ current[h] \in Gens \cup {0} /\ live[h] \in Gens \cup {0}
        /\ Gens \subseteq Nat /\ 0 \notin Gens
        /\ seed[h] \in Nat /\ seed'[h] \in Nat
    BY <1>0, Minted, GensNat DEF Shape
  <2>4. \A g \in Gens : prefix[g] \in Nat /\ prefix'[g] \in Nat
    BY <1>0 DEF Shape
  <2>5. /\ current[h] # 0 => prefix'[current[h]] = prefix[current[h]]
        /\ live[h] # 0 => prefix'[live[h]] = prefix[live[h]]
    BY <2>1, <2>2, <2>3 DEF Forward
  <2>6. /\ current[h] # 0 => prefix[current[h]] <= seed[h]
        /\ live[h] # 0 => prefix[live[h]] <= seed[h] /\ live[h] > current[h]
        /\ live[h] # 0 /\ current[h] # 0 => prefix[live[h]] > prefix[current[h]]
    BY DEF InOrder
  <2>7. seed'[h] >= seed[h] /\ current'[h] \in {0, current[h], live[h]}
    BY <2>1, <2>2 DEF Forward
  <2>8. current'[h] # 0 => prefix'[current'[h]] <= seed'[h]
    BY <2>3, <2>4, <2>5, <2>6, <2>7
  <2>9. CASE live'[h] \in {0, live[h]}
    <3>1. current'[h] \notin {0, current[h]} => live'[h] = 0
      BY <2>1, <2>2 DEF Forward
    <3>2. CASE live'[h] = 0
      BY <2>8, <3>2
    <3>3. CASE live'[h] = live[h] /\ live[h] # 0 /\ current'[h] = 0
      <4>1. prefix'[live[h]] <= seed[h] /\ live[h] > 0 /\ prefix'[live[h]] \in Nat
        BY <2>3, <2>4, <2>5, <2>6, <3>3
      <4> QED
        BY <2>3, <2>4, <2>7, <3>3, <4>1
    <3>4. CASE live'[h] = live[h] /\ live[h] # 0 /\ current'[h] = current[h] /\ current[h] # 0
      <4>1. /\ prefix'[live[h]] = prefix[live[h]] /\ prefix'[current[h]] = prefix[current[h]]
            /\ prefix[live[h]] <= seed[h] /\ live[h] > current[h]
            /\ prefix[live[h]] > prefix[current[h]] /\ prefix[live[h]] \in Nat
        BY <2>3, <2>4, <2>5, <2>6, <3>4
      <4> QED
        BY <2>3, <2>4, <2>7, <2>8, <3>4, <4>1
    <3> QED
      BY <2>9, <3>1, <3>2, <3>3, <3>4
  <2>10. CASE live'[h] \notin {0, live[h]}
    <3>1. /\ live'[h] = minted + 1 /\ prefix'[minted + 1] > seed[h]
          /\ prefix'[minted + 1] <= seed'[h] /\ current'[h] = current[h]
      BY <2>1, <2>2, <2>10 DEF Forward
    <3>2. live'[h] \in Gens
      BY <1>0, <2>3, <3>1 DEF Shape
    <3>3. prefix'[live'[h]] <= seed'[h] /\ live'[h] > current'[h]
      BY <2>3, <3>1
    <3>4. CASE current[h] # 0
      <4>1. prefix'[current[h]] <= seed[h] /\ prefix'[current[h]] \in Nat
        BY <2>3, <2>4, <2>5, <2>6, <3>4
      <4> QED
        BY <2>3, <2>4, <2>8, <3>1, <3>2, <3>3, <4>1
    <3> QED
      BY <2>8, <3>1, <3>3, <3>4
  <2> QED
    BY <2>9, <2>10
<1> QED
  BY <1>1, <1>2, <1>3

\* What an operation noted of the clock stays in the past.
LEMMA NotedStep ==
  ASSUME Ownership, Noted, [Next]_vars
  PROVE  Noted'
<1> USE DEF regVars, slotVars, bornVars, genVars, quotaVars, sweepVars,
            readVars, procVars
<1>0. Shape
  BY DEF Ownership
<1>1. /\ now \in Nat /\ now' \in {now, now + 1}
      /\ \A p \in Procs : at[p] \in Nat
  BY <1>0, ConstantsAssumption, ClockStep DEF Shape
<1>2. SUFFICES ASSUME NEW p \in Procs  PROVE at'[p] \in {at[p], 0, now}
  BY <1>1 DEF Noted
<1>3. ASSUME WriterStep(p) \/ SweepStep(p) \/ Tail(p)
      PROVE  at'[p] \in {at[p], 0, now}
  BY <1>0, <1>3
     DEF WriterStep, SweepStep, Tail,
         CreateAcquire, CreateReject, CreateNoSpace, CreateInstall, PressureGivesUp,
         CloseStamp, CloseFinalize, CloseFlip, CloseFinish, Abort, Discard,
         DiscardFail, SweepSnapshot, SweepPeek, ReapAcquire, ReapRecheck,
         Retire, Spare, Remove, ReleaseGen, Release, Shape
<1>4. ASSUME ReaderStep(p) \/ DeleteAcquire(p) \/ DeleteCommit(p)
      PROVE  at'[p] \in {at[p], 0, now}
  BY <1>0, <1>4
     DEF ReaderStep, OpenAcquire, OpenPark, OpenWake, OpenError, OpenPlain,
         OpenClaim, CloseReader, CleanupClear, StatAcquire, StatPeek, Cancel,
         Elapse, DeleteAcquire, DeleteCommit, Retire, Spare, Shape
<1> QED
  BY <1>0, <1>3, <1>4, OwnOrAside DEF Own, Aside

-----------------------------------------------------------------------------
(* Readers that wait *)

\* A reader knows its mode and its baseline exactly while it needs them.
LEMMA WaitsStep ==
  ASSUME Ownership, Waits, [Next]_vars
  PROVE  Waits'
<1> USE DEF regVars, slotVars, bornVars, genVars, quotaVars, sweepVars,
            readVars, procVars
<1> SUFFICES ASSUME NEW r \in Readers PROVE Wait(r)'
  BY DEF Waits
<1>0. Shape /\ Wait(r) /\ None \notin Modes
  BY ConstantsAssumption DEF Ownership, Waits
<1>1. /\ r \in Procs /\ minted' >= minted /\ minted \in Nat /\ minted' \in Int
      /\ base[r] \in Nat /\ base[r] <= minted
  <2>1. base[r] \in Nat /\ minted \in Nat
    <3>1. base[r] \in Gens \cup {0} /\ minted \in Gens \cup {0}
      BY <1>0 DEF Shape
    <3> QED
      BY <3>1, GenOrNone
  <2>2. minted' \in Int
    <3>1. minted' \in Gens \cup {0}
      BY ShapeStep DEF Ownership, Shape
    <3> QED
      BY <3>1, GenOrNone
  <2> QED
    BY <1>0, <2>1, <2>2, ClockStep DEF Procs, Wait
<1>2. CASE Aside(r)
  BY <1>0, <1>1, <1>2 DEF Aside, Wait
<1>3. ASSUME OpenAcquire(r) \/ StatAcquire(r) \/ StatPeek(r) \/ Cancel(r) \/ Elapse(r)
             \/ Remove(r) \/ ReleaseGen(r) \/ Release(r)
      PROVE  Wait(r)'
  BY <1>0, <1>1, <1>3
     DEF OpenAcquire, StatAcquire, StatPeek, Cancel, Elapse, Remove, ReleaseGen,
         Release, Wait, Shape
<1>4. ASSUME OpenPark(r)  PROVE Wait(r)'
  <2>0. hnd[r] \in Handles
    BY <1>0, <1>1, <1>4, LeasedHandle DEF OpenPark, Unleased, Ownership
  <2>1. PICK m \in modesOf(r) : /\ waitable(r, m)
                                /\ mode' = [mode EXCEPT ![r] = m]
                                /\ base' = [base EXCEPT ![r] = baseOf(r, m)]
    BY <1>4 DEF OpenPark
  <2>2. mode'[r] = m /\ m \in {"wait", "follow"} /\ base'[r] = baseOf(r, m)
    BY <1>0, <2>1 DEF Shape, waitable
  <2>3. pc[r] = "resolve" /\ pc'[r] = "parked" /\ minted' = minted
    BY <1>0, <1>1, <1>4 DEF OpenPark, Shape
  <2>4. base'[r] <= minted'
    BY <1>1, <2>0, <2>2, <2>3, Minted DEF baseOf
  <2>5. base'[r] # 0 => mode'[r] = "follow"
    BY <1>0, <2>1, <2>2, <2>3 DEF baseOf, modesOf, Wait, Modes
  <2> QED
    BY <2>2, <2>3, <2>4, <2>5 DEF Wait
<1>5. ASSUME OpenWake(r) \/ OpenError(r)  PROVE Wait(r)'
  BY <1>0, <1>1, <1>5 DEF OpenWake, OpenError, Wait, Shape
<1>6. ASSUME OpenPlain(r) \/ OpenClaim(r)  PROVE Wait(r)'
  <2>0. hnd[r] \in Handles
    BY <1>0, <1>1, <1>6, LeasedHandle DEF OpenPlain, OpenClaim, Unleased, Ownership
  <2>1. PICK m \in modesOf(r) : base' = [base EXCEPT ![r] = baseOf(r, m)]
    BY <1>6 DEF OpenPlain, OpenClaim
  <2>2. base'[r] = baseOf(r, m)
    BY <1>0, <2>1 DEF Shape
  <2>3. /\ pc'[r] \in {"streaming", "remove"} /\ mode'[r] = None /\ minted' = minted
        /\ r \notin armed'
    BY <1>0, <1>1, <1>6 DEF OpenPlain, OpenClaim, Shape, wake, Wait
  <2>4. base'[r] <= minted'
    BY <1>1, <2>0, <2>2, <2>3, Minted DEF baseOf
  <2> QED
    BY <2>3, <2>4 DEF Wait
<1>7. ASSUME CloseReader(r) \/ CleanupClear(r)  PROVE Wait(r)'
  BY <1>0, <1>1, <1>7 DEF CloseReader, CleanupClear, Wait, Shape, wake
<1>8. ~(r \in Writers \/ r \in Deleters \/ r \in Sweepers)
  BY RolesAssumption DEF Sweepers
<1>9. ReaderStep(r) \/ Tail(r) \/ Aside(r)
  BY <1>0, <1>1, <1>8, OwnOrAside DEF Own
<1> QED
  BY <1>2, <1>3, <1>4, <1>5, <1>6, <1>7, <1>9 DEF ReaderStep, Tail

\* The baseline a reader resolves with: only follow-next has one, and its
\* handle has only moved on from it.
LEMMA BaseFacts ==
  ASSUME Ownership, InOrder, Waits, Follows, NEW r \in Readers, pc[r] = "resolve",
         NEW m \in modesOf(r), baseOf(r, m) # 0
  PROVE  m = "follow" /\ Beyond(hnd[r], baseOf(r, m))
<1>0. Shape /\ Wait(r) /\ None \notin Modes /\ r \in Procs
  BY ConstantsAssumption DEF Ownership, Waits, Procs
<1>1. hnd[r] \in Handles
  BY <1>0, LeasedHandle DEF Unleased, Ownership
<1>2. CASE mode[r] = None /\ m = "follow"
  <2>1. baseOf(r, m) = current[hnd[r]]
    BY <1>2 DEF baseOf
  <2> QED
    BY <1>1, <1>2, <2>1 DEF InOrder, Beyond
<1>3. CASE ~(mode[r] = None /\ m = "follow")
  <2>1. baseOf(r, m) = base[r]
    BY <1>3 DEF baseOf
  <2>2. mode[r] = "follow"
    BY <1>0, <2>1 DEF Wait
  <2>3. m = "follow"
    BY <1>0, <2>2 DEF modesOf, Modes
  <2> QED
    BY <2>1, <2>3 DEF Follows
<1> QED
  BY <1>2, <1>3

\* While a follower waits its handle keeps moving on from the baseline.
LEMMA FollowsStep ==
  ASSUME Ownership, Ownership', InOrder, Waits, Follows, [Next]_vars
  PROVE  Follows'
<1> USE DEF regVars, slotVars, bornVars, genVars, quotaVars, sweepVars,
            readVars, procVars
<1> SUFFICES ASSUME NEW r \in Readers, pc'[r] \in {"resolve", "parked"}, base'[r] # 0
             PROVE  Beyond(hnd[r], base[r])'
  BY DEF Follows
<1>0. Shape /\ Shape' /\ Wait(r) /\ r \in Procs
  BY DEF Ownership, Waits, Procs
<1>1. CASE pc'[r] = pc[r] /\ base'[r] = base[r] /\ hnd'[r] = hnd[r]
  <2>0. hnd[r] = reg /\ reg \in Handles
    BY <1>0, <1>1, HolderOfReg DEF Ownership, Unleased
  <2> DEFINE b == base[r]
  <2>1. Forward
    BY <2>0, ForwardStep
  <2>2. Beyond(reg, b)
    BY <1>1, <2>0 DEF Follows
  <2>3. /\ b \in Gens /\ b <= minted
        /\ current[reg] \in Gens \cup {0} /\ live[reg] \in Gens \cup {0}
        /\ current[reg] <= minted /\ live[reg] <= minted
        /\ minted \in Nat /\ current[reg] \in Nat /\ live[reg] \in Nat
        /\ Gens \subseteq Nat /\ 0 \notin Gens
        /\ seed[reg] \in Nat /\ seed'[reg] \in Nat
    BY <1>0, <1>1, <2>0, Minted, GensNat DEF Shape, Wait
  <2>4. \A g \in Gens : prefix[g] \in Nat /\ prefix'[g] \in Nat
    BY <1>0 DEF Shape
  <2>5. /\ prefix'[b] = prefix[b]
        /\ current[reg] # 0 => prefix'[current[reg]] = prefix[current[reg]]
        /\ live[reg] # 0 => prefix'[live[reg]] = prefix[live[reg]]
    BY <2>1, <2>3 DEF Forward
  <2> HIDE DEF b
  <2>6. prefix'[b] <= seed'[reg]
    BY <2>1, <2>2, <2>3, <2>4, <2>5 DEF Forward, Beyond
  <2>7. live'[reg] # 0 => live'[reg] > b /\ prefix'[live'[reg]] > prefix'[b]
    <3>1. CASE live'[reg] = live[reg]
      BY <2>2, <2>5, <3>1 DEF Beyond
    <3>2. CASE live'[reg] \notin {0, live[reg]}
      <4>1. live'[reg] = minted + 1 /\ prefix'[minted + 1] > seed[reg]
        BY <2>1, <3>2 DEF Forward
      <4>2. minted + 1 > b /\ prefix[b] <= seed[reg] /\ prefix[b] \in Nat /\ b \in Nat
        BY <2>2, <2>3, <2>4 DEF Beyond
      <4>3. prefix'[minted + 1] \in Nat
        <5>1. live'[reg] \in Gens
          BY <1>0, <2>0, <3>2 DEF Shape
        <5> QED
          BY <2>4, <4>1, <5>1
      <4>4. prefix'[minted + 1] > prefix[b]
        BY <2>3, <4>1, <4>2, <4>3
      <4> QED
        BY <2>5, <4>1, <4>2, <4>4
    <3> QED
      BY <3>1, <3>2
  <2>8. current'[reg] \notin {0, b} =>
          current'[reg] > b /\ prefix'[current'[reg]] > prefix'[b]
    <3>1. current'[reg] \in {0, current[reg], live[reg]}
      BY <2>1 DEF Forward
    <3> QED
      BY <2>2, <2>5, <3>1 DEF Beyond
  <2> QED
    BY <1>1, <2>0, <2>6, <2>7, <2>8 DEF Beyond, b
<1>2. ASSUME OpenPark(r)  PROVE Beyond(hnd[r], base[r])'
  <2>1. PICK m \in modesOf(r) : base' = [base EXCEPT ![r] = baseOf(r, m)]
    BY <1>2 DEF OpenPark
  <2>2. base'[r] = baseOf(r, m)
    BY <1>0, <2>1 DEF Shape
  <2>3. Beyond(hnd[r], baseOf(r, m))
    BY <1>2, <2>2, BaseFacts DEF OpenPark
  <2>4. hnd' = hnd /\ prefix' = prefix /\ seed' = seed /\ live' = live /\ current' = current
    BY <1>2 DEF OpenPark
  <2> QED
    BY <2>2, <2>3, <2>4 DEF Beyond
<1>3. ASSUME OpenWake(r)  PROVE Beyond(hnd[r], base[r])'
  <2>1. /\ hnd' = hnd /\ prefix' = prefix /\ seed' = seed /\ live' = live /\ current' = current
        /\ pc[r] = "parked"
    BY <1>3 DEF OpenWake
  <2>2. base'[r] = base[r]
    BY <1>0, <1>3 DEF OpenWake, Shape
  <2>3. Beyond(hnd[r], base[r])
    BY <2>1, <2>2 DEF Follows
  <2> QED
    BY <2>1, <2>2, <2>3 DEF Beyond
<1>4. ASSUME Cancel(r) \/ Elapse(r)
      PROVE  pc'[r] = pc[r] /\ base'[r] = base[r] /\ hnd'[r] = hnd[r]
  BY <1>4 DEF Cancel, Elapse
<1>5. ~(OpenAcquire(r) \/ OpenError(r) \/ OpenPlain(r) \/ OpenClaim(r) \/ CloseReader(r)
        \/ CleanupClear(r) \/ StatAcquire(r) \/ StatPeek(r) \/ Remove(r)
        \/ ReleaseGen(r))
  BY <1>0
     DEF OpenAcquire, OpenError, OpenPlain, OpenClaim, CloseReader, CleanupClear,
         StatAcquire, StatPeek, Remove, ReleaseGen, Wait, Shape
<1>6. ~Release(r)
  BY <1>0 DEF Release, Shape
<1>7. ~(r \in Writers \/ r \in Deleters \/ r \in Sweepers)
  BY RolesAssumption DEF Sweepers
<1>8. ReaderStep(r) \/ Tail(r) \/ Aside(r)
  BY <1>0, <1>7, OwnOrAside DEF Own
<1> QED
  BY <1>1, <1>2, <1>3, <1>4, <1>5, <1>6, <1>8 DEF ReaderStep, Tail, Aside

\* What a reader attaches to is newer than its baseline.
LEMMA TargetNewer ==
  ASSUME Ownership, InOrder, Waits, Follows, NEW r \in Readers, pc[r] = "resolve",
         NEW m \in modesOf(r), target(r, m) # 0
  PROVE  target(r, m) > baseOf(r, m)
<1>0. Shape /\ r \in Procs
  BY DEF Ownership, Procs
<1>1. hnd[r] \in Handles
  BY <1>0, LeasedHandle DEF Unleased, Ownership
<1>2. target(r, m) \in Nat
  BY <1>0, <1>1, TargetFacts, GensNat
<1>3. CASE baseOf(r, m) = 0
  BY <1>2, <1>3
<1>4. CASE baseOf(r, m) # 0
  <2> DEFINE h == hnd[r]
             b == baseOf(r, m)
  <2>1. m = "follow" /\ Beyond(h, b)
    BY <1>4, BaseFacts
  <2>2. target(r, m) = followResolve(h, b, now)
    BY <2>1 DEF target
  <2>3. CASE target(r, m) = followable(h)
    BY <1>0, <1>1, <2>1, <2>3, ResolveFacts DEF Beyond
  <2>4. CASE target(r, m) # followable(h)
    <3>1. target(r, m) = presentCurrent(h, now) /\ after(target(r, m), b)
      BY <2>2, <2>4 DEF followResolve
    <3>2. target(r, m) = current[h]
      BY <1>0, <1>1, <3>1, ResolveFacts
    <3>3. b \in Gens /\ prefix[b] \in Nat
      BY <1>0, <1>1, <1>4, TargetFacts DEF Shape
    <3>4. target(r, m) # b
      BY <1>4, <3>1, <3>3 DEF after
    <3> QED
      BY <2>1, <3>2, <3>4 DEF Beyond
  <2> QED
    BY <2>3, <2>4
<1> QED
  BY <1>3, <1>4

\* A follower streams only what is newer than its baseline.
LEMMA NewerStep ==
  ASSUME Ownership, InOrder, Waits, Follows, FollowsNewer, [Next]_vars
  PROVE  FollowsNewer'
<1> USE DEF regVars, slotVars, bornVars, genVars, quotaVars, sweepVars,
            readVars, procVars
<1> SUFFICES ASSUME NEW r \in Readers, pc'[r] = "streaming"  PROVE mine'[r] > base'[r]
  BY DEF FollowsNewer
<1>0. Shape /\ r \in Procs
  BY DEF Ownership, Procs
<1>1. CASE Aside(r)
  BY <1>1 DEF Aside, FollowsNewer
<1>2. ASSUME OpenPlain(r) \/ OpenClaim(r)  PROVE mine'[r] > base'[r]
  <2>1. PICK m \in modesOf(r) : /\ target(r, m) # 0
                                /\ mine' = [mine EXCEPT ![r] = target(r, m)]
                                /\ base' = [base EXCEPT ![r] = baseOf(r, m)]
    BY <1>2 DEF OpenPlain, OpenClaim
  <2>2. mine'[r] = target(r, m) /\ base'[r] = baseOf(r, m)
    BY <1>0, <2>1 DEF Shape
  <2>3. target(r, m) > baseOf(r, m)
    BY <1>2, <2>1, TargetNewer DEF OpenPlain, OpenClaim
  <2> QED
    BY <2>2, <2>3
<1>3. ~(OpenAcquire(r) \/ OpenPark(r) \/ OpenWake(r) \/ OpenError(r) \/ CloseReader(r)
        \/ CleanupClear(r) \/ StatAcquire(r) \/ StatPeek(r) \/ Cancel(r) \/ Elapse(r)
        \/ Remove(r) \/ ReleaseGen(r) \/ Release(r))
  BY <1>0
     DEF OpenAcquire, OpenPark, OpenWake, OpenError, CloseReader, CleanupClear,
         StatAcquire, StatPeek, Cancel, Elapse, Remove, ReleaseGen, Release, Shape
<1>4. ~(r \in Writers \/ r \in Deleters \/ r \in Sweepers)
  BY RolesAssumption DEF Sweepers
<1>5. ReaderStep(r) \/ Tail(r) \/ Aside(r)
  BY <1>0, <1>4, OwnOrAside DEF Own
<1> QED
  BY <1>1, <1>2, <1>3, <1>5 DEF ReaderStep, Tail

\* A generation's deadline is fixed once it is no longer live.
LEMMA ExpiresStep ==
  ASSUME Ownership, [Next]_vars, NEW g \in Gens, state[g] # "live"
  PROVE  expires'[g] = expires[g]
<1> USE DEF regVars, slotVars, bornVars, genVars, quotaVars, sweepVars,
            readVars, procVars
<1>1. ASSUME NEW w \in Writers, CloseStamp(w)  PROVE expires'[g] = expires[g]
  <2>1. w \in Procs /\ Shape
    BY DEF Procs, Ownership
  <2>2. hnd[w] \in Handles
    BY <1>1, <2>1, LeasedHandle DEF CloseStamp, Unleased, Ownership
  <2>3. mine[w] # 0 /\ live[hnd[w]] = mine[w]
    BY <1>1, <2>1 DEF CloseStamp, Ownership, Uploads, Uploading
  <2>4. state[mine[w]] = "live"
    BY <2>2, <2>3 DEF Ownership, Born
  <2> QED
    BY <1>1, <2>1, <2>4 DEF CloseStamp, Shape
<1>2. ASSUME NEW p \in Procs, Own(p), ~CloseStamp(p)  PROVE expires' = expires
  BY <1>2
     DEF Own, WriterStep, ReaderStep, SweepStep, Tail,
         CreateAcquire, CreateReject, CreateNoSpace, CreateInstall, PressureGivesUp,
         CloseFinalize, CloseFlip, CloseFinish, Abort, Discard,
         DiscardFail, OpenAcquire, OpenPark, OpenWake, OpenError, OpenPlain,
         OpenClaim, CloseReader, CleanupClear, StatAcquire, StatPeek, Cancel,
         Elapse, DeleteAcquire, DeleteCommit, SweepSnapshot, SweepPeek,
         ReapAcquire, ReapRecheck, Remove, ReleaseGen, Release
<1>3. ASSUME NEW p \in Procs, CloseStamp(p), Own(p)  PROVE p \in Writers \/ expires' = expires
  BY <1>3
     DEF Own, WriterStep, ReaderStep, SweepStep, Tail,
         OpenAcquire, OpenPark, OpenWake, OpenError, OpenPlain,
         OpenClaim, CloseReader, CleanupClear, StatAcquire, StatPeek, Cancel,
         Elapse, DeleteAcquire, DeleteCommit, SweepSnapshot, SweepPeek,
         ReapAcquire, ReapRecheck, Remove, ReleaseGen, Release
<1>4. (\E p \in Procs : Own(p)) \/ Tick \/ UNCHANGED vars
  BY DEF Next, Own, Procs, Sweepers
<1> QED
  BY <1>1, <1>2, <1>3, <1>4 DEF Tick, vars

\* While a waiter sleeps through a step its handle gains nothing: the steps
\* that publish, install, discard or retire close its channel, and a claim
\* takes a value that the waiter would have been given.
LEMMA AsleepStep ==
  ASSUME Ownership, [Next]_vars, NEW r \in Readers, r \in armed', hnd[r] = reg,
         reg \in Handles
  PROVE  /\ current'[reg] \in {0, current[reg]}
         /\ live'[reg] \in {0, live[reg]}
         /\ \A g \in Gens : g = current[reg] =>
              \/ state'[g] = state[g]
              \/ g = presentCurrent(reg, now) /\ state'[g] = "consumed"
<1>0. Shape /\ OneHandle
  BY DEF Ownership
<1>1. r \notin wake(reg)
  BY DEF wake
<1>2. CASE Still
  BY <1>2 DEF Still
<1>3. ASSUME NEW w \in Writers  PROVE ~CreateInstall(w) /\ ~CloseFlip(w) /\ ~Discard(w)
  BY <1>1, InstallFacts, FlipFacts, DiscardFacts
<1>4. ASSUME NEW q \in Readers, OpenClaim(q)
      PROVE  /\ current' = current /\ live' = live
             /\ \A g \in Gens : g = current[reg] =>
                  \/ state'[g] = state[g]
                  \/ g = presentCurrent(reg, now) /\ state'[g] = "consumed"
  BY <1>0, <1>4, ClaimFacts DEF Shape
<1>5. ASSUME NEW q \in Readers, CleanupClear(q)
      PROVE  live' = live /\ state' = state /\ current'[reg] \in {0, current[reg]}
  BY <1>0, <1>5, ClearFacts DEF Shape
<1>6. ASSUME NEW p, \/ p \in Deleters /\ DeleteCommit(p)
                    \/ p \in Sweepers /\ ReapRecheck(p)
      PROVE  live' = live /\ state' = state /\ current' = current
  BY <1>1, <1>6, RetireFacts DEF Retires
<1>7. Still \/ Moves
  BY <1>0, StillOrMoves
<1>8. CASE Moves
  <2>1. CASE \E q \in Readers : OpenClaim(q)
    BY <1>4, <2>1
  <2>2. CASE \E q \in Readers : CleanupClear(q)
    BY <1>5, <2>2
  <2>3. CASE (\E d \in Deleters : DeleteCommit(d)) \/ (\E p \in Sweepers : ReapRecheck(p))
    BY <1>6, <2>3
  <2> QED
    BY <1>3, <1>8, <2>1, <2>2, <2>3 DEF Moves
<1> QED
  BY <1>2, <1>7, <1>8

\* A parked reader is woken by whatever gives it something to read.
LEMMA WakeupStep ==
  ASSUME Ownership, Ownership', InOrder, Waits, Follows, NoLostWakeup, [Next]_vars
  PROVE  NoLostWakeup'
<1> USE DEF regVars, slotVars, bornVars, genVars, quotaVars, sweepVars,
            readVars, procVars
<1>s. Shape /\ Shape'
  BY DEF Ownership
<1> SUFFICES ASSUME NEW r \in Readers, r \in armed'
             PROVE  /\ followable(hnd[r])' = 0
                    /\ IF mode'[r] = "follow"
                         THEN presentCurrent(hnd[r], now)' <= base'[r]
                         ELSE resolveRead(hnd[r], now)' = 0 /\ ~errConsumed(hnd[r], now)'
  BY <1>s DEF NoLostWakeup, Shape
<1>0. Wait(r) /\ r \in Procs /\ None \notin Modes
  BY ConstantsAssumption DEF Waits, Procs
<1>1. CASE Aside(r)
  <2>0. hnd[r] = reg /\ reg \in Handles /\ hnd'[r] = hnd[r]
    BY <1>s, <1>0, <1>1, HolderOfReg DEF Ownership, Unleased, Wait, Aside
  <2> PICK h \in Handles : h = reg
    BY <2>0
  <2>1. /\ current'[h] \in {0, current[h]} /\ live'[h] \in {0, live[h]}
        /\ \A g \in Gens : g = current[h] =>
             \/ state'[g] = state[g]
             \/ g = presentCurrent(h, now) /\ state'[g] = "consumed"
    BY <2>0, AsleepStep
  <2>2. /\ followable(h) = 0
        /\ IF mode[r] = "follow" THEN presentCurrent(h, now) <= base[r]
                                 ELSE resolveRead(h, now) = 0 /\ ~errConsumed(h, now)
    BY <1>1, <2>0 DEF Aside, NoLostWakeup
  <2>3. current[h] \in Gens \cup {0} /\ live[h] \in Gens \cup {0} /\ 0 \notin Gens
    BY <1>s, GensNat DEF Shape
  <2>4. live[h] # 0 => consume'[live[h]] = consume[live[h]]
    <3>1. live[h] <= minted
      BY Minted
    <3> QED
      BY <2>0, <2>3, <3>1, ForwardStep DEF Forward
  <2>5. followable(h)' = 0
    <3>1. live'[h] # 0 => live[h] = live'[h] /\ consume[live[h]]
      BY <2>1, <2>2 DEF followable
    <3> QED
      BY <2>4, <3>1 DEF followable
  <2>6. presentCurrent(h, now)' \in {0, presentCurrent(h, now)}
    <3> SUFFICES ASSUME presentCurrent(h, now)' # 0
                 PROVE  presentCurrent(h, now)' = presentCurrent(h, now)
      OBVIOUS
    <3>1. /\ current'[h] # 0 /\ state'[current'[h]] = "finalized"
          /\ presentCurrent(h, now)' = current'[h] /\ ~expired(current[h], now)'
      BY DEF presentCurrent
    <3>2. current'[h] = current[h] /\ current[h] \in Gens
      BY <2>1, <2>3, <3>1
    <3>3. state[current[h]] = "finalized"
      BY <2>1, <3>1, <3>2
    <3>4. expires'[current[h]] = expires[current[h]]
      BY <3>2, <3>3, ExpiresStep
    <3>5. now \in Nat /\ now' \in {now, now + 1} /\ expires[current[h]] \in Nat
      BY <1>s, <3>2, ClockStep DEF Shape
    <3>6. ~expired(current[h], now)
      BY <3>1, <3>2, <3>4, <3>5 DEF expired
    <3> QED
      BY <3>1, <3>2, <3>3, <3>6 DEF presentCurrent
  <2>7. mode'[r] = mode[r] /\ base'[r] = base[r] /\ base[r] \in Nat
    <3>1. base[r] \in Gens \cup {0}
      BY <1>s DEF Shape
    <3> QED
      BY <1>1, <3>1, GenOrNone DEF Aside
  <2>8. CASE mode[r] = "follow"
    BY <2>0, <2>2, <2>5, <2>6, <2>7, <2>8
  <2>9. CASE mode[r] # "follow"
    <3>1. presentCurrent(h, now) = 0 /\ presentCurrent(h, now)' = 0
      BY <2>2, <2>6, <2>9 DEF resolveRead
    <3>2. resolveRead(h, now)' = 0
      BY <2>5, <3>1 DEF resolveRead
    <3>3. ~errConsumed(h, now)'
      <4> SUFFICES ASSUME current'[h] # 0, state'[current'[h]] = "consumed"  PROVE FALSE
        BY DEF errConsumed
      <4>1. current'[h] = current[h] /\ current[h] \in Gens
        BY <2>1, <2>3
      <4>2. state[current[h]] = "consumed"
        BY <2>1, <2>3, <3>1, <4>1
      <4> QED
        BY <2>2, <2>9, <4>1, <4>2 DEF errConsumed
    <3> QED
      BY <2>0, <2>5, <2>7, <2>9, <3>2, <3>3
  <2> QED
    BY <2>8, <2>9
<1>2. ASSUME OpenPark(r)
      PROVE  /\ followable(hnd[r])' = 0
             /\ IF mode'[r] = "follow"
                  THEN presentCurrent(hnd[r], now)' <= base'[r]
                  ELSE resolveRead(hnd[r], now)' = 0 /\ ~errConsumed(hnd[r], now)'
  <2>0. pc[r] = "resolve"
    BY <1>2 DEF OpenPark
  <2> PICK h \in Handles : h = hnd[r]
    BY <1>s, <1>0, <2>0, LeasedHandle DEF Ownership, Unleased
  <2>1. PICK m \in modesOf(r) : /\ waitable(r, m)
                                /\ mode' = [mode EXCEPT ![r] = m]
                                /\ base' = [base EXCEPT ![r] = baseOf(r, m)]
    BY <1>2 DEF OpenPark
  <2>2. mode'[r] = m /\ base'[r] = baseOf(r, m)
    BY <1>s, <2>1 DEF Shape
  <2>3. /\ hnd' = hnd /\ live' = live /\ current' = current /\ state' = state
        /\ consume' = consume /\ expires' = expires /\ now' = now
    BY <1>2 DEF OpenPark
  <2>4. /\ followable(h)' = followable(h)
        /\ presentCurrent(h, now)' = presentCurrent(h, now)
    BY <2>3 DEF followable, presentCurrent, expired
  <2>5. /\ resolveRead(h, now)' = resolveRead(h, now)
        /\ errConsumed(h, now)' <=> errConsumed(h, now)
    BY <2>3, <2>4 DEF resolveRead, errConsumed
  <2>6. CASE m = "follow"
    <3>1. followResolve(h, baseOf(r, m), now) = 0
      BY <2>1, <2>6 DEF waitable, target
    <3>2. presentCurrent(h, now) = 0 \/ ~after(presentCurrent(h, now), baseOf(r, m))
      BY <3>1 DEF followResolve
    <3>3. followable(h) = 0
      BY <3>1, <3>2 DEF followResolve
    <3>4. baseOf(r, m) \in Nat
      BY <1>s, TargetFacts, GenOrNone
    <3>5. presentCurrent(h, now) <= baseOf(r, m)
      <4>1. CASE presentCurrent(h, now) = 0
        BY <3>4, <4>1
      <4>2. CASE presentCurrent(h, now) # 0
        <5>1. presentCurrent(h, now) = current[h] /\ current[h] # 0
          BY <1>s, <4>2, ResolveFacts
        <5>2. baseOf(r, m) # 0 /\ ~(prefix[current[h]] > prefix[baseOf(r, m)])
          BY <3>2, <4>2, <5>1 DEF after
        <5>3. Beyond(h, baseOf(r, m))
          BY <2>0, <5>2, BaseFacts
        <5>4. current[h] = baseOf(r, m)
          BY <5>1, <5>2, <5>3 DEF Beyond
        <5> QED
          BY <3>4, <5>1, <5>4
      <4> QED
        BY <4>1, <4>2
    <3> QED
      BY <2>2, <2>3, <2>4, <2>6, <3>3, <3>5
  <2>7. CASE m # "follow"
    <3>1. resolveRead(h, now) = 0 /\ ~errConsumed(h, now)
      BY <2>1, <2>7 DEF waitable, target
    <3>2. followable(h) = 0
      BY <3>1 DEF resolveRead
    <3> QED
      BY <2>2, <2>3, <2>4, <2>5, <2>7, <3>1, <3>2
  <2> QED
    BY <2>6, <2>7
<1>3. ASSUME Cancel(r) \/ Elapse(r)  PROVE Aside(r)
  BY <1>3 DEF Cancel, Elapse, Aside
<1>4. ~(OpenAcquire(r) \/ OpenWake(r) \/ OpenError(r) \/ OpenPlain(r) \/ OpenClaim(r)
        \/ CloseReader(r) \/ CleanupClear(r) \/ StatAcquire(r) \/ StatPeek(r)
        \/ Remove(r) \/ ReleaseGen(r) \/ Release(r))
  BY <1>0
     DEF OpenAcquire, OpenWake, OpenError, OpenPlain, OpenClaim, CloseReader,
         CleanupClear, StatAcquire, StatPeek, Remove, ReleaseGen, Release, Wait, wake
<1>5. ~(r \in Writers \/ r \in Deleters \/ r \in Sweepers)
  BY RolesAssumption DEF Sweepers
<1>6. ReaderStep(r) \/ Tail(r) \/ Aside(r)
  BY <1>s, <1>0, <1>5, OwnOrAside DEF Own
<1> QED
  BY <1>1, <1>2, <1>3, <1>4, <1>6 DEF ReaderStep, Tail

-----------------------------------------------------------------------------
(* Conditional writes, homes and values *)

\* No value slips in under a conditional write in flight.
LEMMA UpdateStep ==
  ASSUME Ownership, Ownership', NoLostUpdate, [Next]_vars
  PROVE  NoLostUpdate'
<1> USE DEF regVars, slotVars, bornVars, genVars, quotaVars, sweepVars,
            readVars, procVars
<1> SUFFICES ASSUME NEW w \in Writers, pc'[w] \in {"writing", "stamped", "flip"},
                    match'[mine'[w]] # 0
             PROVE  current'[hnd'[w]] \in {0, match'[mine'[w]]}
  BY DEF NoLostUpdate
<1>0. Shape /\ w \in Procs
  BY DEF Ownership, Procs
<1>1. CASE /\ pc[w] \in {"writing", "stamped", "flip"}
           /\ mine'[w] = mine[w] /\ hnd'[w] = hnd[w]
  <2>1. hnd[w] = reg /\ reg \in Handles
    BY <1>0, <1>1, HolderOfReg DEF Ownership, Unleased
  <2>2. mine[w] \in Gens /\ live[reg] = mine[w]
    BY <1>0, <1>1, <2>1 DEF Ownership, Uploads, Uploading, Shape
  <2>3. live'[reg] # 0
    BY <1>0, <1>1, <2>1 DEF Ownership, Uploads, Uploading
  <2>4. Forward
    BY <2>1, ForwardStep
  <2>5. current'[reg] \in {0, current[reg]}
    BY <2>3, <2>4 DEF Forward
  <2>6. match'[mine[w]] = match[mine[w]]
    BY <2>1, <2>2, <2>4, Minted DEF Forward
  <2> QED
    BY <1>1, <2>1, <2>5, <2>6 DEF NoLostUpdate
<1>2. CASE CreateInstall(w)
  <2>1. /\ hnd[w] = reg /\ reg \in Handles /\ minted + 1 \in Gens /\ current' = current
        /\ hnd' = hnd
    BY <1>2, InstallFacts DEF CreateInstall
  <2>2. \E o : match' = [match EXCEPT ![minted + 1] =
                           IF o.ifMatch = 0 THEN 0 ELSE presentCurrent(reg, now)]
    BY <1>2, <2>1 DEF CreateInstall
  <2>3. mine'[w] = minted + 1
    BY <1>0, <1>2 DEF CreateInstall, Shape
  <2>4. match'[mine'[w]] = presentCurrent(reg, now)
    BY <1>0, <2>1, <2>2, <2>3 DEF Shape
  <2>5. presentCurrent(reg, now) = current[reg]
    BY <1>0, <2>1, <2>4, ResolveFacts
  <2> QED
    BY <2>1, <2>4, <2>5
<1>3. ASSUME Aside(w) \/ CloseStamp(w) \/ CloseFinalize(w)
      PROVE  /\ pc[w] \in {"writing", "stamped", "flip"}
             /\ mine'[w] = mine[w] /\ hnd'[w] = hnd[w]
  BY <1>3 DEF Aside, CloseStamp, CloseFinalize
<1>4. ~(CreateAcquire(w) \/ CreateReject(w) \/ CreateNoSpace(w) \/ PressureGivesUp(w)
        \/ CloseFlip(w) \/ CloseFinish(w) \/ Abort(w) \/ Discard(w) \/ DiscardFail(w))
  BY <1>0
     DEF CreateAcquire, CreateReject, CreateNoSpace, PressureGivesUp, CloseFlip,
         CloseFinish, Abort, Discard, DiscardFail, Shape
<1>5. ~SweepStep(w) /\ ~Remove(w) /\ ~ReleaseGen(w)
  BY <1>0
     DEF SweepStep, SweepSnapshot, SweepPeek, afterMiss, ReapAcquire, ReapRecheck,
         Retire, Spare, Remove, ReleaseGen, Shape
<1>6. ~Release(w)
  BY <1>0 DEF Release, Shape
<1>7. w \notin Readers /\ w \notin Deleters
  BY RolesAssumption
<1> QED
  BY <1>0, <1>1, <1>2, <1>3, <1>4, <1>5, <1>6, <1>7, OwnOrAside
     DEF Own, WriterStep, Tail

\* What stops being reachable is owed by somebody.
LEMMA OwedStep ==
  ASSUME Ownership, Ownership', [Next]_vars, NEW g \in Gens, reachable(g)
  PROVE  reachable(g)' \/ \E p \in Procs : owed'[p] = g
<1>0. Shape /\ Shape' /\ OneHandle /\ Born /\ 0 \notin Gens
  BY GensNat DEF Ownership
<1>1. CASE Still
  BY <1>1 DEF Still, reachable
<1>2. ASSUME NEW w \in Writers, CreateInstall(w)  PROVE reachable(g)'
  <2>1. PICK h \in Handles : live[h] = g \/ (current[h] = g /\ state[g] = "finalized")
    BY DEF reachable
  <2>2. h = reg
    BY <1>0, <2>1 DEF OneHandle
  <2>3. current[h] = g /\ state[g] = "finalized"
    BY <1>0, <1>2, <2>1, <2>2, InstallFacts
  <2>4. current'[h] = g /\ state'[g] = "finalized"
    BY <1>0, <1>2, <2>2, <2>3, InstallFacts DEF Shape
  <2> QED
    BY <2>4 DEF reachable
<1>3. ASSUME NEW w \in Writers, CloseFlip(w)
      PROVE  reachable(g)' \/ owed'[w] = g
  <2>1. PICK h \in Handles : live[h] = g \/ (current[h] = g /\ state[g] = "finalized")
    BY DEF reachable
  <2>2. h = reg
    BY <1>0, <2>1 DEF OneHandle
  <2>3. CASE live[h] = g
    <3>1. current'[h] = g /\ state'[g] = "finalized"
      BY <1>0, <1>3, <2>2, <2>3, FlipFacts DEF Shape
    <3> QED
      BY <3>1 DEF reachable
  <2>4. CASE current[h] = g /\ state[g] = "finalized"
    <3>1. superseded(reg) = g
      BY <1>0, <2>2, <2>4 DEF superseded
    <3>2. owed'[w] = g
      BY <1>0, <1>3, <3>1, FlipFacts DEF Shape
    <3> QED
      BY <3>2
  <2> QED
    BY <2>1, <2>3, <2>4
<1>4. ASSUME NEW w \in Writers, Discard(w)
      PROVE  reachable(g)' \/ owed'[w] = g
  <2>1. PICK h \in Handles : live[h] = g \/ (current[h] = g /\ state[g] = "finalized")
    BY DEF reachable
  <2>2. h = reg
    BY <1>0, <2>1 DEF OneHandle
  <2>3. CASE live[h] = g
    BY <1>0, <1>4, <2>2, <2>3, DiscardFacts DEF Shape
  <2>4. CASE current[h] = g /\ state[g] = "finalized"
    BY <1>4, <2>4, DiscardFacts DEF reachable
  <2> QED
    BY <2>1, <2>3, <2>4
<1>5. ASSUME NEW r \in Readers, OpenClaim(r)
      PROVE  reachable(g)' \/ owed'[r] = g
  <2>1. PICK h \in Handles : live[h] = g \/ (current[h] = g /\ state[g] = "finalized")
    BY DEF reachable
  <2>2. h = reg
    BY <1>0, <2>1 DEF OneHandle
  <2>3. CASE live[h] = g
    BY <1>5, <2>3, ClaimFacts DEF reachable
  <2>4. CASE current[h] = g
    BY <1>0, <1>5, <2>2, <2>4, ClaimFacts DEF Shape
  <2> QED
    BY <2>1, <2>3, <2>4
<1>6. ASSUME NEW r \in Readers, CleanupClear(r)  PROVE reachable(g)'
  <2>1. PICK h \in Handles : live[h] = g \/ (current[h] = g /\ state[g] = "finalized")
    BY DEF reachable
  <2>2. h = reg
    BY <1>0, <2>1 DEF OneHandle
  <2>3. /\ live' = live /\ state' = state
        /\ current[reg] = g /\ state[g] = "finalized" => current' = current
    BY <1>6, ClearFacts
  <2> QED
    BY <2>1, <2>2, <2>3 DEF reachable
<1>7. ASSUME NEW p, \/ p \in Deleters /\ DeleteCommit(p)
                    \/ p \in Sweepers /\ ReapRecheck(p)
      PROVE  p \in Procs /\ (reachable(g)' \/ owed'[p] = g)
  <2>1. PICK h \in Handles : live[h] = g \/ (current[h] = g /\ state[g] = "finalized")
    BY DEF reachable
  <2>2. h = reg
    BY <1>0, <2>1 DEF OneHandle
  <2>3. p \in Procs /\ live' = live /\ state' = state /\ (current' = current \/ Retires(p))
    BY <1>7, RetireFacts
  <2>4. CASE current' = current \/ live[h] = g
    BY <2>1, <2>3, <2>4 DEF reachable
  <2>5. CASE Retires(p) /\ current[h] = g
    BY <1>0, <2>2, <2>3, <2>5 DEF Retires, Shape
  <2> QED
    BY <2>1, <2>3, <2>4, <2>5
<1>8. \A w \in Writers : w \in Procs
  BY DEF Procs
<1>9. \A r \in Readers : r \in Procs
  BY DEF Procs
<1>10. Still \/ Moves
  BY <1>0, StillOrMoves
<1> QED
  BY <1>1, <1>2, <1>3, <1>4, <1>5, <1>6, <1>7, <1>8, <1>9, <1>10 DEF Moves

\* A debt is dropped only after its home is gone.
LEMMA DebtKept ==
  ASSUME Ownership, NEW p \in Procs, owed[p] # 0, owed'[p] # owed[p], [Next]_vars
  PROVE  pc[p] = "uncharge"
<1> USE DEF regVars, slotVars, bornVars, genVars, quotaVars, sweepVars,
            readVars, procVars
<1>0. Shape /\ pc[p] \in Owing
  BY DEF Ownership, Debts, Debt
<1>1. Own(p)
  BY <1>0, OwnOrAside DEF Aside
<1>2. ~(WriterStep(p) \/ SweepStep(p) \/ DeleteAcquire(p) \/ DeleteCommit(p))
  BY <1>0
     DEF WriterStep, SweepStep, CreateAcquire, CreateReject, CreateNoSpace,
         CreateInstall, PressureGivesUp, CloseStamp, CloseFinalize, CloseFlip,
         CloseFinish, Abort, Discard, DiscardFail, SweepSnapshot, SweepPeek,
         ReapAcquire, ReapRecheck, DeleteAcquire, DeleteCommit, Owing
<1>3. ~ReaderStep(p)
  BY <1>0
     DEF ReaderStep, OpenAcquire, OpenPark, OpenWake, OpenError, OpenPlain,
         OpenClaim, CloseReader, CleanupClear, StatAcquire, StatPeek, Cancel,
         Elapse, Owing
<1> QED
  BY <1>1, <1>2, <1>3 DEF Own, Tail, Remove, ReleaseGen, Release

\* Only an install makes a home, and only for the generation it mints.
LEMMA HomeMade ==
  ASSUME Ownership, [Next]_vars, NEW g \in Gens, home'[g] = "present", home[g] # "present"
  PROVE  \E w \in Writers : CreateInstall(w) /\ g = minted + 1
<1>0. Shape
  BY DEF Ownership
<1>1. ASSUME NEW p \in Procs, Remove(p)  PROVE FALSE
  BY <1>0, <1>1 DEF Remove, Shape
<1>2. Quiet \/ GenStep
  BY GenStepOrQuiet
<1>3. ASSUME NEW w \in Writers, CreateInstall(w)  PROVE g = minted + 1
  BY <1>0, <1>3 DEF CreateInstall, Shape
<1>4. ASSUME NEW w \in Writers, CloseFlip(w) \/ CloseFinish(w) \/ DiscardFail(w)  PROVE FALSE
  BY <1>4 DEF CloseFlip, CloseFinish, DiscardFail
<1>5. ASSUME NEW r \in Readers, OpenPlain(r) \/ OpenClaim(r)  PROVE FALSE
  BY <1>5 DEF OpenPlain, OpenClaim
<1> QED
  BY <1>1, <1>2, <1>3, <1>4, <1>5 DEF Quiet, GenStep

\* Every home on the medium stays somebody's.
LEMMA KeptStep ==
  ASSUME Ownership, Ownership', Kept, [Next]_vars
  PROVE  Kept'
<1> USE DEF regVars, slotVars, bornVars, genVars, quotaVars, sweepVars,
            readVars, procVars
<1>0. Shape /\ Shape' /\ 0 \notin Gens
  BY GensNat DEF Ownership
<1>1. ASSUME NEW g \in Gens, home'[g] = "present"
      PROVE  reachable(g)' \/ \E p \in Procs : owed'[p] = g
  <2>1. CASE home[g] # "present"
    <3> PICK w \in Writers : CreateInstall(w) /\ g = minted + 1
      BY <1>1, <2>1, HomeMade
    <3>1. reg \in Handles /\ live'[reg] = g
      BY <1>0, InstallFacts DEF Shape
    <3> QED
      BY <3>1 DEF reachable
  <2>2. CASE home[g] = "present" /\ reachable(g)
    BY <2>2, OwedStep
  <2>3. ASSUME home[g] = "present", NEW p \in Procs, owed[p] = g
        PROVE  owed'[p] = g
    BY <1>0, <2>3, DebtKept DEF Kept
  <2> QED
    BY <2>1, <2>2, <2>3 DEF Kept, held
<1>2. ASSUME NEW p \in Procs, pc'[p] = "uncharge"
      PROVE  home'[owed'[p]] # "present"
  <2>1. CASE Remove(p)
    <3>1. owed[p] \in Gens
      BY <1>0, <2>1 DEF Remove, Ownership, Debts, Debt, Shape
    <3> QED
      BY <1>0, <2>1, <3>1 DEF Remove, Shape
  <2>2. CASE Aside(p)
    <3>1. owed[p] \in Gens /\ owed'[p] = owed[p] /\ pc[p] = "uncharge"
      BY <1>0, <1>2, <2>2 DEF Aside, Ownership, Debts, Debt, Shape
    <3>2. state[owed[p]] # "unborn"
      BY <3>1 DEF Ownership, Debts, Debt
    <3>3. \A w \in Writers : CreateInstall(w) => owed[p] # minted + 1
      BY <3>2, InstallFacts
    <3> QED
      BY <3>1, <3>3, HomeMade DEF Kept
  <2>3. ~(WriterStep(p) \/ DeleteAcquire(p) \/ DeleteCommit(p))
    BY <1>0, <1>2
       DEF WriterStep, CreateAcquire, CreateReject, CreateNoSpace,
           CreateInstall, PressureGivesUp, CloseStamp, CloseFinalize, CloseFlip,
           CloseFinish, Abort, Discard, DiscardFail, DeleteAcquire, DeleteCommit,
           Retire, Spare, Shape
  <2>4. ~SweepStep(p)
    BY <1>0, <1>2
       DEF SweepStep, SweepSnapshot, SweepPeek, afterMiss, ReapAcquire,
           ReapRecheck, Retire, Spare, Shape
  <2>5. CASE ReaderStep(p)
    <3>1. Cancel(p) \/ Elapse(p)
      BY <1>0, <1>2, <2>5
         DEF ReaderStep, OpenAcquire, OpenPark, OpenWake, OpenError, OpenPlain,
             OpenClaim, CloseReader, CleanupClear, StatAcquire, StatPeek, Shape
    <3> QED
      BY <1>2, <3>1 DEF Cancel, Elapse
  <2>6. ~ReleaseGen(p) /\ ~Release(p)
    BY <1>0, <1>2 DEF ReleaseGen, Release, Shape
  <2> QED
    BY <1>0, <2>1, <2>2, <2>3, <2>4, <2>5, <2>6, OwnOrAside DEF Own, Tail
<1> QED
  BY <1>1, <1>2 DEF Kept, held

-----------------------------------------------------------------------------
(* The second invariant and what follows from it *)

\* Nothing is out of order at the start.
LEMMA InitiallyOrdered == Init => OrderInv
<1> SUFFICES ASSUME Init PROVE OrderInv
  OBVIOUS
<1>1. Kept
  BY DEF Init, Kept
<1>2. NoLostUpdate /\ FollowsNewer /\ NoLostWakeup /\ InOrder /\ Follows
  BY DEF Init, NoLostUpdate, FollowsNewer, NoLostWakeup, InOrder, Follows, Procs
<1>3. Noted
  BY DEF Init, Noted
<1>4. Waits
  BY DEF Init, Waits, Wait, Procs
<1> QED
  BY <1>1, <1>2, <1>3, <1>4 DEF OrderInv

\* With the ownership of IInv, every step keeps the order.
LEMMA OrderInductive == IInv /\ IInv' /\ OrderInv /\ [Next]_vars => OrderInv'
<1> SUFFICES ASSUME IInv, IInv', OrderInv, [Next]_vars PROVE OrderInv'
  OBVIOUS
<1>1. /\ Ownership /\ Ownership'
      /\ Kept /\ NoLostUpdate /\ Noted /\ InOrder /\ Waits /\ Follows
      /\ FollowsNewer /\ NoLostWakeup
  BY DEF IInv, OrderInv
<1>2. Kept' /\ NoLostUpdate' /\ Noted' /\ InOrder' /\ Waits'
  BY <1>1, KeptStep, UpdateStep, NotedStep, InOrderStep, WaitsStep
<1>3. Follows' /\ FollowsNewer' /\ NoLostWakeup'
  BY <1>1, FollowsStep, NewerStep, WakeupStep
<1> QED
  BY <1>2, <1>3 DEF OrderInv

\* Generations, ids, baselines, homes and waiters stay in order.
THEOREM OrderHolds == Spec => []OrderInv
  BY InitiallyOrdered, OrderInductive, InvariantHolds, PTL DEF Spec

\* A parked reader never sleeps on an open channel beside something it could
\* read, although follow-next compares ids and not mint order.
THEOREM WakeupsAreKept == Spec => []NoLostWakeup
<1>1. OrderInv => NoLostWakeup
  BY DEF OrderInv
<1> QED
  BY <1>1, OrderHolds, PTL

\* Follow-next never streams the value it found on arrival or an older one.
THEOREM FollowersGetNewer == Spec => []FollowsNewer
<1>1. OrderInv => FollowsNewer
  BY DEF OrderInv
<1> QED
  BY <1>1, OrderHolds, PTL

\* No other value is published under a conditional write in flight.
THEOREM UpdatesAreNotLost == Spec => []NoLostUpdate
<1>1. OrderInv => NoLostUpdate
  BY DEF OrderInv
<1> QED
  BY <1>1, OrderHolds, PTL

\* When every operation has returned, the homes that nobody tried to remove are
\* those of the values that can still be read or written, and the quota counts
\* them, whether or not removals fail.
THEOREM QuiescentIsClean == Spec => []QuiescentClean
<1>1. IInv /\ OrderInv => QuiescentClean
  <2> SUFFICES ASSUME IInv, OrderInv, \A p \in Procs : pc[p] = "idle"
               PROVE  /\ \A g \in Gens : home[g] = "present" <=> reachable(g)
                      /\ clips = Cardinality({g \in Gens : home[g] = "present"})
    BY DEF QuiescentClean
  <2>1. \A p \in Procs : owed[p] = 0
    BY DEF IInv, Ownership, Debts, Debt, Owing
  <2>2. \A g \in Gens : home[g] = "present" => reachable(g)
    BY <2>1, GensNat DEF OrderInv, Kept, held
  <2>3. \A g \in Gens : reachable(g) => home[g] = "present"
    BY DEF IInv, Homed
  <2>4. held = {g \in Gens : home[g] = "present"}
    BY <2>1, <2>2, <2>3, GensNat DEF held
  <2> QED
    BY <2>2, <2>3, <2>4 DEF IInv, FootprintExact
<1> QED
  BY <1>1, InvariantHolds, OrderHolds, PTL

\* A readable value goes only because time passed, a newer one replaced it, its
\* one reader claimed it or a Delete retired it.
THEOREM ValuesLeaveOnlyBy == Spec => ValueLeavesOnlyBy
<1>1. ASSUME IInv, OrderInv, [Next]_vars
      PROVE  [\A h \in Handles :
                LET g == presentCurrent(h, now)
                IN  g # 0 /\ presentCurrent(h, now)' # g =>
                      \/ now' # now
                      \/ current'[h] > g
                      \/ consume[g] /\ state'[g] = "consumed"
                      \/ \E d \in Deleters : pc[d] = "delete" /\ owed'[d] = g]_vars
  <2>0. Ownership /\ Shape /\ OneHandle /\ Born /\ InOrder /\ Noted /\ 0 \notin Gens
    BY <1>1, GensNat DEF IInv, Ownership, OrderInv
  <2> SUFFICES ASSUME NEW h \in Handles, presentCurrent(h, now) # 0, now' = now,
                      presentCurrent(h, now)' # presentCurrent(h, now)
               PROVE  LET g == presentCurrent(h, now)
                      IN  \/ current'[h] > g
                          \/ consume[g] /\ state'[g] = "consumed"
                          \/ \E d \in Deleters : pc[d] = "delete" /\ owed'[d] = g
    OBVIOUS
  <2> PICK g \in Gens : g = presentCurrent(h, now)
    BY <2>0, ResolveFacts
  <2>1. g = current[h] /\ state[g] = "finalized" /\ ~expired(g, now)
    BY DEF presentCurrent
  <2>2. h = reg
    BY <2>0, <2>1 DEF OneHandle
  <2>3. expires'[g] = expires[g]
    BY <1>1, <2>0, <2>1, ExpiresStep
  <2>4. ~(current'[h] = g /\ state'[g] = "finalized")
    BY <2>0, <2>1, <2>3 DEF presentCurrent, expired
  <2>5. ~Still
    BY <2>1, <2>4 DEF Still
  <2>6. ASSUME NEW w \in Writers  PROVE ~CreateInstall(w) /\ ~Discard(w)
    <3>1. ~CreateInstall(w)
      BY <2>0, <2>1, <2>4, InstallFacts DEF Shape
    <3>2. ~Discard(w)
      BY <2>0, <2>1, <2>4, DiscardFacts
    <3> QED
      BY <3>1, <3>2
  <2>7. ASSUME NEW w \in Writers, CloseFlip(w)  PROVE current'[h] > g
    <3>1. current'[h] = live[h] /\ live[h] # 0
      BY <2>0, <2>2, <2>7, FlipFacts DEF Shape
    <3> QED
      BY <2>0, <2>1, <3>1 DEF InOrder
  <2>8. ASSUME NEW r \in Readers, OpenClaim(r)
        PROVE  consume[g] /\ state'[g] = "consumed"
    BY <2>0, <2>1, <2>2, <2>8, ClaimFacts DEF Shape
  <2>9. ASSUME NEW r \in Readers  PROVE ~CleanupClear(r)
    BY <2>0, <2>1, <2>2, <2>4, ClearFacts
  <2>10. ASSUME NEW p, \/ p \in Deleters /\ DeleteCommit(p)
                       \/ p \in Sweepers /\ ReapRecheck(p)
         PROVE  p \in Deleters /\ pc[p] = "delete" /\ owed'[p] = g
    <3>1. p \in Procs /\ state' = state
      BY <2>0, <2>10, RetireFacts
    <3>2. Retires(p)
      BY <2>0, <2>1, <2>4, <2>10, <3>1, RetireFacts
    <3>3. owed'[p] = g
      BY <2>0, <2>1, <2>2, <3>1, <3>2 DEF Retires, Shape
    <3>4. ~expired(g, at[p])
      <4>1. at[p] <= now /\ at[p] \in Nat /\ now \in Nat /\ expires[g] \in Nat
        BY <2>0, <3>1, ConstantsAssumption DEF Noted, Shape
      <4> QED
        BY <2>1, <4>1 DEF expired
    <3>5. p \in Deleters
      BY <2>1, <2>2, <3>2, <3>4 DEF Retires
    <3> QED
      BY <2>0, <2>10, <3>3, <3>5, RetireFacts
  <2>11. Still \/ Moves
    BY <1>1, <2>0, StillOrMoves
  <2> QED
    BY <2>5, <2>6, <2>7, <2>8, <2>9, <2>10, <2>11 DEF Moves
<1> QED
  BY <1>1, InvariantHolds, OrderHolds, PTL DEF Spec, ValueLeavesOnlyBy

-----------------------------------------------------------------------------
(* The slot implements the register *)

\* A step that leaves pointers and states still leaves the register still:
\* whatever handle is registered, a handle that is not has no generation.
LEMMA RegisterStill ==
  ASSUME OneHandle, OneHandle', Shape, Shape', Still
  PROVE  /\ settled' = settled
         /\ (IF reg' = None THEN 0 ELSE live'[reg']) = (IF reg = None THEN 0 ELSE live[reg])
         /\ {g \in Gens : state'[g] = "consumed"} = {g \in Gens : state[g] = "consumed"}
<1>1. CASE reg' = reg
  BY <1>1 DEF Still, settled
<1>2. CASE reg' # reg
  <2>1. reg # None => reg \in Handles /\ current'[reg] = 0 /\ live'[reg] = 0
    BY <1>2 DEF OneHandle, Shape
  <2>2. reg' # None => reg' \in Handles /\ current[reg'] = 0 /\ live[reg'] = 0
    BY <1>2 DEF OneHandle, Shape
  <2>3. settled = 0 /\ settled' = 0
    BY <2>1, <2>2 DEF Still, settled
  <2>4. (IF reg' = None THEN 0 ELSE live'[reg']) = (IF reg = None THEN 0 ELSE live[reg])
    BY <2>1, <2>2 DEF Still
  <2> QED
    BY <2>3, <2>4 DEF Still
<1> QED
  BY <1>1, <1>2

\* Handles, leases, eviction and the off-lock tails are invisible: every step
\* of the slot is a step of the register of module ClipRegister, or none.
THEOREM ImplementsRegister == Spec => RegisterSpec
<1> DEFINE writing == IF reg = None THEN 0 ELSE live[reg]
           taken == {g \in Gens : state[g] = "consumed"}
<1>1. Init => Register!Init
  BY DEF Init, Register!Init, settled
<1>2. ASSUME IInv, IInv', [Next]_vars
      PROVE  [Register!Next]_(Register!vars)
  <2>0. Ownership /\ OneHandle /\ OneHandle' /\ Shape /\ Shape' /\ Born
    BY <1>2 DEF IInv, Ownership
  <2>n. None \notin Handles /\ 0 \notin Gens
    BY ConstantsAssumption DEF Gens
  <2>1. CASE Still
    <3>1. settled' = settled /\ writing' = writing /\ taken' = taken /\ minted' = minted
      BY <2>0, <2>1, RegisterStill DEF Still
    <3> QED
      BY <3>1 DEF Register!vars
  <2>2. ASSUME NEW w \in Writers, CreateInstall(w)  PROVE Register!Begin
    <3>1. writing = 0 /\ writing' = minted + 1
      BY <2>0, <2>2, <2>n, InstallFacts DEF Shape
    <3>2. settled' = settled
      BY <2>0, <2>2, <2>n, InstallFacts DEF Shape, settled, Born
    <3>3. taken' = taken
      BY <2>0, <2>2, InstallFacts DEF Shape
    <3> QED
      BY <2>0, <2>2, <3>1, <3>2, <3>3, InstallFacts DEF Register!Begin
  <2>3. ASSUME NEW w \in Writers, CloseFlip(w)  PROVE Register!Publish
    <3>1. writing = mine[w] /\ writing # 0 /\ writing' = 0
      BY <2>0, <2>3, <2>n, FlipFacts DEF Shape
    <3>2. settled' = mine[w]
      BY <2>0, <2>3, <2>n, FlipFacts DEF Shape, settled
    <3>3. taken' = taken
      BY <2>0, <2>3, FlipFacts DEF Shape
    <3> QED
      BY <2>0, <2>3, <3>1, <3>2, <3>3, FlipFacts DEF Register!Publish
  <2>4. ASSUME NEW w \in Writers, Discard(w)  PROVE Register!Discard
    <3>1. writing # 0 /\ writing' = 0
      BY <2>0, <2>4, <2>n, DiscardFacts DEF Shape
    <3>2. settled' = settled /\ taken' = taken
      BY <2>0, <2>4, DiscardFacts DEF settled
    <3> QED
      BY <2>0, <2>4, <3>1, <3>2, DiscardFacts DEF Register!Discard
  <2>5. ASSUME NEW r \in Readers, OpenClaim(r)  PROVE Register!Take
    <3> PICK g \in Gens :
               /\ g = current[reg] /\ state[g] = "finalized"
               /\ state' = [state EXCEPT ![g] = "consumed"]
      BY <2>0, <2>5, ClaimFacts
    <3>0. reg \in Handles /\ reg' = reg /\ current' = current /\ live' = live /\ minted' = minted
      BY <2>0, <2>5, ClaimFacts
    <3>1. settled = g /\ settled # 0 /\ settled' = 0
      BY <2>0, <2>n, <3>0 DEF settled, Shape
    <3>2. taken' = taken \cup {g}
      BY <2>0 DEF Shape
    <3>3. writing' = writing
      BY <3>0
    <3> QED
      BY <3>0, <3>1, <3>2, <3>3 DEF Register!Take
  <2>6. ASSUME NEW r \in Readers, CleanupClear(r)
        PROVE  [Register!Next]_(Register!vars)
    <3>1. settled' = settled
      BY <2>0, <2>6, <2>n, ClearFacts DEF settled, Shape
    <3>2. writing' = writing /\ taken' = taken /\ minted' = minted
      BY <2>0, <2>6, ClearFacts
    <3> QED
      BY <3>1, <3>2 DEF Register!vars
  <2>7. ASSUME NEW p,
               \/ p \in Deleters /\ DeleteCommit(p)
               \/ p \in Sweepers /\ ReapRecheck(p)
        PROVE  [Register!Next]_(Register!vars)
    <3>1. /\ reg \in Handles /\ reg' = reg /\ live' = live /\ state' = state /\ minted' = minted
          /\ current' = current \/ Retires(p)
      BY <2>0, <2>7, RetireFacts
    <3>2. writing' = writing /\ taken' = taken
      BY <3>1
    <3>3. CASE current' = current
      BY <3>1, <3>2, <3>3 DEF settled, Register!vars
    <3>4. CASE Retires(p)
      <4>1. settled # 0 /\ settled' = 0
        BY <2>0, <2>n, <3>1, <3>4 DEF Retires, settled, Shape
      <4> QED
        BY <3>1, <3>2, <4>1 DEF Register!Remove, Register!Next
    <3> QED
      BY <3>1, <3>3, <3>4
  <2>8. Still \/ Moves
    BY <1>2, <2>0, StillOrMoves
  <2>9. Register!Begin \/ Register!Publish \/ Register!Discard \/ Register!Take
          => [Register!Next]_(Register!vars)
    BY DEF Register!Next
  <2> QED
    <3>1. ASSUME NEW w \in Writers, CreateInstall(w) \/ CloseFlip(w) \/ Discard(w)
          PROVE  [Register!Next]_(Register!vars)
      BY <2>2, <2>3, <2>4, <2>9, <3>1
    <3>2. ASSUME NEW r \in Readers, OpenClaim(r) \/ CleanupClear(r)
          PROVE  [Register!Next]_(Register!vars)
      BY <2>5, <2>6, <2>9, <3>2
    <3>3. ASSUME NEW d \in Deleters, DeleteCommit(d)
          PROVE  [Register!Next]_(Register!vars)
      BY <2>7, <3>3
    <3>4. ASSUME NEW p \in Sweepers, ReapRecheck(p)
          PROVE  [Register!Next]_(Register!vars)
      BY <2>7, <3>4
    <3> QED
      BY <2>1, <2>8, <3>1, <3>2, <3>3, <3>4 DEF Moves
<1> QED
  BY <1>1, <1>2, InvariantHolds, PTL DEF Spec, RegisterSpec, Register!Spec
=============================================================================
