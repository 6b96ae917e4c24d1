---------------------------- MODULE QuotaProofs -----------------------------
(***************************************************************************)
(* The counters of module Quota are exact, no reservation raises one past  *)
(* its cap, and pressure sweeps are an interval apart, for any number of   *)
(* writers, any limits and a clock that may go backwards.                  *)
(***************************************************************************)
EXTENDS Quota, FiniteSetTheorems, TLAPS

-----------------------------------------------------------------------------
(* Sums *)

\* The units of a finite sum are finitely many, and those of one index are as
\* many as it says.
LEMMA UnitsFinite ==
  ASSUME NEW S, IsFiniteSet(S), NEW f \in [S -> Nat]
  PROVE  IsFiniteSet(Units(f, S))
<1> DEFINE column(x) == {x} \X (1..f[x])
           columns == {column(x) : x \in S}
           m == [x \in S |-> column(x)]
<1>1. \A T \in columns : IsFiniteSet(T)
  <2>1. ASSUME NEW x \in S  PROVE IsFiniteSet({x} \X (1..f[x]))
    <3>1. IsFiniteSet(1..f[x])
      BY FS_Interval
    <3>2. IsFiniteSet({x})
      BY FS_Singleton
    <3> QED
      BY <3>1, <3>2, FS_Product
  <2> QED
    BY <2>1
<1>2. m \in Surjection(S, columns)
  BY DEF Surjection
<1>3. IsFiniteSet(columns)
  BY <1>2, FS_Surjection
<1> HIDE DEF columns
<1>4. IsFiniteSet(UNION columns)
  BY <1>1, <1>3, FS_UNION
<1> QED
  BY <1>4 DEF Units, columns

\* A sum changes by what one of its terms does.
LEMMA SumAt ==
  ASSUME NEW S, IsFiniteSet(S), NEW f \in [S -> Nat], NEW g \in [S -> Nat], NEW x \in S,
         \A y \in S : y # x => g[y] = f[y]
  PROVE  /\ Sum(f, S) \in Nat /\ Sum(g, S) \in Nat
         /\ Sum(g, S) = Sum(f, S) - f[x] + g[x]
<1> DEFINE rest == {u \in Units(f, S) : u[1] # x}
<1>1. ASSUME NEW n \in Nat
      PROVE  IsFiniteSet({x} \X (1..n)) /\ Cardinality({x} \X (1..n)) = n
  <2>1. IsFiniteSet(1..n) /\ Cardinality(1..n) = n
    <3>1. n \in Int /\ 1 \in Int
      OBVIOUS
    <3>2. IsFiniteSet(1..n) /\ Cardinality(1..n) = IF 1 > n THEN 0 ELSE n - 1 + 1
      BY <3>1, FS_Interval
    <3> QED
      BY <3>2
  <2>2. IsFiniteSet({x}) /\ Cardinality({x}) = 1
    BY FS_Singleton
  <2>3. /\ IsFiniteSet({x} \X (1..n))
        /\ Cardinality({x} \X (1..n)) = Cardinality({x}) * Cardinality(1..n)
    BY <2>1, <2>2, FS_Product
  <2> QED
    BY <2>1, <2>2, <2>3
<1>2. IsFiniteSet(rest)
  BY UnitsFinite, FS_Subset
<1>3. Units(f, S) = rest \cup ({x} \X (1..f[x])) /\ rest \cap ({x} \X (1..f[x])) = {}
  BY DEF Units
<1>4. rest = {u \in Units(g, S) : u[1] # x}
  BY DEF Units
<1>5. Units(g, S) = rest \cup ({x} \X (1..g[x])) /\ rest \cap ({x} \X (1..g[x])) = {}
  BY <1>4 DEF Units
<1> HIDE DEF rest
<1>6. Cardinality(rest) \in Nat /\ Cardinality({}) = 0
  BY <1>2, FS_CardinalityType, FS_EmptySet
<1>7. f[x] \in Nat /\ g[x] \in Nat
  OBVIOUS
<1>8. Sum(f, S) = Cardinality(rest) + f[x]
  <2>1. /\ IsFiniteSet({x} \X (1..f[x]))
        /\ Cardinality({x} \X (1..f[x])) = f[x]
    BY <1>1, <1>7
  <2>2. Cardinality(rest \cup ({x} \X (1..f[x]))) =
          Cardinality(rest) + Cardinality({x} \X (1..f[x]))
            - Cardinality(rest \cap ({x} \X (1..f[x])))
    BY <1>2, <2>1, FS_Union
  <2>3. Cardinality(rest \cap ({x} \X (1..f[x]))) = 0
    BY <1>3, <1>6
  <2>4. Sum(f, S) = Cardinality(rest \cup ({x} \X (1..f[x])))
    BY <1>3 DEF Sum
  <2> QED
    BY <1>6, <1>7, <2>1, <2>2, <2>3, <2>4
<1>9. Sum(g, S) = Cardinality(rest) + g[x]
  <2>1. /\ IsFiniteSet({x} \X (1..g[x]))
        /\ Cardinality({x} \X (1..g[x])) = g[x]
    BY <1>1, <1>7
  <2>2. Cardinality(rest \cup ({x} \X (1..g[x]))) =
          Cardinality(rest) + Cardinality({x} \X (1..g[x]))
            - Cardinality(rest \cap ({x} \X (1..g[x])))
    BY <1>2, <2>1, FS_Union
  <2>3. Cardinality(rest \cap ({x} \X (1..g[x]))) = 0
    BY <1>5, <1>6
  <2>4. Sum(g, S) = Cardinality(rest \cup ({x} \X (1..g[x])))
    BY <1>5 DEF Sum
  <2> QED
    BY <1>6, <1>7, <2>1, <2>2, <2>3, <2>4
<1> QED
  BY <1>6, <1>7, <1>8, <1>9

\* A sum of nothing is nothing.
LEMMA SumZero ==
  ASSUME NEW S, NEW f \in [S -> Nat], \A x \in S : f[x] = 0
  PROVE  Sum(f, S) = 0
<1>1. Units(f, S) = {}
  BY DEF Units
<1> QED
  BY <1>1, FS_EmptySet DEF Sum

-----------------------------------------------------------------------------
(* Loads and swaps *)

\* The counters start as counts.
LEMMA Initially == Init => LoadsChecked
<1> SUFFICES ASSUME Init PROVE LoadsChecked
  OBVIOUS
<1>1. clips \in Int
  <2>1. present \subseteq Procs
    BY DEF present, Procs
  <2> QED
    BY <2>1, QuotaAssumption, FS_Subset, FS_CardinalityType DEF Init
<1>2. settled \in [Writers -> Nat \cup {Absent}]
  BY QuotaAssumption DEF Init
<1>3. bytes \in Int
  <2>1. IsFiniteSet(Writers)
    BY QuotaAssumption, FS_Subset DEF Procs
  <2>2. size \in [Writers -> Nat]
    BY <1>2 DEF size, Absent
  <2>3. IsFiniteSet(Units(size, Writers))
    BY <2>1, <2>2, UnitsFinite
  <2> QED
    BY <2>3, FS_CardinalityType DEF Init, Sum
<1> QED
  BY <1>1, <1>2, <1>3, QuotaAssumption DEF Init, LoadsChecked, Shape, Checked, PCs, Absent

\* A step of one process leaves what the others checked.
LEMMA CheckedFrame ==
  ASSUME LoadsChecked, NEW p \in Procs, Shape', Checked(p)',
         \A q \in Procs : q # p => /\ pc'[q] = pc[q] /\ cur'[q] = cur[q]
                                   /\ chunk'[q] = chunk[q] /\ at'[q] = at[q]
                                   /\ due'[q] = due[q]
  PROVE  LoadsChecked'
  BY DEF LoadsChecked, Checked, overTotal, overClips, throttled

\* Every step keeps the shape of the state.
LEMMA ShapeStep ==
  ASSUME LoadsChecked, [Next]_vars
  PROVE  Shape'
<1> USE QuotaAssumption DEF counterVars, nameVars, callVars, Goto, PCs, Absent
<1>1. Shape
  BY DEF LoadsChecked
<1>2. ASSUME NEW w \in Procs, w \in Writers,
             CreateStart(w) \/ ClipLoad(w) \/ ClipCAS(w)
      PROVE  Shape'
  BY <1>1, <1>2 DEF CreateStart, ClipLoad, ClipCAS, Shape, present
<1>3. ASSUME NEW w \in Procs, w \in Writers, WriteStart(w) \/ Load(w) \/ CAS(w)
      PROVE  Shape'
  BY <1>1, <1>3 DEF WriteStart, Load, CAS, Shape, present
<1>4. ASSUME NEW w \in Procs, w \in Writers, Append(w) \/ ReleaseTail(w)
      PROVE  Shape'
  BY <1>1, <1>4 DEF Append, ReleaseTail, tailOf, Shape, present
<1>5. ASSUME NEW w \in Procs, w \in Writers, Close(w) \/ Abort(w)
      PROVE  Shape'
  BY <1>1, <1>5 DEF Close, Abort, Shape, present
<1>6. ASSUME NEW w \in Procs, w \in Writers, Throttle(w) \/ Window(w)
      PROVE  Shape'
  BY <1>1, <1>6 DEF Throttle, Window, Resume, Shape, present
<1>7. ASSUME NEW w \in Procs, w \in Writers, SweepOne(w) \/ SweepEnd(w)
      PROVE  Shape'
  BY <1>1, <1>7 DEF SweepOne, SweepEnd, Resume, Shape, present
<1>8. ASSUME NEW d \in Procs, Retire(d)  PROVE Shape'
  BY <1>1, <1>8 DEF Retire, Shape, present
<1>9. ASSUME NEW p \in Procs, ReleaseBytes(p) \/ ReleaseClip(p)  PROVE Shape'
  BY <1>1, <1>9 DEF ReleaseBytes, ReleaseClip, Shape, present
<1>10. ASSUME NEW w \in Writers, Expire(w)  PROVE Shape'
  BY <1>1, <1>10 DEF Expire, Shape, present
<1>11. ASSUME Clock \/ UNCHANGED vars  PROVE Shape'
  BY <1>1, <1>11 DEF Clock, vars, Shape, present
<1> QED
  BY <1>2, <1>3, <1>4, <1>5, <1>6, <1>7, <1>8, <1>9, <1>10, <1>11
     DEF Next, WriterStep, Procs

\* Every step keeps what was loaded and what was checked together.
LEMMA Inductive == LoadsChecked /\ [Next]_vars => LoadsChecked'
<1> SUFFICES ASSUME LoadsChecked, [Next]_vars PROVE LoadsChecked'
  OBVIOUS
<1> USE DEF counterVars, nameVars, callVars, Goto
<1>1. Shape /\ Shape'
  BY ShapeStep DEF LoadsChecked
<1>2. ASSUME NEW w \in Procs, CreateStart(w) \/ ClipLoad(w) \/ ClipCAS(w)
      PROVE  LoadsChecked'
  BY <1>1, <1>2, CheckedFrame DEF CreateStart, ClipLoad, ClipCAS, Shape, Checked
<1>3. ASSUME NEW w \in Procs, WriteStart(w) \/ Load(w) \/ CAS(w)
      PROVE  LoadsChecked'
  BY <1>1, <1>3, CheckedFrame DEF WriteStart, Load, CAS, Shape, Checked
<1>4. ASSUME NEW w \in Procs, Append(w) \/ ReleaseTail(w)  PROVE LoadsChecked'
  BY <1>1, <1>4, CheckedFrame DEF Append, ReleaseTail, Shape, Checked
<1>5. ASSUME NEW w \in Procs, w \in Writers, Close(w) \/ Abort(w)
      PROVE  LoadsChecked'
  BY <1>1, <1>5, CheckedFrame DEF Close, Abort, Shape, Checked, Absent
<1>6. ASSUME NEW w \in Procs, Throttle(w) \/ Window(w)  PROVE LoadsChecked'
  BY <1>1, <1>6, CheckedFrame DEF Throttle, Window, Resume, Shape, Checked
<1>7. ASSUME NEW w \in Procs, SweepOne(w) \/ SweepEnd(w)  PROVE LoadsChecked'
  BY <1>1, <1>7, CheckedFrame DEF SweepOne, SweepEnd, Resume, Shape, Checked, present
<1>8. ASSUME NEW d \in Procs, Retire(d)  PROVE LoadsChecked'
  BY <1>1, <1>8, CheckedFrame DEF Retire, Shape, Checked, present
<1>9. ASSUME NEW p \in Procs, ReleaseBytes(p) \/ ReleaseClip(p)
      PROVE  LoadsChecked'
  BY <1>1, <1>9, CheckedFrame DEF ReleaseBytes, ReleaseClip, Shape, Checked
<1>10. ASSUME NEW w \in Writers, Expire(w)  PROVE LoadsChecked'
  BY <1>1, <1>10 DEF Expire, LoadsChecked, Checked
<1>11. ASSUME Clock \/ UNCHANGED vars  PROVE LoadsChecked'
  BY <1>1, <1>11 DEF Clock, vars, LoadsChecked, Checked
<1> QED
  BY <1>2, <1>3, <1>4, <1>5, <1>6, <1>7, <1>8, <1>9, <1>10, <1>11
     DEF Next, WriterStep, Procs

\* At each compare-and-swap the value in hand is the one that was checked.
THEOREM LoadsAreChecked == Spec => []LoadsChecked
  BY Initially, Inductive, PTL DEF Spec

\* The steps that move the byte counter or the clip counter up: the two swaps.
LEMMA OnlySwapsRaise ==
  ASSUME LoadsChecked, [Next]_vars
  PROVE  /\ bytes' > bytes => \E w \in Writers : CAS(w)
         /\ clips' > clips => \E w \in Writers : ClipCAS(w)
<1> USE DEF counterVars, nameVars, callVars
<1>1. Shape
  BY DEF LoadsChecked
<1>2. ASSUME NEW w \in Procs, w \in Writers, WriterStep(w) \/ Expire(w)
      PROVE  /\ bytes' > bytes => CAS(w)
             /\ clips' > clips => ClipCAS(w)
  <2>1. CASE ReleaseTail(w)
    BY <1>1, <1>2, <2>1 DEF ReleaseTail, tailOf, Shape
  <2>2. CASE bytes' = bytes /\ clips' = clips
    BY <1>1, <2>2 DEF Shape
  <2>3. CASE CAS(w) \/ ClipCAS(w)
    BY <1>1, <2>3 DEF CAS, ClipCAS, Shape
  <2> QED
    BY <1>2, <2>1, <2>2, <2>3
       DEF WriterStep, CreateStart, ClipLoad, WriteStart, Load, Append, Close,
           Abort, Throttle, Window, SweepOne, SweepEnd, Expire
<1>3. ASSUME NEW p \in Procs, ReleaseBytes(p) \/ ReleaseClip(p)
      PROVE  ~(bytes' > bytes) /\ ~(clips' > clips)
  <2>1. CASE ReleaseBytes(p)
    <3>1. due[p] \in Nat /\ bytes' = bytes - due[p] /\ clips' = clips
      BY <2>1 DEF ReleaseBytes, LoadsChecked, Checked, Shape
    <3> QED
      BY <1>1, <3>1 DEF Shape
  <2>2. CASE ReleaseClip(p)
    BY <1>1, <2>2 DEF ReleaseClip, Shape
  <2> QED
    BY <1>3, <2>1, <2>2
<1>4. ASSUME (\E d \in Cleaners : Retire(d)) \/ Clock \/ UNCHANGED vars
      PROVE  ~(bytes' > bytes) /\ ~(clips' > clips)
  BY <1>1, <1>4 DEF Retire, Clock, vars, Shape
<1> QED
  BY <1>2, <1>3, <1>4 DEF Next, Procs

\* However many writers race for the last bytes or the last slot, no counter
\* is raised past its cap.
THEOREM CapsHold == Spec => NeverRaisedPastCap
<1>1. LoadsChecked /\ [Next]_vars =>
        [/\ bytes' > bytes /\ MaxTotal # 0 => bytes' <= MaxTotal
         /\ clips' > clips /\ MaxClips # 0 => clips' <= MaxClips]_vars
  <2> SUFFICES ASSUME LoadsChecked, [Next]_vars
               PROVE  /\ bytes' > bytes /\ MaxTotal # 0 => bytes' <= MaxTotal
                      /\ clips' > clips /\ MaxClips # 0 => clips' <= MaxClips
    OBVIOUS
  <2>1. ASSUME NEW w \in Writers, CAS(w), bytes' > bytes, MaxTotal # 0
        PROVE  bytes' <= MaxTotal
    <3>1. /\ bytes \in Int /\ chunk[w] \in Int /\ cur[w] \in Int
          /\ ~overTotal(cur[w], chunk[w])
      BY <2>1 DEF CAS, LoadsChecked, Checked, Shape, Procs
    <3>2. bytes' = cur[w] + chunk[w]
      BY <2>1, <3>1 DEF CAS, casWins
    <3> QED
      BY <2>1, <3>1, <3>2, QuotaAssumption DEF overTotal
  <2>2. ASSUME NEW w \in Writers, ClipCAS(w), clips' > clips, MaxClips # 0
        PROVE  clips' <= MaxClips
    <3>1. clips \in Int /\ cur[w] \in Int /\ ~overClips(cur[w])
      BY <2>2 DEF ClipCAS, LoadsChecked, Checked, Shape, Procs
    <3>2. clips' = cur[w] + 1
      BY <2>2, <3>1 DEF ClipCAS
    <3> QED
      BY <2>2, <3>1, <3>2, QuotaAssumption DEF overClips
  <2> QED
    BY <2>1, <2>2, OnlySwapsRaise
<1> QED
  BY <1>1, LoadsAreChecked, PTL DEF Spec, NeverRaisedPastCap

\* However many writers are refused at once, the store sweeps at most once per
\* interval.
THEOREM SweepsAreSpaced == Spec => SweepsSpaced
<1>1. LoadsChecked /\ [Next]_vars =>
        [lastReclaim' # lastReclaim =>
           lastReclaim = 0 \/ lastReclaim' >= lastReclaim + Interval]_vars
  <2> SUFFICES ASSUME LoadsChecked, [Next]_vars, lastReclaim' # lastReclaim, lastReclaim # 0
               PROVE  lastReclaim' >= lastReclaim + Interval
    OBVIOUS
  <2> USE DEF counterVars, nameVars, callVars
  <2>1. PICK w \in Writers : Window(w)
    BY DEF Next, WriterStep, CreateStart, ClipLoad, ClipCAS, WriteStart, Load,
           CAS, Append, ReleaseTail, Close, Abort, Throttle, SweepOne, SweepEnd,
           Retire, ReleaseBytes, ReleaseClip, Expire, Clock, vars
  <2>2. lastReclaim = cur[w] /\ lastReclaim' = at[w]
    BY <2>1 DEF Window, windowFree
  <2>3. lastReclaim \in Nat /\ at[w] \in Nat /\ ~throttled(at[w], cur[w])
    BY <2>1 DEF Window, LoadsChecked, Checked, Shape, Procs
  <2> QED
    BY <2>2, <2>3, QuotaAssumption DEF throttled
<1> QED
  BY <1>1, LoadsAreChecked, PTL DEF Spec, SweepsSpaced

-----------------------------------------------------------------------------
(* The counters balance *)

\* A Write in progress has a chunk in hand, and nothing else has.
ChunkInv == \A p \in Procs :
  /\ pc[p] \in {"idle", "clipload", "clipcas", "open", "bytesback", "clipback"} => chunk[p] = 0
  /\ pc[p] \in {"load", "cas", "append"} => chunk[p] # 0

BalanceInv == LoadsChecked /\ ChunkInv /\ Balanced

\* A step of process p alone.
Mine(p) == \A q \in Procs : q # p => /\ pc'[q] = pc[q] /\ chunk'[q] = chunk[q]
                                     /\ written'[q] = written[q] /\ due'[q] = due[q]

\* Every step keeps chunks where they belong.
LEMMA ChunkStep ==
  ASSUME LoadsChecked, ChunkInv, [Next]_vars
  PROVE  ChunkInv'
<1> USE QuotaAssumption DEF counterVars, nameVars, callVars, Goto, ChunkInv
<1>1. Shape
  BY DEF LoadsChecked
<1>2. ASSUME NEW w \in Procs, CreateStart(w) \/ ClipLoad(w) \/ ClipCAS(w)  PROVE ChunkInv'
  BY <1>1, <1>2 DEF CreateStart, ClipLoad, ClipCAS, Shape
<1>3. ASSUME NEW w \in Procs, WriteStart(w) \/ Load(w) \/ CAS(w)  PROVE ChunkInv'
  <2>1. CASE WriteStart(w)
    BY <1>1, <2>1 DEF WriteStart, Shape
  <2>2. CASE Load(w)
    BY <1>1, <2>2 DEF Load, Shape
  <2>3. CASE CAS(w)
    BY <1>1, <2>3 DEF CAS, Shape
  <2> QED
    BY <1>3, <2>1, <2>2, <2>3
<1>4. ASSUME NEW w \in Procs, Append(w) \/ ReleaseTail(w)  PROVE ChunkInv'
  <2>1. CASE Append(w)
    BY <1>1, <2>1 DEF Append, Shape
  <2>2. CASE ReleaseTail(w)
    BY <1>1, <2>2 DEF ReleaseTail, Shape
  <2> QED
    BY <1>4, <2>1, <2>2
<1>5. ASSUME NEW w \in Procs, Close(w) \/ Abort(w)  PROVE ChunkInv'
  BY <1>1, <1>5 DEF Close, Abort, Shape
<1>6. ASSUME NEW w \in Procs, Throttle(w) \/ Window(w)  PROVE ChunkInv'
  BY <1>1, <1>6 DEF Throttle, Window, Resume, Shape
<1>7. ASSUME NEW w \in Procs, SweepOne(w) \/ SweepEnd(w)  PROVE ChunkInv'
  BY <1>1, <1>7 DEF SweepOne, SweepEnd, Resume, Shape
<1>8. ASSUME NEW d \in Procs, Retire(d)  PROVE ChunkInv'
  BY <1>1, <1>8 DEF Retire, Shape
<1>9. ASSUME NEW p \in Procs, ReleaseBytes(p) \/ ReleaseClip(p)  PROVE ChunkInv'
  BY <1>1, <1>9 DEF ReleaseBytes, ReleaseClip, Shape
<1>10. ASSUME (\E w \in Writers : Expire(w)) \/ Clock \/ UNCHANGED vars  PROVE ChunkInv'
  BY <1>10 DEF Expire, Clock, vars
<1> QED
  BY <1>2, <1>3, <1>4, <1>5, <1>6, <1>7, <1>8, <1>9, <1>10 DEF Next, WriterStep, Procs

\* What the processes answer for changes by what the one that moves does.
LEMMA HeldAt ==
  ASSUME LoadsChecked, LoadsChecked', NEW p \in Procs, Mine(p)
  PROVE  /\ held[p] \in Nat /\ held'[p] \in Nat /\ slots[p] \in Nat /\ slots'[p] \in Nat
         /\ Sum(held, Procs) \in Nat /\ Sum(held, Procs)' \in Nat
         /\ Sum(slots, Procs) \in Nat /\ Sum(slots, Procs)' \in Nat
         /\ Sum(held, Procs)' = Sum(held, Procs) - held[p] + held'[p]
         /\ Sum(slots, Procs)' = Sum(slots, Procs) - slots[p] + slots'[p]
<1>1. \A q \in Procs : /\ written[q] \in Nat /\ chunk[q] \in Nat
                       /\ pc[q] \in {"bytesback", "sweepbytes"} => due[q] \in Nat
  BY DEF LoadsChecked, Checked, Shape
<1>2. \A q \in Procs : /\ written'[q] \in Nat /\ chunk'[q] \in Nat
                       /\ pc'[q] \in {"bytesback", "sweepbytes"} => due'[q] \in Nat
  BY DEF LoadsChecked, Checked, Shape
<1>3. held \in [Procs -> Nat] /\ slots \in [Procs -> Nat]
  BY <1>1 DEF held, slots
<1>4. held' \in [Procs -> Nat] /\ slots' \in [Procs -> Nat]
  BY <1>2 DEF held, slots
<1>5. \A q \in Procs : q # p => held'[q] = held[q] /\ slots'[q] = slots[q]
  BY DEF held, slots, Mine
<1> HIDE DEF held, slots
<1>6. /\ Sum(held, Procs) \in Nat /\ Sum(held', Procs) \in Nat
      /\ Sum(held', Procs) = Sum(held, Procs) - held[p] + held'[p]
  BY <1>3, <1>4, <1>5, SumAt, QuotaAssumption
<1>7. /\ Sum(slots, Procs) \in Nat /\ Sum(slots', Procs) \in Nat
      /\ Sum(slots', Procs) = Sum(slots, Procs) - slots[p] + slots'[p]
  BY <1>3, <1>4, <1>5, SumAt, QuotaAssumption
<1> QED
  BY <1>3, <1>4, <1>6, <1>7

\* The settled values add up to a number.
LEMMA SettledType ==
  ASSUME Shape
  PROVE  Sum(size, Writers) \in Nat /\ Cardinality(present) \in Nat
<1>1. IsFiniteSet(Writers)
  BY QuotaAssumption, FS_Subset DEF Procs
<1>2. size \in [Writers -> Nat]
  BY DEF size, Shape, Absent
<1>3. IsFiniteSet(Units(size, Writers)) /\ IsFiniteSet(present)
  BY <1>1, <1>2, UnitsFinite, FS_Subset DEF present
<1> QED
  BY <1>3, FS_CardinalityType DEF Sum

\* The settled values change by one name's.
LEMMA SettledAt ==
  ASSUME LoadsChecked, LoadsChecked', NEW v \in Writers,
         \A u \in Writers : u # v => settled'[u] = settled[u]
  PROVE  /\ size[v] \in Nat /\ size'[v] \in Nat
         /\ Sum(size, Writers) \in Nat /\ Sum(size, Writers)' \in Nat
         /\ Sum(size, Writers)' = Sum(size, Writers) - size[v] + size'[v]
         /\ Cardinality(present) \in Nat /\ Cardinality(present') \in Nat
         /\ Cardinality(present') = Cardinality(present)
              - (IF v \in present THEN 1 ELSE 0) + (IF v \in present' THEN 1 ELSE 0)
<1>1. IsFiniteSet(Writers)
  BY QuotaAssumption, FS_Subset DEF Procs
<1>2. size \in [Writers -> Nat] /\ size' \in [Writers -> Nat]
      /\ \A u \in Writers : u # v => size'[u] = size[u]
  BY DEF size, LoadsChecked, Shape, Absent
<1>3. /\ Sum(size, Writers) \in Nat /\ Sum(size', Writers) \in Nat
      /\ Sum(size', Writers) = Sum(size, Writers) - size[v] + size'[v]
  BY <1>1, <1>2, SumAt
<1>4. IsFiniteSet(present) /\ IsFiniteSet(present')
  BY <1>1, FS_Subset DEF present
<1>5. Cardinality(present) \in Nat /\ Cardinality(present') \in Nat
  BY <1>4, FS_CardinalityType
<1>6. /\ v \in present /\ v \in present' => present' = present
      /\ v \notin present /\ v \notin present' => present' = present
      /\ v \in present /\ v \notin present' => present' = present \ {v}
      /\ v \notin present /\ v \in present' => present' = present \cup {v}
  BY DEF present
<1>7. /\ v \in present => Cardinality(present \ {v}) = Cardinality(present) - 1
      /\ v \notin present => Cardinality(present \cup {v}) = Cardinality(present) + 1
  BY <1>4, FS_AddElement, FS_RemoveElement
<1>8. Cardinality(present') = Cardinality(present)
        - (IF v \in present THEN 1 ELSE 0) + (IF v \in present' THEN 1 ELSE 0)
  <2>1. CASE v \in present /\ v \in present'
    BY <1>5, <1>6, <2>1
  <2>2. CASE v \notin present /\ v \notin present'
    BY <1>5, <1>6, <2>2
  <2>3. CASE v \in present /\ v \notin present'
    <3>1. Cardinality(present') = Cardinality(present \ {v})
      BY <1>6, <2>3
    <3> QED
      BY <1>5, <1>7, <2>3, <3>1
  <2>4. CASE v \notin present /\ v \in present'
    <3>1. Cardinality(present') = Cardinality(present \cup {v})
      BY <1>6, <2>4
    <3> QED
      BY <1>5, <1>7, <2>4, <3>1
  <2> QED
    BY <2>1, <2>2, <2>3, <2>4
<1> QED
  BY <1>2, <1>3, <1>5, <1>8

\* Every step moves the counters with what they count.
LEMMA BalanceStep ==
  ASSUME LoadsChecked, LoadsChecked', ChunkInv, Balanced, [Next]_vars
  PROVE  Balanced'
<1> USE DEF counterVars, nameVars, callVars, Goto
<1>1. /\ Shape /\ Shape' /\ bytes \in Int /\ clips \in Int
      /\ bytes = Sum(size, Writers) + Sum(held, Procs)
      /\ clips = Cardinality(present) + Sum(slots, Procs)
      /\ \A p \in Procs : written[p] \in Nat /\ chunk[p] \in Nat
  BY DEF LoadsChecked, Balanced, Shape
\* A process that moves no value in or out of a name.
<1>2. ASSUME NEW p \in Procs, Mine(p), settled' = settled,
             bytes' = bytes - held[p] + held'[p], clips' = clips - slots[p] + slots'[p]
      PROVE  Balanced'
  <2>1. Sum(size, Writers)' = Sum(size, Writers) /\ Cardinality(present') = Cardinality(present)
    BY <1>2 DEF size, present
  <2>2. Sum(size, Writers) \in Int /\ Cardinality(present) \in Int
    BY <1>1, SettledType
  <2>3. /\ held[p] \in Nat /\ held'[p] \in Nat /\ slots[p] \in Nat /\ slots'[p] \in Nat
        /\ Sum(held, Procs) \in Nat /\ Sum(slots, Procs) \in Nat
        /\ Sum(held, Procs)' = Sum(held, Procs) - held[p] + held'[p]
        /\ Sum(slots, Procs)' = Sum(slots, Procs) - slots[p] + slots'[p]
    BY <1>2, HeldAt
  <2> QED
    BY <1>1, <1>2, <2>1, <2>2, <2>3 DEF Balanced
\* A process that takes a settled value, or settles one.
<1>3. ASSUME NEW p \in Procs, Mine(p), NEW v \in Writers, bytes' = bytes, clips' = clips,
             \A u \in Writers : u # v => settled'[u] = settled[u],
             held'[p] + size'[v] = held[p] + size[v],
             slots'[p] + (IF v \in present' THEN 1 ELSE 0)
               = slots[p] + (IF v \in present THEN 1 ELSE 0)
      PROVE  Balanced'
  <2>1. /\ held[p] \in Nat /\ held'[p] \in Nat /\ slots[p] \in Nat /\ slots'[p] \in Nat
        /\ Sum(held, Procs) \in Nat /\ Sum(slots, Procs) \in Nat
        /\ Sum(held, Procs)' = Sum(held, Procs) - held[p] + held'[p]
        /\ Sum(slots, Procs)' = Sum(slots, Procs) - slots[p] + slots'[p]
    BY <1>3, HeldAt
  <2>2. /\ size[v] \in Nat /\ size'[v] \in Nat /\ Sum(size, Writers) \in Nat
        /\ Sum(size, Writers)' = Sum(size, Writers) - size[v] + size'[v]
        /\ Cardinality(present) \in Nat
        /\ Cardinality(present') = Cardinality(present)
             - (IF v \in present THEN 1 ELSE 0) + (IF v \in present' THEN 1 ELSE 0)
    BY <1>3, SettledAt
  <2>3. bytes' = Sum(size, Writers)' + Sum(held, Procs)'
    BY <1>1, <1>3, <2>1, <2>2
  <2>4. clips' = Cardinality(present') + Sum(slots, Procs)'
    BY <1>1, <1>3, <2>1, <2>2
  <2> QED
    BY <2>3, <2>4 DEF Balanced
<1>4. ASSUME NEW w \in Procs, CreateStart(w) \/ ClipLoad(w) \/ ClipCAS(w)  PROVE Balanced'
  <2>1. Mine(w) /\ settled' = settled
    BY <1>1, <1>4 DEF Mine, CreateStart, ClipLoad, ClipCAS, Shape
  <2>2. held'[w] = held[w] /\ held[w] \in Nat
    BY <1>1, <1>4 DEF held, CreateStart, ClipLoad, ClipCAS, Shape
  <2>3. clips' = clips - slots[w] + slots'[w]
    BY <1>1, <1>4 DEF slots, ChunkInv, CreateStart, ClipLoad, ClipCAS, Shape
  <2>4. bytes' = bytes
    BY <1>4 DEF CreateStart, ClipLoad, ClipCAS
  <2> QED
    BY <1>1, <1>2, <2>1, <2>2, <2>3, <2>4
<1>5. ASSUME NEW w \in Procs, WriteStart(w) \/ Load(w)  PROVE Balanced'
  <2>1. Mine(w) /\ settled' = settled /\ bytes' = bytes /\ clips' = clips
    BY <1>1, <1>5 DEF Mine, WriteStart, Load, Shape
  <2>2. held'[w] = held[w] /\ held[w] \in Nat
    BY <1>1, <1>5 DEF held, WriteStart, Load, Shape
  <2>3. slots'[w] = slots[w] /\ slots[w] \in Nat
    BY <1>1, <1>5 DEF slots, ChunkInv, WriteStart, Load, Shape
  <2> QED
    BY <1>1, <1>2, <2>1, <2>2, <2>3
<1>6. ASSUME NEW w \in Procs, CAS(w)  PROVE Balanced'
  <2>1. Mine(w) /\ settled' = settled /\ clips' = clips
    BY <1>1, <1>6 DEF Mine, CAS, Shape
  <2>2. bytes' = bytes - held[w] + held'[w]
    BY <1>1, <1>6 DEF held, CAS, Shape
  <2>3. slots'[w] = slots[w] /\ slots[w] \in Nat
    BY <1>1, <1>6 DEF slots, CAS, Shape
  <2> QED
    BY <1>1, <1>2, <2>1, <2>2, <2>3
<1>7. ASSUME NEW w \in Procs, Append(w)  PROVE Balanced'
  <2>1. Mine(w) /\ settled' = settled /\ clips' = clips /\ bytes' = bytes
    BY <1>1, <1>7 DEF Mine, Append, Shape
  <2>2. held'[w] = held[w] /\ held[w] \in Nat
    <3>1. PICK k \in 0..chunk[w] : /\ written'[w] = written[w] + k /\ chunk'[w] = chunk[w] - k
                                   /\ pc'[w] = IF k < chunk[w] THEN "tail" ELSE "open"
      BY <1>1, <1>7 DEF Append, Shape
    <3>2. pc[w] = "append"
      BY <1>7 DEF Append
    <3> QED
      BY <1>1, <3>1, <3>2 DEF held
  <2>3. slots'[w] = slots[w] /\ slots[w] \in Nat
    BY <1>1, <1>7 DEF slots, Append, Shape
  <2> QED
    BY <1>1, <1>2, <2>1, <2>2, <2>3
<1>8. ASSUME NEW w \in Procs, ReleaseTail(w)  PROVE Balanced'
  <2>1. Mine(w) /\ settled' = settled /\ clips' = clips
    BY <1>1, <1>8 DEF Mine, ReleaseTail, Shape
  <2>2. bytes' = bytes - held[w] + held'[w]
    BY <1>1, <1>8 DEF held, ReleaseTail, tailOf, Shape
  <2>3. slots'[w] = slots[w] /\ slots[w] \in Nat
    BY <1>1, <1>8 DEF slots, ReleaseTail, Shape
  <2> QED
    BY <1>1, <1>2, <2>1, <2>2, <2>3
<1>9. ASSUME NEW w \in Procs, w \in Writers, Close(w)  PROVE Balanced'
  <2>1. /\ Mine(w) /\ clips' = clips /\ bytes' = bytes
        /\ \A u \in Writers : u # w => settled'[u] = settled[u]
    BY <1>1, <1>9 DEF Mine, Close, Shape
  <2>2. /\ pc[w] = "open" /\ settled'[w] = written[w] /\ written'[w] = 0 /\ due'[w] = settled[w]
        /\ pc'[w] = IF settled[w] # Absent THEN "bytesback" ELSE "idle"
        /\ settled[w] \in Nat \cup {Absent} /\ chunk'[w] = chunk[w]
    BY <1>1, <1>9 DEF Close, Shape
  <2>3. held'[w] + size'[w] = held[w] + size[w]
    BY <1>1, <1>9, <2>2 DEF held, size, Absent
  <2>4. slots'[w] + (IF w \in present' THEN 1 ELSE 0) = slots[w] + (IF w \in present THEN 1 ELSE 0)
    BY <1>1, <1>9, <2>2 DEF slots, present, Absent
  <2> QED
    BY <1>3, <1>9, <2>1, <2>3, <2>4
<1>10. ASSUME NEW w \in Procs, Abort(w)  PROVE Balanced'
  <2>1. Mine(w) /\ settled' = settled /\ clips' = clips /\ bytes' = bytes
    BY <1>1, <1>10 DEF Mine, Abort, Shape
  <2>2. held'[w] = held[w] /\ held[w] \in Nat
    BY <1>1, <1>10 DEF held, Abort, Shape
  <2>3. slots'[w] = slots[w] /\ slots[w] \in Nat
    BY <1>1, <1>10 DEF slots, Abort, Shape
  <2> QED
    BY <1>1, <1>2, <2>1, <2>2, <2>3
<1>11. ASSUME NEW p \in Procs, NEW v \in present, Mine(p), settled' = [settled EXCEPT ![v] = Absent],
              due'[p] = settled[v], written' = written, chunk' = chunk, bytes' = bytes, clips' = clips,
              \/ pc[p] = "idle" /\ pc'[p] = "bytesback"
              \/ pc[p] = "sweep" /\ pc'[p] = "sweepbytes"
       PROVE  Balanced'
  <2>1. v \in Writers /\ settled[v] \in Nat /\ settled \in [Writers -> Nat \cup {Absent}]
    BY <1>1 DEF present, Shape
  <2>2. settled'[v] = Absent /\ \A u \in Writers : u # v => settled'[u] = settled[u]
    BY <1>11, <2>1
  <2>3. held'[p] + size'[v] = held[p] + size[v]
    BY <1>1, <1>11, <2>1, <2>2 DEF held, size, Absent
  <2>4. slots'[p] + (IF v \in present' THEN 1 ELSE 0) = slots[p] + (IF v \in present THEN 1 ELSE 0)
    BY <1>1, <1>11, <2>1, <2>2 DEF slots, present, ChunkInv
  <2> QED
    BY <1>3, <1>11, <2>1, <2>2, <2>3, <2>4
<1>12. ASSUME NEW d \in Procs, Retire(d)  PROVE Balanced'
  <2>1. PICK v \in present : /\ due' = [due EXCEPT ![d] = settled[v]]
                             /\ settled' = [settled EXCEPT ![v] = Absent]
    BY <1>12 DEF Retire
  <2> QED
    BY <1>1, <1>11, <1>12, <2>1 DEF Retire, Mine, Shape
<1>13. ASSUME NEW w \in Procs, SweepOne(w)  PROVE Balanced'
  <2>1. PICK v \in present : /\ due' = [due EXCEPT ![w] = settled[v]]
                             /\ settled' = [settled EXCEPT ![v] = Absent]
    BY <1>1, <1>13 DEF SweepOne, Shape
  <2> QED
    BY <1>1, <1>11, <1>13, <2>1 DEF SweepOne, Mine, Shape
<1>14. ASSUME NEW w \in Procs, Throttle(w) \/ Window(w) \/ SweepEnd(w)  PROVE Balanced'
  <2>1. Mine(w) /\ settled' = settled /\ clips' = clips /\ bytes' = bytes
    BY <1>1, <1>14 DEF Mine, Throttle, Window, SweepEnd, Resume, Shape
  <2>2. /\ pc[w] \in {"throttle", "window", "sweep"} /\ chunk' = chunk /\ written' = written
        /\ pc'[w] \in {"window", "sweep"} \cup
             (IF chunk[w] # 0 THEN {"load"} ELSE {"clipload", "idle"})
    <3>1. CASE Throttle(w)
      BY <1>1, <3>1 DEF Throttle, Resume, Shape
    <3>2. CASE Window(w)
      BY <1>1, <3>2 DEF Window, Resume, Shape
    <3>3. CASE SweepEnd(w)
      BY <1>1, <3>3 DEF SweepEnd, Resume, Shape
    <3> QED
      BY <1>14, <3>1, <3>2, <3>3
  <2>3. held'[w] = held[w] /\ held[w] \in Nat
    BY <1>1, <2>2 DEF held
  <2>4. slots'[w] = slots[w] /\ slots[w] \in Nat
    BY <1>1, <2>2 DEF slots
  <2> QED
    BY <1>1, <1>2, <2>1, <2>3, <2>4
<1>15. ASSUME NEW p \in Procs, ReleaseBytes(p)  PROVE Balanced'
  <2>1. Mine(p) /\ settled' = settled /\ clips' = clips
    BY <1>1, <1>15 DEF Mine, ReleaseBytes, Shape
  <2>2. due[p] \in Nat /\ bytes' = bytes - due[p] /\ written' = written /\ chunk' = chunk
        /\ \/ pc[p] = "bytesback" /\ pc'[p] = "clipback"
           \/ pc[p] = "sweepbytes" /\ pc'[p] = "sweepclip"
    BY <1>1, <1>15 DEF ReleaseBytes, LoadsChecked, Checked, Shape
  <2>3. bytes' = bytes - held[p] + held'[p]
    BY <1>1, <2>2 DEF held
  <2>4. slots'[p] = slots[p] /\ slots[p] \in Nat
    BY <1>1, <2>2 DEF slots
  <2> QED
    BY <1>1, <1>2, <2>1, <2>3, <2>4
<1>16. ASSUME NEW p \in Procs, ReleaseClip(p)  PROVE Balanced'
  <2>1. Mine(p) /\ settled' = settled /\ bytes' = bytes
    BY <1>1, <1>16 DEF Mine, ReleaseClip, Shape
  <2>2. clips' = clips - 1 /\ written' = written /\ chunk' = chunk
        /\ \/ pc[p] = "clipback" /\ pc'[p] = "idle"
           \/ pc[p] = "sweepclip" /\ pc'[p] = "sweep"
    BY <1>1, <1>16 DEF ReleaseClip, Shape
  <2>3. held'[p] = held[p] /\ held[p] \in Nat
    BY <1>1, <2>2 DEF held
  <2>4. clips' = clips - slots[p] + slots'[p]
    BY <1>1, <2>2 DEF slots, ChunkInv
  <2> QED
    BY <1>1, <1>2, <2>1, <2>3, <2>4
<1>17. ASSUME (\E w \in Writers : Expire(w)) \/ Clock \/ UNCHANGED vars  PROVE Balanced'
  <2>1. UNCHANGED <<bytes, clips, settled, pc, chunk, written, due>>
    BY <1>17 DEF Expire, Clock, vars
  <2>2. held' = held /\ slots' = slots /\ size' = size /\ present' = present
    BY <2>1 DEF held, slots, size, present
  <2> QED
    BY <1>1, <2>1, <2>2 DEF Balanced, Sum, Units
<1> QED
  BY <1>4, <1>5, <1>6, <1>7, <1>8, <1>9, <1>10, <1>12, <1>13, <1>14, <1>15, <1>16, <1>17
     DEF Next, WriterStep, Procs

\* The balance, with what each process has loaded and has in hand.
THEOREM BalanceInvariant == Spec => []BalanceInv
<1>1. Init => BalanceInv
  <2> SUFFICES ASSUME Init  PROVE ChunkInv /\ Balanced
    BY Initially DEF BalanceInv
  <2>1. ChunkInv
    BY DEF Init, ChunkInv
  <2>2. /\ held \in [Procs -> Nat] /\ \A p \in Procs : held[p] = 0
        /\ slots \in [Procs -> Nat] /\ \A p \in Procs : slots[p] = 0
    BY DEF Init, held, slots
  <2>3. Sum(held, Procs) = 0 /\ Sum(slots, Procs) = 0
    BY <2>2, SumZero
  <2>4. bytes \in Int /\ clips \in Int
    BY Initially DEF LoadsChecked, Shape
  <2> QED
    BY <2>1, <2>3, <2>4 DEF Init, Balanced
<1>2. BalanceInv /\ [Next]_vars => BalanceInv'
  BY Inductive, ChunkStep, BalanceStep DEF BalanceInv
<1> QED
  BY <1>1, <1>2, PTL DEF Spec

\* Balanced, for any number of writers and cleaners, any limits and chunk
\* sizes: no byte and no slot is leaked, or given back twice.
THEOREM CountersBalance == Spec => []Balanced
<1>1. BalanceInv => Balanced
  BY DEF BalanceInv
<1> QED
  BY <1>1, BalanceInvariant, PTL

\* A balanced counter counts something.
LEMMA CountersNatural ==
  ASSUME LoadsChecked, Balanced
  PROVE  bytes \in Nat /\ clips \in Nat
<1>1. \A q \in Procs : /\ written[q] \in Nat /\ chunk[q] \in Nat
                       /\ pc[q] \in {"bytesback", "sweepbytes"} => due[q] \in Nat
  BY DEF LoadsChecked, Checked, Shape
<1>2. held \in [Procs -> Nat] /\ slots \in [Procs -> Nat]
  BY <1>1 DEF held, slots
<1>3. Sum(held, Procs) \in Nat /\ Sum(slots, Procs) \in Nat
  BY <1>2, UnitsFinite, FS_CardinalityType, QuotaAssumption DEF Sum
<1> QED
  BY <1>3, SettledType DEF LoadsChecked, Balanced

\* TypeOK, the counters' signs included: no sequence of reservations, refusals
\* and reclaims takes a counter below zero.
THEOREM TypeCorrect == Spec => []TypeOK
<1> USE QuotaAssumption
<1> DEFINE Counts == bytes \in Nat /\ clips \in Nat
<1>1. Init => TypeOK
  <2> SUFFICES ASSUME Init  PROVE TypeOK
    OBVIOUS
  <2>1. Shape /\ bytes \in Nat /\ clips \in Nat
    BY Initially, SettledType DEF Init, LoadsChecked
  <2> QED
    BY <2>1 DEF Init, TypeOK, Shape, present, PCs
<1>2. BalanceInv /\ TypeOK /\ [Next]_vars /\ Counts' => TypeOK'
  <2> SUFFICES ASSUME BalanceInv, TypeOK, [Next]_vars, Counts'  PROVE TypeOK'
    OBVIOUS
  <2> USE DEF counterVars, nameVars, callVars, Goto
  <2>1. Shape'
    BY ShapeStep DEF BalanceInv
  <2>2. cur' \in [Procs -> Nat]
    <3>1. /\ cur \in [Procs -> Nat] /\ bytes \in Nat /\ clips \in Nat /\ lastReclaim \in Nat
          /\ 0 \in Nat /\ 1 \in Nat
      BY DEF TypeOK
    <3>2. ASSUME NEW w \in Procs, ClipLoad(w) \/ Load(w) \/ Throttle(w)  PROVE cur' \in [Procs -> Nat]
      BY <3>1, <3>2 DEF ClipLoad, Load, Throttle
    <3>3. ASSUME NEW w \in Procs, Window(w) \/ SweepOne(w) \/ SweepEnd(w)
          PROVE  cur' \in [Procs -> Nat]
      BY <3>1, <3>3 DEF Window, SweepOne, SweepEnd
    <3>4. ASSUME NEW w \in Procs, \/ CreateStart(w) \/ ClipCAS(w) \/ WriteStart(w) \/ CAS(w)
                                 \/ Append(w) \/ ReleaseTail(w) \/ Close(w) \/ Abort(w)
                                 \/ Retire(w) \/ ReleaseBytes(w) \/ ReleaseClip(w) \/ Expire(w)
          PROVE  cur' = cur
      BY <3>4 DEF CreateStart, ClipCAS, WriteStart, CAS, Append, ReleaseTail, Close, Abort,
                  Retire, ReleaseBytes, ReleaseClip, Expire
    <3>5. ASSUME Clock \/ UNCHANGED vars  PROVE cur' = cur
      BY <3>5 DEF Clock, vars
    <3> QED
      BY <3>1, <3>2, <3>3, <3>4, <3>5 DEF Next, WriterStep, Procs
  <2>3. tries' \in [Procs -> 0..2]
    BY DEF TypeOK, Next, WriterStep, Procs, CreateStart, ClipLoad, ClipCAS, WriteStart, Load, CAS,
           Append, ReleaseTail, Close, Abort, Throttle, Window, SweepOne, SweepEnd, Retire,
           ReleaseBytes, ReleaseClip, Expire, Clock, vars, Resume
  <2>4. at' \in [Procs -> 0..MaxNow] /\ lastReclaim' \in 0..MaxNow
    <3>1. at \in [Procs -> 0..MaxNow] /\ lastReclaim \in 0..MaxNow /\ now \in 0..MaxNow
          /\ 0 \in 0..MaxNow
      BY DEF TypeOK
    <3>2. ASSUME NEW w \in Procs, Throttle(w) \/ Window(w)
          PROVE  at' \in [Procs -> 0..MaxNow] /\ lastReclaim' \in 0..MaxNow
      <4>1. CASE Throttle(w)
        <5>1. lastReclaim' = lastReclaim /\ (at' = at \/ at' = [at EXCEPT ![w] = now])
          BY <4>1 DEF Throttle
        <5> QED
          BY <3>1, <5>1
      <4>2. CASE Window(w)
        <5>1. at' = [at EXCEPT ![w] = 0] /\ lastReclaim' \in {at[w], lastReclaim}
          BY <4>2 DEF Window
        <5> QED
          BY <3>1, <3>2, <5>1
      <4> QED
        BY <3>2, <4>1, <4>2
    <3>3. ASSUME NEW w \in Procs, \/ CreateStart(w) \/ ClipLoad(w) \/ ClipCAS(w) \/ WriteStart(w)
                                 \/ Load(w) \/ CAS(w) \/ Append(w) \/ ReleaseTail(w)
                                 \/ Close(w) \/ Abort(w) \/ SweepOne(w) \/ SweepEnd(w)
                                 \/ Retire(w) \/ ReleaseBytes(w) \/ ReleaseClip(w) \/ Expire(w)
          PROVE  at' = at /\ lastReclaim' = lastReclaim
      BY <3>3 DEF CreateStart, ClipLoad, ClipCAS, WriteStart, Load, CAS, Append, ReleaseTail,
                  Close, Abort, SweepOne, SweepEnd, Retire, ReleaseBytes, ReleaseClip, Expire
    <3>4. ASSUME Clock \/ UNCHANGED vars  PROVE at' = at /\ lastReclaim' = lastReclaim
      BY <3>4 DEF Clock, vars
    <3> QED
      BY <3>1, <3>2, <3>3, <3>4 DEF Next, WriterStep, Procs
  <2> QED
    BY <2>1, <2>2, <2>3, <2>4 DEF TypeOK, Shape, present
<1>3. BalanceInv => Counts
  BY CountersNatural DEF BalanceInv
<1> QED
  BY <1>1, <1>2, <1>3, BalanceInvariant, PTL DEF Spec
=============================================================================
