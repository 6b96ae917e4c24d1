------------------------------- MODULE Quota --------------------------------
(***************************************************************************)
(* The store's shared budget (quota.go) and the write path around it       *)
(* (writer.Write, Create's reservation, reclaimExpired): two atomic        *)
(* counters reserved by load / check / compare-and-swap, given back by     *)
(* plain adds when a home is reclaimed, and the throttled pressure sweep.  *)
(* Each atomic access is one action.                                       *)
(*                                                                         *)
(* Every writer here writes its own name; module Slot has the contention   *)
(* on one name, so at most one write per name is in progress and the flip  *)
(* is one step.  Expiry is an event of its own.                            *)
(***************************************************************************)
EXTENDS Integers, FiniteSets

CONSTANTS
  Writers,                     \* writer goroutines, one name each
  Cleaners,                    \* Deletes and background sweeps
  MaxClip, MaxTotal, MaxClips, \* Config; 0 is unlimited
  Interval,                    \* minReclaimInterval
  Chunks,                      \* sizes a Write may have
  Inherited,                   \* sizes restored at startup
  MaxSize,                     \* bound: bytes in one generation
  MaxNow                       \* bound: readings of the wall clock

Procs == Writers \cup Cleaners
Absent == -1                   \* no settled generation, no debt

ASSUME QuotaAssumption ==
  /\ IsFiniteSet(Procs) /\ Writers \cap Cleaners = {}
  /\ MaxClip \in Nat /\ MaxTotal \in Nat /\ MaxClips \in Nat
  /\ Interval \in Nat \ {0}
  /\ Chunks \subseteq Nat \ {0} /\ Inherited \subseteq Nat
  /\ MaxSize \in Nat /\ MaxNow \in Nat \ {0}

VARIABLES
  bytes, clips,      \* the quota's counters
  lastReclaim,       \* the sweep throttle
  now,               \* the wall clock, which may go backwards
  settled,           \* [Writers -> size of the name's current, or Absent]
  expired,           \* names whose current is past its deadline
  pc,
  cur,               \* the counter value loaded for the compare-and-swap
  chunk,             \* bytes reserved, or being reserved, for this Write
  written,           \* bytes landed in the live generation
  tries,             \* reservation attempts of this call
  at,                \* the instant reclaimExpired was called with
  due                \* bytes of the generation being reclaimed, or Absent

counterVars == <<bytes, clips, lastReclaim>>
nameVars    == <<settled, expired>>
callVars    == <<cur, chunk, written, tries, at, due>>
vars == <<counterVars, now, nameVars, pc, callVars>>

PCs == {"idle", "clipload", "clipcas", "open", "load", "cas", "append", "tail",
        "throttle", "window", "sweep", "bytesback", "clipback",
        "sweepbytes", "sweepclip"}

TypeOK ==
  /\ bytes \in Nat /\ clips \in Nat
  /\ lastReclaim \in 0..MaxNow /\ now \in 1..MaxNow
  /\ settled \in [Writers -> Nat \cup {Absent}]
  /\ expired \subseteq Writers
  /\ pc \in [Procs -> PCs]
  /\ cur \in [Procs -> Nat]
  /\ chunk \in [Procs -> Nat]
  /\ written \in [Procs -> Nat]
  /\ tries \in [Procs -> 0..2]
  /\ at \in [Procs -> 0..MaxNow]
  /\ due \in [Procs -> Nat \cup {Absent}]

present == {v \in Writers : settled[v] # Absent}

\* The sum of f over S, as a count of its units: <<x, 1>> up to <<x, f[x]>>.
Units(f, S) == UNION {{x} \X (1..f[x]) : x \in S}
Sum(f, S) == Cardinality(Units(f, S))

size == [v \in Writers |-> IF settled[v] = Absent THEN 0 ELSE settled[v]]

\* restore: the inherited footprint is taken as it is, over a cap or not.
Init ==
  /\ settled \in [Writers -> Inherited \cup {Absent}]
  /\ expired = {}
  /\ bytes = Sum(size, Writers)
  /\ clips = Cardinality(present)
  /\ lastReclaim = 0 /\ now = 1
  /\ pc = [p \in Procs |-> "idle"]
  /\ cur = [p \in Procs |-> 0]
  /\ chunk = [p \in Procs |-> 0]
  /\ written = [p \in Procs |-> 0]
  /\ tries = [p \in Procs |-> 0]
  /\ at = [p \in Procs |-> 0]
  /\ due = [p \in Procs |-> Absent]

Goto(p, l) == pc' = [pc EXCEPT ![p] = l]

-----------------------------------------------------------------------------
(* Create: one count slot *)

CreateStart(w) ==
  /\ pc[w] = "idle"
  /\ Goto(w, "clipload")
  /\ tries' = [tries EXCEPT ![w] = 1]
  /\ UNCHANGED <<counterVars, now, nameVars, cur, chunk, written, at, due>>

\* reserveClip's load and limit check; a first refusal tries the sweep.
overClips(c) == MaxClips # 0 /\ c + 1 > MaxClips

ClipLoad(w) ==
  /\ pc[w] = "clipload"
  /\ cur' = [cur EXCEPT ![w] = clips]
  /\ Goto(w, IF ~overClips(clips) THEN "clipcas"
             ELSE IF tries[w] = 1 THEN "throttle" ELSE "idle")
  /\ UNCHANGED <<counterVars, now, nameVars, chunk, written, tries, at, due>>

ClipCAS(w) ==
  /\ pc[w] = "clipcas"
  /\ IF clips = cur[w] THEN clips' = clips + 1 /\ Goto(w, "open")
                       ELSE UNCHANGED clips /\ Goto(w, "clipload")
  /\ UNCHANGED <<bytes, lastReclaim, now, nameVars, callVars>>

-----------------------------------------------------------------------------
(* Write: the per-clip check, the byte reservation, the append *)

perClipOK(running, n) == MaxClip = 0 \/ running + n <= MaxClip

WriteStart(w) ==
  /\ pc[w] = "open"
  /\ \E n \in Chunks :
       /\ perClipOK(written[w], n)          \* otherwise ErrTooLarge
       /\ written[w] + n <= MaxSize
       /\ chunk' = [chunk EXCEPT ![w] = n]
  /\ tries' = [tries EXCEPT ![w] = 1]
  /\ Goto(w, "load")
  /\ UNCHANGED <<counterVars, now, nameVars, cur, written, at, due>>

overTotal(c, n) == MaxTotal # 0 /\ c + n > MaxTotal

\* reserve's load and limit check; a first refusal tries the sweep, a second
\* one is ErrNoSpace and reserves nothing.
Load(w) ==
  /\ pc[w] = "load"
  /\ cur' = [cur EXCEPT ![w] = bytes]
  /\ IF overTotal(bytes, chunk[w])
       THEN IF tries[w] = 1
            THEN Goto(w, "throttle") /\ UNCHANGED chunk
            ELSE Goto(w, "open") /\ chunk' = [chunk EXCEPT ![w] = 0]
       ELSE Goto(w, "cas") /\ UNCHANGED chunk
  /\ UNCHANGED <<counterVars, now, nameVars, written, tries, at, due>>

\* The swap takes only if nobody moved the counter since the load.
casBlind(w) == TRUE
casWins(w) == bytes = cur[w]

CAS(w) ==
  /\ pc[w] = "cas"
  /\ IF casWins(w) THEN bytes' = bytes + chunk[w] /\ Goto(w, "append")
                   ELSE UNCHANGED bytes /\ Goto(w, "load")
  /\ UNCHANGED <<clips, lastReclaim, now, nameVars, callVars>>

\* Append lands some prefix of the chunk; the rest of the reservation returns.
Append(w) ==
  /\ pc[w] = "append"
  /\ \E k \in 0..chunk[w] :
       /\ written' = [written EXCEPT ![w] = @ + k]
       /\ chunk' = [chunk EXCEPT ![w] = @ - k]
       /\ Goto(w, IF k < chunk[w] THEN "tail" ELSE "open")
  /\ UNCHANGED <<counterVars, now, nameVars, cur, tries, at, due>>

tailKept(w) == 0
tailOf(w) == chunk[w]

ReleaseTail(w) ==
  /\ pc[w] = "tail"
  /\ bytes' = bytes - tailOf(w)
  /\ chunk' = [chunk EXCEPT ![w] = 0]
  /\ Goto(w, "open")
  /\ UNCHANGED <<clips, lastReclaim, now, nameVars, cur, written, tries, at, due>>

-----------------------------------------------------------------------------
(* The terminals and the reclaim *)

\* Close: the live generation settles; a superseded one is reclaimed.
Close(w) ==
  /\ pc[w] = "open"
  /\ due' = [due EXCEPT ![w] = settled[w]]
  /\ settled' = [settled EXCEPT ![w] = written[w]]
  /\ expired' = expired \ {w}
  /\ written' = [written EXCEPT ![w] = 0]
  /\ Goto(w, IF settled[w] # Absent THEN "bytesback" ELSE "idle")
  /\ UNCHANGED <<counterVars, now, cur, chunk, tries, at>>

Abort(w) ==
  /\ pc[w] = "open"
  /\ due' = [due EXCEPT ![w] = written[w]]
  /\ written' = [written EXCEPT ![w] = 0]
  /\ Goto(w, "bytesback")
  /\ UNCHANGED <<counterVars, now, nameVars, cur, chunk, tries, at>>

\* A Delete, a claim's cleanup or the background sweep takes a settled value.
Retire(d) ==
  /\ pc[d] = "idle"
  /\ \E v \in present :
       /\ due' = [due EXCEPT ![d] = settled[v]]
       /\ settled' = [settled EXCEPT ![v] = Absent]
       /\ expired' = expired \ {v}
  /\ Goto(d, "bytesback")
  /\ UNCHANGED <<counterVars, now, cur, chunk, written, tries, at>>

\* releaseGen: the bytes, then the slot.
ReleaseBytes(p) ==
  /\ \/ pc[p] = "bytesback" /\ Goto(p, "clipback")
     \/ pc[p] = "sweepbytes" /\ Goto(p, "sweepclip")
  /\ bytes' = bytes - due[p]
  /\ due' = [due EXCEPT ![p] = Absent]
  /\ UNCHANGED <<clips, lastReclaim, now, nameVars, cur, chunk, written,
                 tries, at>>

ReleaseClip(p) ==
  /\ \/ pc[p] = "clipback" /\ Goto(p, "idle")
     \/ pc[p] = "sweepclip" /\ Goto(p, "sweep")
  /\ clips' = clips - 1
  /\ UNCHANGED <<bytes, lastReclaim, now, nameVars, callVars>>

-----------------------------------------------------------------------------
(* reclaimExpired: at most one pressure sweep per interval, store-wide *)

\* Back to the refused call: Write probes again whatever happened, Create only
\* if its own sweep freed something.
Resume(w, freed) ==
  /\ tries' = [tries EXCEPT ![w] = 2]
  /\ Goto(w, IF chunk[w] # 0 THEN "load" ELSE IF freed THEN "clipload" ELSE "idle")

throttled(t, last) == last # 0 /\ t - last < Interval

Throttle(w) ==
  /\ pc[w] = "throttle"
  /\ cur' = [cur EXCEPT ![w] = lastReclaim]
  /\ IF throttled(now, lastReclaim)
       THEN Resume(w, FALSE) /\ UNCHANGED at
       ELSE /\ at' = [at EXCEPT ![w] = now]
            /\ Goto(w, "window")
            /\ UNCHANGED tries
  /\ UNCHANGED <<counterVars, now, nameVars, chunk, written, due>>

windowBlind(w) == TRUE
windowFree(w) == lastReclaim = cur[w]

\* The CAS on the window; losing it means somebody else sweeps.
Window(w) ==
  /\ pc[w] = "window"
  /\ at' = [at EXCEPT ![w] = 0]
  /\ cur' = [cur EXCEPT ![w] = 0]
  /\ IF windowFree(w)
       THEN lastReclaim' = at[w] /\ Goto(w, "sweep") /\ UNCHANGED tries
       ELSE Resume(w, FALSE) /\ UNCHANGED lastReclaim
  /\ UNCHANGED <<bytes, clips, now, nameVars, chunk, written, due>>

\* Reap one expired value, or end the sweep.  cur counts what was freed.
SweepOne(w) ==
  /\ pc[w] = "sweep"
  /\ \E v \in expired :
       /\ due' = [due EXCEPT ![w] = settled[v]]
       /\ settled' = [settled EXCEPT ![v] = Absent]
       /\ expired' = expired \ {v}
  /\ cur' = [cur EXCEPT ![w] = 1]
  /\ Goto(w, "sweepbytes")
  /\ UNCHANGED <<counterVars, now, chunk, written, tries, at>>

SweepEnd(w) ==
  /\ pc[w] = "sweep"
  /\ cur' = [cur EXCEPT ![w] = 0]
  /\ Resume(w, cur[w] # 0)
  /\ UNCHANGED <<counterVars, now, nameVars, chunk, written, at, due>>

-----------------------------------------------------------------------------
Expire(v) ==
  /\ v \in present \ expired
  /\ expired' = expired \cup {v}
  /\ UNCHANGED <<counterVars, now, settled, pc, callVars>>

Clock ==
  /\ now' \in (1..MaxNow) \ {now}
  /\ UNCHANGED <<counterVars, nameVars, pc, callVars>>

WriterStep(w) ==
  \/ CreateStart(w) \/ ClipLoad(w) \/ ClipCAS(w)
  \/ WriteStart(w) \/ Load(w) \/ CAS(w) \/ Append(w) \/ ReleaseTail(w)
  \/ Close(w) \/ Abort(w)
  \/ Throttle(w) \/ Window(w) \/ SweepOne(w) \/ SweepEnd(w)

Next ==
  \/ \E w \in Writers : WriterStep(w) \/ Expire(w)
  \/ \E d \in Cleaners : Retire(d)
  \/ \E p \in Procs : ReleaseBytes(p) \/ ReleaseClip(p)
  \/ Clock

Spec == Init /\ [][Next]_vars

-----------------------------------------------------------------------------
(* Properties *)

\* However reservations race, no counter is ever raised past its cap.  (An
\* inherited footprint may start above it, and then only shrinks.)
NeverRaisedPastCap ==
  [][/\ bytes' > bytes /\ MaxTotal # 0 => bytes' <= MaxTotal
     /\ clips' > clips /\ MaxClips # 0 => clips' <= MaxClips]_vars

\* The bytes a process answers for: landed, reserved, or being given back.
held == [p \in Procs |->
  written[p] + (IF pc[p] \in {"append", "tail"} THEN chunk[p] ELSE 0)
             + (IF pc[p] \in {"bytesback", "sweepbytes"} THEN due[p] ELSE 0)]

\* The slots: the live generation's, and one being given back.
slots == [p \in Procs |->
  (IF \/ pc[p] \in {"open", "load", "cas", "append", "tail"}
      \/ chunk[p] # 0 /\ pc[p] \in {"throttle", "window", "sweep", "sweepbytes", "sweepclip"}
   THEN 1 ELSE 0)
  + (IF pc[p] \in {"bytesback", "clipback", "sweepbytes", "sweepclip"} THEN 1 ELSE 0)]

\* The counters are exact at every instant: each byte and each slot reserved is
\* a byte landed or about to, a settled value's, or on its way back, once.
Balanced ==
  /\ bytes = Sum(size, Writers) + Sum(held, Procs)
  /\ clips = Cardinality(present) + Sum(slots, Procs)

\* Pressure sweeps of the whole store are at least an interval apart, with any
\* number of writers refused at once and a clock that jumps back.
SweepsSpaced ==
  [][lastReclaim' # lastReclaim =>
       lastReclaim = 0 \/ lastReclaim' >= lastReclaim + Interval]_vars

(***************************************************************************)
(* The inductive invariant behind NeverRaisedPastCap and SweepsSpaced:     *)
(* what a process loaded is what it checked (module QuotaProofs).          *)
(***************************************************************************)

\* Shapes, with the counters only known to be integers.
Shape ==
  /\ bytes \in Int /\ clips \in Int
  /\ lastReclaim \in Nat /\ now \in 1..MaxNow
  /\ settled \in [Writers -> Nat \cup {Absent}]
  /\ expired \subseteq present
  /\ pc \in [Procs -> PCs]
  /\ cur \in [Procs -> Int]
  /\ chunk \in [Procs -> Nat]
  /\ written \in [Procs -> Nat]
  /\ tries \in [Procs -> Nat]
  /\ at \in [Procs -> Nat]
  /\ due \in [Procs -> Nat \cup {Absent}]

\* A value loaded and found under a limit is still the one in hand at the
\* compare-and-swap; a debt being given back is a size.
Checked(p) ==
  /\ pc[p] = "cas" => ~overTotal(cur[p], chunk[p])
  /\ pc[p] = "clipcas" => ~overClips(cur[p])
  /\ pc[p] = "window" => ~throttled(at[p], cur[p])
  /\ pc[p] \in {"bytesback", "sweepbytes"} => due[p] # Absent

LoadsChecked == Shape /\ \A p \in Procs : Checked(p)
=============================================================================
