-------------------------------- MODULE Slot --------------------------------
(***************************************************************************)
(* One clip name of the store: the registry entry and its leased handle,   *)
(* the gate that serializes work on the name, the generations that pass    *)
(* through it, and every operation that touches them (Create, the writer's *)
(* terminals, Open with its wait loop and consume-once claim, a reader's   *)
(* Close, Stat, Delete, the retention sweep and the write-pressure sweep). *)
(*                                                                         *)
(* A closure that the code runs under the gate is one action.  What the    *)
(* code does with no lock held (the finalize I/O, the byte log's terminal, *)
(* removing a home, giving back the quota, releasing the lease) is a       *)
(* sequence of actions that interleave with everybody else's.              *)
(*                                                                         *)
(* Bytes are not modelled here (module Buffer follows a byte log, module   *)
(* Quota the byte budget), and the disk is reduced to whether a home       *)
(* exists (module Disk has its files and crashes).                         *)
(***************************************************************************)
EXTENDS Integers, FiniteSets

CONSTANTS
  Writers, Readers, Deleters, Reapers,  \* goroutines, one operation at a time
  Handles,      \* clipHandle objects
  None,         \* the nil pointer, for handles and unset options
  PutOpts,      \* write options in use: [consume, ttl, ifMatch]
  Wall,         \* wall-clock readings a Create may see (they may go backwards)
  Faults,       \* medium operations that may fail
  MaxClips,     \* Config.MaxClips; 0 is unlimited
  MaxGen,       \* bound: generations ever minted
  MaxNow,       \* bound: instants of the retention clock
  MaxSeed       \* bound: ids a failed create may still spend

Procs    == Writers \cup Readers \cup Deleters \cup Reapers
Sweepers == Writers \cup Reapers       \* a writer sweeps under pressure
Gens     == 1..MaxGen                  \* in mint order; 0 is the nil pointer
AnyMatch == MaxGen + 1                 \* IfMatch "*"; ifMatch 0 is no guard
Modes    == {"plain", "wait", "follow"}

ASSUME RolesAssumption ==
  /\ IsFiniteSet(Procs)
  /\ Writers \cap Readers = {} /\ Writers \cap Deleters = {}
  /\ Writers \cap Reapers = {} /\ Readers \cap Deleters = {}
  /\ Readers \cap Reapers = {} /\ Deleters \cap Reapers = {}

ASSUME ConstantsAssumption ==
  /\ None \notin Handles
  /\ None \notin PutOpts /\ None \notin Modes
  /\ PutOpts \subseteq [consume : BOOLEAN, ttl : Nat, ifMatch : Nat]
  /\ Wall \subseteq Nat \ {0}
  /\ Faults \subseteq {"create", "finalize", "claim", "flush", "unpublish", "open",
                "remove"}
  /\ MaxClips \in Nat /\ MaxGen \in Nat /\ MaxNow \in Nat /\ MaxSeed \in Nat

VARIABLES
  (* registry *)
  reg,       \* the handle registered for the name, or None
  leases,    \* [Handles -> Nat]
  (* clipHandle: the state the gate guards *)
  current, live,   \* generation pointers
  seed,            \* lastPrefix
  armed,           \* readers whose captured notify channel is still open
  (* generations *)
  minted,    \* how many have been minted
  state,     \* genState, with "unborn" before the mint
  consume, ttl, expires, prefix,
  match,     \* the generation an IfMatch write was admitted over, or 0
  log,       \* the byte log's terminal: "open", "closed", "aborted"
  home,      \* the medium's copy: "none", "present", "gone", or "left" by a
             \* removal that failed and was logged
  delivered, \* history: Opens handed a consume-once generation's bytes
  (* quota and clock *)
  clips,     \* quota.clips
  now,       \* the retention clock
  (* goroutines *)
  pc, hnd,   \* program point; the handle leased
  ret,       \* where a lease release returns to
  mine,      \* the generation in hand (upload, attached stream, candidate)
  owed,      \* the generation this goroutine must reclaim
  at,        \* the instant a Delete, Stat or sweep read before locking
  walk,      \* the handle pointer a sweep snapshotted, held with no lease
  put,       \* the options a Create retries with
  mode,      \* a reader's GetOpts, fixed at its first resolve
  base,      \* follow-next's baseline generation
  ctx        \* "alive", "elapsed" (WaitMax) or "canceled"

regVars  == <<reg, leases>>
slotVars == <<current, live, seed>>
bornVars == <<minted, consume, ttl, prefix, match>>   \* fixed at the mint
genVars  == <<bornVars, state, expires, log, home, delivered>>
quotaVars == <<clips, now>>
sweepVars == <<at, walk, put>>
readVars == <<mode, base, ctx>>
procVars == <<pc, hnd, ret, mine, owed, sweepVars, readVars>>
vars == <<regVars, slotVars, armed, genVars, quotaVars, procVars>>

-----------------------------------------------------------------------------
(* Types *)

WriterPC  == {"admit", "pressure", "again", "writing", "stamped",
              "flip", "finish", "discard", "fail"}
SweepPC   == {"peek", "reap", "recheck"}
ReaderPC  == {"resolve", "parked", "streaming", "clear", "stat"}
TailPC    == {"remove", "uncharge", "release"}
PCs       == {"idle", "delete"} \cup WriterPC \cup SweepPC \cup ReaderPC \cup TailPC
States    == {"unborn", "live", "finalized", "consumed"}

\* The shape of the state, with the two counters only known to be integers: that
\* neither goes below zero rests on who owns what (module SlotInv).
Shape ==
  /\ reg \in Handles \cup {None}
  /\ leases \in [Handles -> Int]
  /\ current \in [Handles -> Gens \cup {0}]
  /\ live \in [Handles -> Gens \cup {0}]
  /\ seed \in [Handles -> Nat]
  /\ armed \subseteq Readers
  /\ minted \in Gens \cup {0}
  /\ state \in [Gens -> States]
  /\ consume \in [Gens -> BOOLEAN]
  /\ ttl \in [Gens -> Nat]
  /\ expires \in [Gens -> Nat]
  /\ prefix \in [Gens -> Nat]
  /\ match \in [Gens -> Gens \cup {0}]
  /\ log \in [Gens -> {"open", "closed", "aborted"}]
  /\ home \in [Gens -> {"none", "present", "gone", "left"}]
  /\ delivered \in [Gens -> Nat]
  /\ clips \in Int
  /\ now \in 1..(MaxNow + 1)
  /\ pc \in [Procs -> PCs]
  /\ hnd \in [Procs -> Handles \cup {None}]
  /\ ret \in [Procs -> {"idle", "pressure", "again"}]
  /\ mine \in [Procs -> Gens \cup {0}]
  /\ owed \in [Procs -> Gens \cup {0}]
  /\ at \in [Procs -> 0..(MaxNow + 1)]
  /\ walk \in [Procs -> Handles \cup {None}]
  /\ put \in [Writers -> PutOpts \cup {None}]
  /\ mode \in [Readers -> Modes \cup {None}]
  /\ base \in [Readers -> Gens \cup {0}]
  /\ ctx \in [Readers -> {"alive", "elapsed", "canceled"}]

TypeOK ==
  /\ Shape
  /\ leases \in [Handles -> Nat]
  /\ clips \in Nat

Init ==
  /\ reg = None
  /\ leases = [h \in Handles |-> 0]
  /\ current = [h \in Handles |-> 0]
  /\ live = [h \in Handles |-> 0]
  /\ seed = [h \in Handles |-> 0]
  /\ armed = {}
  /\ minted = 0
  /\ state = [g \in Gens |-> "unborn"]
  /\ consume = [g \in Gens |-> FALSE]
  /\ ttl = [g \in Gens |-> 0]
  /\ expires = [g \in Gens |-> 0]
  /\ prefix = [g \in Gens |-> 0]
  /\ match = [g \in Gens |-> 0]
  /\ log = [g \in Gens |-> "open"]
  /\ home = [g \in Gens |-> "none"]
  /\ delivered = [g \in Gens |-> 0]
  /\ clips = 0
  /\ now = 1
  /\ pc = [p \in Procs |-> "idle"]
  /\ hnd = [p \in Procs |-> None]
  /\ ret = [p \in Procs |-> "idle"]
  /\ mine = [p \in Procs |-> 0]
  /\ owed = [p \in Procs |-> 0]
  /\ at = [p \in Procs |-> 0]
  /\ walk = [p \in Procs |-> None]
  /\ put = [w \in Writers |-> None]
  /\ mode = [r \in Readers |-> None]
  /\ base = [r \in Readers |-> 0]
  /\ ctx = [r \in Readers |-> "alive"]

-----------------------------------------------------------------------------
(* Generations and the resolution rule (generation.go, genid.go) *)

expired(g, t) == expires[g] # 0 /\ t > expires[g]

presentCurrent(h, t) ==
  IF current[h] # 0 /\ state[current[h]] = "finalized" /\ ~expired(current[h], t)
  THEN current[h] ELSE 0

expiredCurrent(h, t) ==
  IF current[h] # 0 /\ state[current[h]] = "finalized" /\ expired(current[h], t)
  THEN current[h] ELSE 0

followable(h) == IF live[h] # 0 /\ ~consume[live[h]] THEN live[h] ELSE 0

\* genID.after: the random tail never decides between two ids of one handle.
afterOrSame(g, b) == b = 0 \/ prefix[g] >= prefix[b]
after(g, b) == b = 0 \/ prefix[g] > prefix[b]

\* The generation a read attaches to; 0 stands for either error.
resolveRead(h, t) ==
  IF presentCurrent(h, t) # 0 THEN presentCurrent(h, t) ELSE followable(h)

\* resolveRead's ErrConsumed arm, which no waiter waits out.
errConsumed(h, t) ==
  /\ resolveRead(h, t) = 0
  /\ current[h] # 0
  /\ state[current[h]] = "consumed"

followResolve(h, b, t) ==
  IF presentCurrent(h, t) # 0 /\ after(presentCurrent(h, t), b)
  THEN presentCurrent(h, t) ELSE followable(h)

\* The id counter: the wall clock, clamped above the handle's last one.
allocateWall(h, t) == t
allocate(h, t) == IF t <= seed[h] THEN seed[h] + 1 ELSE t

-----------------------------------------------------------------------------
(* Registry and gate (registry.go, gate.go) *)

Referenced == {h \in Handles : \E p \in Procs : hnd[p] = h \/ walk[p] = h}

\* acquire: the registered handle, or a new one built and registered.
Acquire(p) ==
  \E h \in Handles :
    /\ IF reg = None THEN h \notin Referenced ELSE h = reg
    /\ reg' = h
    /\ hnd' = [hnd EXCEPT ![p] = h]
    /\ leases'  = [leases  EXCEPT ![h] = IF reg = None THEN 1 ELSE @ + 1]
    /\ current' = [current EXCEPT ![h] = IF reg = None THEN 0 ELSE @]
    /\ live'    = [live    EXCEPT ![h] = IF reg = None THEN 0 ELSE @]
    /\ seed'    = [seed    EXCEPT ![h] = IF reg = None THEN 0 ELSE @]

\* The test release makes once it has dropped its lease.
evictsAnyLease(h) == current[h] = 0 /\ live[h] = 0
evicts(h) == leases[h] = 1 /\ current[h] = 0 /\ live[h] = 0

\* wakeLocked: every waiter holding the open channel of h is released.
wakeNobody(h) == armed
wake(h) == {r \in armed : hnd[r] # h}

Release(p) ==
  /\ pc[p] = "release"
  /\ leases' = [leases EXCEPT ![hnd[p]] = @ - 1]
  /\ reg' = IF evicts(hnd[p]) THEN None ELSE reg
  /\ hnd' = [hnd EXCEPT ![p] = None]
  /\ pc' = [pc EXCEPT ![p] = ret[p]]
  /\ ret' = [ret EXCEPT ![p] = "idle"]
  /\ UNCHANGED <<slotVars, armed, genVars, quotaVars, mine, owed, sweepVars,
                 readVars>>

(* reclaim (store.go): the home goes first, then the quota slot, both with *)
(* no lock held.  A removal that fails is logged and leaves the home to a  *)
(* later boot (module Disk); the slot is given back regardless.  A         *)
(* consumed generation's cleanup then clears current.                      *)

Remove(p) ==
  /\ pc[p] = "remove"
  /\ \/ home' = [home EXCEPT ![owed[p]] = "gone"]
     \/ "remove" \in Faults /\ home' = [home EXCEPT ![owed[p]] = "left"]
  /\ pc' = [pc EXCEPT ![p] = "uncharge"]
  /\ UNCHANGED <<regVars, slotVars, armed, bornVars, state, expires, log,
                 delivered, quotaVars, hnd, ret, mine, owed, sweepVars,
                 readVars>>

ReleaseGen(p) ==
  /\ pc[p] = "uncharge"
  /\ clips' = clips - 1
  /\ owed' = [owed EXCEPT ![p] = 0]
  /\ pc' = [pc EXCEPT ![p] = IF p \in Readers THEN "clear" ELSE "release"]
  /\ UNCHANGED <<regVars, slotVars, armed, genVars, now, hnd, ret, mine,
                 sweepVars, readVars>>

-----------------------------------------------------------------------------
(* Create (store.go) *)

\* Keep the mint bound: a Create starts only if every pending one can mint.
Pending == {w \in Writers : pc[w] \in {"admit", "pressure", "peek", "reap",
                                       "recheck", "again"}
                            \/ put[w] # None}
Room == minted + Cardinality(Pending) < MaxGen

CreateAcquire(w) ==
  /\ \/ pc[w] = "idle" /\ Room /\ ret' = [ret EXCEPT ![w] = "pressure"]
     \/ pc[w] = "again" /\ ret' = [ret EXCEPT ![w] = "idle"]
  /\ Acquire(w)
  /\ pc' = [pc EXCEPT ![w] = "admit"]
  /\ UNCHANGED <<armed, genVars, quotaVars, mine, owed, sweepVars, readVars>>

preconditionHolds(h, o) ==
  \/ o.ifMatch = 0
  \/ /\ presentCurrent(h, now) # 0
     /\ o.ifMatch \in {AnyMatch, presentCurrent(h, now)}

\* ErrBusy: one write at a time per name.
busyNever(h) == FALSE
busy(h) == live[h] # 0

reserveClipOK == MaxClips = 0 \/ clips + 1 <= MaxClips

\* Options are drawn at the first admission; a retry repeats them.
optionsOf(w) == IF put[w] = None THEN PutOpts ELSE {put[w]}

\* ErrPreconditionFailed, ErrBusy, or the medium's create failed after the id
\* was minted: nothing is installed, the slot is given back.
CreateReject(w) ==
  /\ pc[w] = "admit"
  /\ \E o \in optionsOf(w) :
       \/ ~preconditionHolds(hnd[w], o) /\ UNCHANGED seed
       \/ preconditionHolds(hnd[w], o) /\ busy(hnd[w]) /\ UNCHANGED seed
       \/ /\ preconditionHolds(hnd[w], o) /\ ~busy(hnd[w]) /\ reserveClipOK
          /\ "create" \in Faults /\ seed[hnd[w]] < MaxSeed
          /\ \E t \in Wall : seed' = [seed EXCEPT ![hnd[w]] = allocate(hnd[w], t)]
  /\ pc' = [pc EXCEPT ![w] = "release"]
  /\ ret' = [ret EXCEPT ![w] = "idle"]
  /\ put' = [put EXCEPT ![w] = None]
  /\ UNCHANGED <<regVars, current, live, armed, genVars, quotaVars, hnd, mine,
                 owed, at, walk, readVars>>

\* ErrNoSpace: the lease is dropped, then (first attempt only) the pressure
\* sweep runs with no lock held.
CreateNoSpace(w) ==
  /\ pc[w] = "admit"
  /\ ~reserveClipOK
  /\ \E o \in optionsOf(w) :
       /\ preconditionHolds(hnd[w], o)
       /\ ~busy(hnd[w])
       /\ put' = [put EXCEPT ![w] = IF ret[w] = "pressure" THEN o ELSE None]
  /\ pc' = [pc EXCEPT ![w] = "release"]
  /\ UNCHANGED <<regVars, slotVars, armed, genVars, quotaVars, hnd, ret, mine,
                 owed, at, walk, readVars>>

CreateInstall(w) ==
  LET h == hnd[w]
      g == minted + 1
  IN  /\ pc[w] = "admit"
      /\ minted < MaxGen
      /\ \E o \in optionsOf(w) :
           /\ preconditionHolds(h, o)
           /\ consume' = [consume EXCEPT ![g] = o.consume]
           /\ ttl' = [ttl EXCEPT ![g] = o.ttl]
           /\ match' = [match EXCEPT ![g] =
                          IF o.ifMatch = 0 THEN 0 ELSE presentCurrent(h, now)]
      /\ ~busy(h)
      /\ reserveClipOK
      /\ clips' = clips + 1
      /\ \E t \in Wall :
           /\ seed' = [seed EXCEPT ![h] = allocate(h, t)]
           /\ prefix' = [prefix EXCEPT ![g] = allocate(h, t)]
      /\ minted' = g
      /\ state' = [state EXCEPT ![g] = "live"]
      /\ home' = [home EXCEPT ![g] = "present"]
      /\ live' = [live EXCEPT ![h] = g]
      /\ armed' = wake(h)
      /\ mine' = [mine EXCEPT ![w] = g]
      /\ pc' = [pc EXCEPT ![w] = "writing"]
      /\ ret' = [ret EXCEPT ![w] = "idle"]
      /\ put' = [put EXCEPT ![w] = None]
      /\ UNCHANGED <<regVars, current, expires, log, delivered, now, hnd,
                     owed, at, walk, readVars>>

-----------------------------------------------------------------------------
(* The writer's terminals (writer.go) *)

\* Close stamps the finalize instant and the deadline, with no lock held.
CloseStamp(w) ==
  /\ pc[w] = "writing"
  /\ expires' = [expires EXCEPT ![mine[w]] =
                   IF ttl[mine[w]] > 0 THEN now + ttl[mine[w]] ELSE @]
  /\ pc' = [pc EXCEPT ![w] = "stamped"]
  /\ UNCHANGED <<regVars, slotVars, armed, bornVars, state, log, home,
                 delivered, quotaVars, hnd, ret, mine, owed, sweepVars,
                 readVars>>

\* Sync and the medium's finalize; a failure takes the abort path.
CloseFinalizeShrugs(w) ==   \* (a failure ends the log as if it had published)
  /\ pc[w] = "stamped"
  /\ \/ pc' = [pc EXCEPT ![w] = "flip"]
     \/ "finalize" \in Faults /\ pc' = [pc EXCEPT ![w] = "finish"]
  /\ UNCHANGED <<regVars, slotVars, armed, genVars, quotaVars, hnd, ret, mine,
                 owed, sweepVars, readVars>>

CloseFinalize(w) ==
  /\ pc[w] = "stamped"
  /\ \/ pc' = [pc EXCEPT ![w] = "flip"]
     \/ "finalize" \in Faults /\ pc' = [pc EXCEPT ![w] = "discard"]
  /\ UNCHANGED <<regVars, slotVars, armed, genVars, quotaVars, hnd, ret, mine,
                 owed, sweepVars, readVars>>

\* The value a finalize supersedes; one mid-delivery is its reader's.
supersededEvenConsumed(h) == current[h]
supersededNever(h) == 0
superseded(h) ==
  IF current[h] # 0 /\ state[current[h]] # "consumed" THEN current[h] ELSE 0

CloseFlip(w) ==
  LET h == hnd[w]
  IN  /\ pc[w] = "flip"
      /\ owed' = [owed EXCEPT ![w] = superseded(h)]
      /\ state' = [state EXCEPT ![mine[w]] = "finalized"]
      /\ current' = [current EXCEPT ![h] = mine[w]]
      /\ live' = [live EXCEPT ![h] = 0]
      /\ armed' = wake(h)
      /\ pc' = [pc EXCEPT ![w] = "finish"]
      /\ UNCHANGED <<regVars, seed, bornVars, expires, log, home, delivered,
                     quotaVars, hnd, ret, mine, sweepVars, readVars>>

\* buf.Finish, then the reclaim of the superseded generation if there is one.
CloseFinish(w) ==
  /\ pc[w] = "finish"
  /\ log' = [log EXCEPT ![mine[w]] = "closed"]
  /\ mine' = [mine EXCEPT ![w] = 0]
  /\ pc' = [pc EXCEPT ![w] = IF owed[w] # 0 THEN "remove" ELSE "release"]
  /\ UNCHANGED <<regVars, slotVars, armed, bornVars, state, expires, home,
                 delivered, quotaVars, hnd, ret, owed, sweepVars, readVars>>

Abort(w) ==
  /\ pc[w] = "writing"
  /\ pc' = [pc EXCEPT ![w] = "discard"]
  /\ UNCHANGED <<regVars, slotVars, armed, genVars, quotaVars, hnd, ret, mine,
                 owed, sweepVars, readVars>>

DiscardUnmarked(w) ==   \* (the writer is not marked done: a Close may follow)
  /\ pc[w] = "discard"
  /\ live' = [live EXCEPT ![hnd[w]] = 0]
  /\ armed' = wake(hnd[w])
  /\ pc' = [pc EXCEPT ![w] = "stamped"]
  /\ UNCHANGED <<regVars, current, seed, genVars, quotaVars, hnd, ret, mine,
                 owed, sweepVars, readVars>>

Discard(w) ==
  /\ pc[w] = "discard"
  /\ live' = [live EXCEPT ![hnd[w]] = 0]
  /\ armed' = wake(hnd[w])
  /\ owed' = [owed EXCEPT ![w] = mine[w]]
  /\ pc' = [pc EXCEPT ![w] = "fail"]
  /\ UNCHANGED <<regVars, current, seed, genVars, quotaVars, hnd, ret, mine,
                 sweepVars, readVars>>

DiscardFail(w) ==
  /\ pc[w] = "fail"
  /\ log' = [log EXCEPT ![mine[w]] = "aborted"]
  /\ mine' = [mine EXCEPT ![w] = 0]
  /\ pc' = [pc EXCEPT ![w] = "remove"]
  /\ UNCHANGED <<regVars, slotVars, armed, bornVars, state, expires, home,
                 delivered, quotaVars, hnd, ret, owed, sweepVars, readVars>>

-----------------------------------------------------------------------------
(* Open, its wait loop and the reader's Close (store.go, gate.go) *)

\* An already canceled request is declined before anything is acquired.
OpenAcquire(r) ==
  /\ pc[r] = "idle"
  /\ Acquire(r)
  /\ pc' = [pc EXCEPT ![r] = "resolve"]
  /\ UNCHANGED <<armed, genVars, quotaVars, ret, mine, owed, sweepVars,
                 readVars>>

\* The mode is drawn at the first resolve, where follow-next also captures its
\* baseline: whatever current points at, readable or not.
modesOf(r) == IF mode[r] = None THEN Modes ELSE {mode[r]}
baseOf(r, m) == IF mode[r] = None /\ m = "follow" THEN current[hnd[r]] ELSE base[r]

target(r, m) ==
  IF m = "follow" THEN followResolve(hnd[r], baseOf(r, m), now)
                  ELSE resolveRead(hnd[r], now)

waitable(r, m) ==
  /\ target(r, m) = 0
  /\ \/ m = "follow"
     \/ m = "wait" /\ ~errConsumed(hnd[r], now)

\* Not here yet: capture the notify channel under the hold that resolved.
OpenPark(r) ==
  /\ pc[r] = "resolve"
  /\ \E m \in modesOf(r) :
       /\ waitable(r, m)
       /\ mode' = [mode EXCEPT ![r] = m]
       /\ base' = [base EXCEPT ![r] = baseOf(r, m)]
  /\ armed' = armed \cup {r}
  /\ pc' = [pc EXCEPT ![r] = "parked"]
  /\ UNCHANGED <<regVars, slotVars, genVars, quotaVars, hnd, ret, mine, owed,
                 sweepVars, ctx>>

\* The select returned on notify or on the context; one context check follows.
OpenWake(r) ==
  /\ pc[r] = "parked"
  /\ r \notin armed \/ ctx[r] # "alive"
  /\ armed' = armed \ {r}
  /\ IF ctx[r] # "alive"
       THEN /\ pc' = [pc EXCEPT ![r] = "release"]
            /\ mode' = [mode EXCEPT ![r] = None]
            /\ base' = [base EXCEPT ![r] = 0]
            /\ ctx' = [ctx EXCEPT ![r] = "alive"]
       ELSE /\ pc' = [pc EXCEPT ![r] = "resolve"]
            /\ UNCHANGED <<readVars>>
  /\ UNCHANGED <<regVars, slotVars, genVars, quotaVars, hnd, ret, mine, owed,
                 sweepVars>>

\* An Open that ends with an error and nothing to clean up: not found or
\* already consumed, a claim whose rename never took, a canceled context at
\* the claim, a read handle that would not open.
OpenError(r) ==
  /\ pc[r] = "resolve"
  /\ \E m \in modesOf(r) :
       \/ target(r, m) = 0 /\ ~waitable(r, m)
       \/ /\ target(r, m) # 0
          /\ IF state[target(r, m)] = "finalized" /\ consume[target(r, m)]
             THEN ctx[r] = "canceled" \/ "claim" \in Faults
             ELSE "open" \in Faults
  /\ pc' = [pc EXCEPT ![r] = "release"]
  /\ mode' = [mode EXCEPT ![r] = None]
  /\ base' = [base EXCEPT ![r] = 0]
  /\ ctx' = [ctx EXCEPT ![r] = "alive"]
  /\ UNCHANGED <<regVars, slotVars, armed, genVars, quotaVars, hnd, ret, mine,
                 owed, sweepVars>>

\* The delivery history counts consume-once Opens, and no further than two.
counted(g) == IF consume[g] /\ delivered[g] < 2 THEN delivered[g] + 1 ELSE delivered[g]

\* commitRead of a plain generation, live or finalized: open and stream it.
OpenPlain(r) ==
  /\ pc[r] = "resolve"
  /\ \E m \in modesOf(r) :
       LET g == target(r, m)
       IN  /\ g # 0
           /\ ~(state[g] = "finalized" /\ consume[g])
           /\ mine' = [mine EXCEPT ![r] = g]
           /\ delivered' = [delivered EXCEPT ![g] = counted(g)]
           /\ base' = [base EXCEPT ![r] = baseOf(r, m)]
  /\ pc' = [pc EXCEPT ![r] = "streaming"]
  /\ mode' = [mode EXCEPT ![r] = None]
  /\ ctx' = [ctx EXCEPT ![r] = "alive"]
  /\ UNCHANGED <<regVars, slotVars, armed, bornVars, state, expires, log,
                 home, quotaVars, hnd, ret, owed, sweepVars>>

\* What the claim leaves the generation in: consumed, for good.
claimedStateKept(g) == "finalized"
claimedState(g) == "consumed"

\* commitRead of a finalized consume-once generation: flip and claim it under
\* the same hold.  A durable claim opens and streams, or fails to open and is
\* destroyed; a claim that took but did not flush is forfeit, without a wake.
OpenClaim(r) ==
  /\ pc[r] = "resolve"
  /\ ctx[r] # "canceled"
  /\ \E m \in modesOf(r) :
       LET g == target(r, m)
           h == hnd[r]
       IN  /\ g # 0
           /\ state[g] = "finalized" /\ consume[g]
           /\ state' = [state EXCEPT ![g] = claimedState(g)]
           /\ owed' = [owed EXCEPT ![r] = g]
           /\ mine' = [mine EXCEPT ![r] = g]
           /\ base' = [base EXCEPT ![r] = baseOf(r, m)]
           /\ \/ /\ pc' = [pc EXCEPT ![r] = "streaming"]
                 /\ delivered' = [delivered EXCEPT ![g] = counted(g)]
                 /\ armed' = wake(h)
              \/ /\ "open" \in Faults
                 /\ pc' = [pc EXCEPT ![r] = "remove"]
                 /\ armed' = wake(h)
                 /\ UNCHANGED delivered
              \/ /\ "flush" \in Faults
                 /\ pc' = [pc EXCEPT ![r] = "remove"]
                 /\ UNCHANGED <<armed, delivered>>
  /\ mode' = [mode EXCEPT ![r] = None]
  /\ ctx' = [ctx EXCEPT ![r] = "alive"]
  /\ UNCHANGED <<regVars, slotVars, bornVars, expires, log, home, quotaVars,
                 hnd, ret, sweepVars>>

\* leasedReader.Close: drop the read handle, then run the cleanup if owed.
CloseReaderNoCleanup(r) ==
  /\ pc[r] = "streaming"
  /\ pc' = [pc EXCEPT ![r] = "release"]
  /\ owed' = [owed EXCEPT ![r] = 0]
  /\ mine' = [mine EXCEPT ![r] = 0]
  /\ base' = [base EXCEPT ![r] = 0]
  /\ UNCHANGED <<regVars, slotVars, armed, genVars, quotaVars, hnd, ret,
                 sweepVars, mode, ctx>>

CloseReader(r) ==
  /\ pc[r] = "streaming"
  /\ pc' = [pc EXCEPT ![r] = IF owed[r] # 0 THEN "remove" ELSE "release"]
  /\ mine' = [mine EXCEPT ![r] = owed[r]]
  /\ base' = [base EXCEPT ![r] = 0]
  /\ UNCHANGED <<regVars, slotVars, armed, genVars, quotaVars, hnd, ret, owed,
                 sweepVars, mode, ctx>>

\* cleanupConsumed's last step: clear current only if it is still ours.
cleared(h, g) == IF current[h] = g THEN 0 ELSE current[h]

CleanupClear(r) ==
  LET h == hnd[r]
  IN  /\ pc[r] = "clear"
      /\ current' = [current EXCEPT ![h] = cleared(h, mine[r])]
      /\ armed' = IF current[h] = mine[r] THEN wake(h) ELSE armed
      /\ mine' = [mine EXCEPT ![r] = 0]
      /\ base' = [base EXCEPT ![r] = 0]
      /\ pc' = [pc EXCEPT ![r] = "release"]
      /\ UNCHANGED <<regVars, live, seed, genVars, quotaVars, hnd, ret, owed,
                     sweepVars, mode, ctx>>

\* Stat leases, peeks and releases: it claims nothing and never waits.
StatAcquire(r) ==
  /\ pc[r] = "idle"
  /\ Acquire(r)
  /\ at' = [at EXCEPT ![r] = now]
  /\ pc' = [pc EXCEPT ![r] = "stat"]
  /\ UNCHANGED <<armed, genVars, quotaVars, ret, mine, owed, walk, put,
                 readVars>>

StatPeek(r) ==
  /\ pc[r] = "stat"
  /\ at' = [at EXCEPT ![r] = 0]
  /\ pc' = [pc EXCEPT ![r] = "release"]
  /\ UNCHANGED <<regVars, slotVars, armed, genVars, quotaVars, hnd, ret, mine,
                 owed, walk, put, readVars>>

\* The request goes away, or a bounded wait reaches WaitMax.
Cancel(r) ==
  /\ pc[r] \in {"resolve", "parked"}
  /\ ctx[r] # "canceled"
  /\ ctx' = [ctx EXCEPT ![r] = "canceled"]
  /\ UNCHANGED <<regVars, slotVars, armed, genVars, quotaVars, pc, hnd, ret,
                 mine, owed, sweepVars, mode, base>>

Elapse(r) ==
  /\ pc[r] \in {"resolve", "parked"}
  /\ mode[r] \in {"wait", "follow"}
  /\ ctx[r] = "alive"
  /\ ctx' = [ctx EXCEPT ![r] = "elapsed"]
  /\ UNCHANGED <<regVars, slotVars, armed, genVars, quotaVars, pc, hnd, ret,
                 mine, owed, sweepVars, mode, base>>

-----------------------------------------------------------------------------
(* Delete, the retention sweep and the pressure sweep (store.go, reaper.go) *)

DeleteAcquire(d) ==
  /\ pc[d] = "idle"
  /\ Acquire(d)
  /\ at' = [at EXCEPT ![d] = now]
  /\ pc' = [pc EXCEPT ![d] = "delete"]
  /\ UNCHANGED <<armed, genVars, quotaVars, ret, mine, owed, walk, put,
                 readVars>>

\* retire: unpublish under the lock; if the rename took, clear current (even
\* when its flush failed) and owe the reclaim; if not, the clip stands.
Retire(p, g) ==
  /\ at' = [at EXCEPT ![p] = 0]
  /\ \/ /\ current' = [current EXCEPT ![hnd[p]] = 0]
        /\ armed' = wake(hnd[p])
        /\ owed' = [owed EXCEPT ![p] = g]
        /\ pc' = [pc EXCEPT ![p] = "remove"]
        /\ ret' = [ret EXCEPT ![p] = IF p \in Writers THEN "again" ELSE "idle"]
        /\ UNCHANGED put
     \/ /\ "unpublish" \in Faults
        /\ pc' = [pc EXCEPT ![p] = "release"]
        /\ put' = [w \in Writers |-> IF w = p THEN None ELSE put[w]]
        /\ UNCHANGED <<current, armed, owed, ret>>

Spare(p) ==
  /\ at' = [at EXCEPT ![p] = 0]
  /\ pc' = [pc EXCEPT ![p] = "release"]
  /\ put' = [w \in Writers |-> IF w = p THEN None ELSE put[w]]
  /\ UNCHANGED <<current, armed, owed, ret>>

DeleteCommit(d) ==
  LET g == presentCurrent(hnd[d], at[d])
  IN  /\ pc[d] = "delete"
      /\ IF g # 0 THEN Retire(d, g) ELSE Spare(d)
      /\ UNCHANGED <<regVars, live, seed, genVars, quotaVars, hnd, mine, walk,
                     readVars>>

\* reapCandidates, first half: copy the handle pointer, with no lease.  The
\* background ticker starts one; so does a writer refused for space, unless
\* the throttle (module Quota) turns it away.
SweepSnapshot(p) ==
  /\ \/ p \in Reapers /\ pc[p] = "idle"
     \/ p \in Writers /\ pc[p] = "pressure"
  /\ reg # None
  /\ walk' = [walk EXCEPT ![p] = reg]
  /\ at' = [at EXCEPT ![p] = now]
  /\ pc' = [pc EXCEPT ![p] = "peek"]
  /\ UNCHANGED <<regVars, slotVars, armed, genVars, quotaVars, hnd, ret, mine,
                 owed, put, readVars>>

\* The sweep is throttled or found no handle: Create returns its ErrNoSpace.
PressureGivesUp(w) ==
  /\ pc[w] = "pressure"
  /\ pc' = [pc EXCEPT ![w] = "idle"]
  /\ put' = [put EXCEPT ![w] = None]
  /\ UNCHANGED <<regVars, slotVars, armed, genVars, quotaVars, hnd, ret, mine,
                 owed, at, walk, readVars>>

\* Second half: peek the snapshotted handle, keep only the candidate's id.
afterMissAgain(p) == IF p \in Writers THEN "pressure" ELSE "idle"
afterMiss(p) == "idle"

SweepPeek(p) ==
  LET c == expiredCurrent(walk[p], at[p])
  IN  /\ pc[p] = "peek"
      /\ walk' = [walk EXCEPT ![p] = None]
      /\ mine' = [mine EXCEPT ![p] = c]
      /\ pc' = [pc EXCEPT ![p] = IF c # 0 THEN "reap" ELSE afterMiss(p)]
      /\ at' = IF c # 0 THEN at ELSE [at EXCEPT ![p] = 0]
      /\ put' = [w \in Writers |-> IF w = p /\ c = 0 THEN None ELSE put[w]]
      /\ UNCHANGED <<regVars, slotVars, armed, genVars, quotaVars, hnd, ret,
                     owed, readVars>>

ReapAcquire(p) ==
  /\ pc[p] = "reap"
  /\ Acquire(p)
  /\ pc' = [pc EXCEPT ![p] = "recheck"]
  /\ UNCHANGED <<armed, genVars, quotaVars, ret, mine, owed, sweepVars,
                 readVars>>

\* reapRemove's recheck: the same generation, still finalized, still expired.
reapableAnything(h, t, c) == current[h]
reapableNothing(h, t, c) == 0
reapable(h, t, c) == IF expiredCurrent(h, t) = c THEN c ELSE 0

ReapRecheck(p) ==
  LET g == reapable(hnd[p], at[p], mine[p])
  IN  /\ pc[p] = "recheck"
      /\ mine' = [mine EXCEPT ![p] = 0]
      /\ IF g # 0 THEN Retire(p, g) ELSE Spare(p)
      /\ UNCHANGED <<regVars, live, seed, genVars, quotaVars, hnd, walk,
                     readVars>>

Tick ==
  /\ now <= MaxNow
  /\ now' = now + 1
  /\ UNCHANGED <<regVars, slotVars, armed, genVars, clips, procVars>>

-----------------------------------------------------------------------------
Tail(p) == Remove(p) \/ ReleaseGen(p) \/ Release(p)

WriterStep(w) ==
  \/ CreateAcquire(w) \/ CreateReject(w) \/ CreateNoSpace(w) \/ CreateInstall(w)
  \/ PressureGivesUp(w)
  \/ CloseStamp(w) \/ CloseFinalize(w) \/ CloseFlip(w) \/ CloseFinish(w)
  \/ Abort(w) \/ Discard(w) \/ DiscardFail(w)

ReaderStep(r) ==
  \/ OpenAcquire(r) \/ OpenPark(r) \/ OpenWake(r) \/ OpenError(r)
  \/ OpenPlain(r) \/ OpenClaim(r) \/ CloseReader(r) \/ CleanupClear(r)
  \/ StatAcquire(r) \/ StatPeek(r) \/ Cancel(r) \/ Elapse(r)

SweepStep(p) == SweepSnapshot(p) \/ SweepPeek(p) \/ ReapAcquire(p) \/ ReapRecheck(p)

Next ==
  \/ \E w \in Writers : WriterStep(w)
  \/ \E r \in Readers : ReaderStep(r)
  \/ \E d \in Deleters : DeleteAcquire(d) \/ DeleteCommit(d)
  \/ \E p \in Sweepers : SweepStep(p)
  \/ \E p \in Procs : Tail(p)
  \/ Tick

Spec == Init /\ [][Next]_vars

(***************************************************************************)
(* Fairness.  A goroutine inside an operation keeps running, the put       *)
(* handler always reaches a terminal (its deferred Abort, and the idle     *)
(* deadline under it), and a handler closes its reader once the stream has *)
(* ended.  No operation is ever promised to start, no wait to be canceled, *)
(* and the clock need not advance; the reaper's ticker does fire.          *)
(***************************************************************************)
Ends(w) == CloseStamp(w) \/ Abort(w)
EndsStream(r) == CloseReader(r) /\ log[mine[r]] # "open"
Working(w) == \/ CreateReject(w) \/ CreateNoSpace(w) \/ CreateInstall(w)
              \/ PressureGivesUp(w) \/ CloseFinalize(w) \/ CloseFlip(w)
              \/ CloseFinish(w) \/ Discard(w) \/ DiscardFail(w)
              \/ pc[w] = "again" /\ CreateAcquire(w)
Opening(r) == \/ OpenPark(r) \/ OpenWake(r) \/ OpenError(r) \/ OpenPlain(r)
              \/ OpenClaim(r) \/ CleanupClear(r) \/ StatPeek(r)

Fairness ==
  /\ \A w \in Writers : WF_vars(Working(w)) /\ WF_vars(Ends(w))
  /\ \A r \in Readers : WF_vars(Opening(r)) /\ WF_vars(EndsStream(r))
  /\ \A d \in Deleters : WF_vars(DeleteCommit(d))
  /\ \A p \in Sweepers : WF_vars(SweepStep(p))
  /\ \A p \in Procs : WF_vars(Tail(p))

FairSpec == Spec /\ Fairness

-----------------------------------------------------------------------------
(* Safety *)

holders(h) == {p \in Procs : hnd[p] = h}

\* One handle serves the name: whoever holds a lease holds the registered
\* handle, the lease count is exactly the number of holders, and no generation
\* sits in a handle that a lookup would no longer find (registry.release
\* racing registry.acquire).
OneHandle ==
  /\ \A h \in Handles : leases[h] = Cardinality(holders(h))
  /\ \A h \in Handles : h # reg => holders(h) = {} /\ current[h] = 0 /\ live[h] = 0

\* What a read can resolve to still has its home: a supersede, a removal or a
\* consumed clip's cleanup never takes the bytes from under the gate
\* (Open's "pinned before any concurrent supersede can reclaim the home").
ReadableHasHome ==
  \A h \in Handles :
    /\ live[h] # 0 => home[live[h]] = "present"
    /\ current[h] # 0 /\ state[current[h]] = "finalized" => home[current[h]] = "present"

\* A generation's footprint is held while it is reachable, or while exactly one
\* goroutine owes its reclaim.
reachable(g) == \E h \in Handles :
                  live[h] = g \/ (current[h] = g /\ state[g] = "finalized")
held == {g \in Gens : reachable(g) \/ \E p \in Procs : owed[p] = g}

\* The quota's count is exactly the generations still held: every path out
\* (supersede, abort, Delete, reap, consumed cleanup) gives back the one slot
\* Create reserved, once (quota.releaseGen, called only from reclaim).
FootprintExact == clips = Cardinality(held)

\* A consume-once generation is handed to at most one Open, whatever races the
\* claim and however the medium fails it (commitRead).
AtMostOnce == \A g \in Gens : consume[g] => delivered[g] <= 1

\* No lost wakeup: a reader parked on the gate's open channel has nothing to
\* read.  For follow-next "newer than the baseline" is judged by mint order,
\* where the code compares ids (await, followResolve).
NoLostWakeup ==
  \A r \in armed :
    LET h == hnd[r]
    IN  /\ followable(h) = 0
        /\ IF mode[r] = "follow" THEN presentCurrent(h, now) <= base[r]
                                 ELSE resolveRead(h, now) = 0 /\ ~errConsumed(h, now)

\* A follow-next reader streams a generation minted after the value that was
\* current when it arrived, even though ids are compared by a clock-seeded
\* counter (followResolve, allocate).
FollowsNewer ==
  \A r \in Readers : pc[r] = "streaming" => mine[r] > base[r]

\* A follower that reads a clean EOF read a published value, and a torn log was
\* never published (Close's Finish after the flip, discard's Fail).
EOFMeansPublished ==
  \A g \in Gens : /\ log[g] = "closed" => state[g] \in {"finalized", "consumed"}
                  /\ log[g] = "aborted" => state[g] = "live"

\* A conditional write in flight can only replace the value it was admitted
\* over, or nothing: no other value slips in under it (createOnce's IfMatch).
NoLostUpdate ==
  \A w \in Writers :
    pc[w] \in {"writing", "stamped", "flip"} /\ match[mine[w]] # 0 =>
      current[hnd[w]] \in {0, match[mine[w]]}

\* Once every operation has returned, a home that the store cannot reach has
\* had its removal: it is gone, or "left", logged as undeletable (reclaim,
\* diskMedium.remove).  What can be reached was never removed, and the quota is
\* charged for that and nothing else, whatever removals failed.
QuiescentClean ==
  (\A p \in Procs : pc[p] = "idle") =>
    /\ \A g \in Gens : home[g] = "present" <=> reachable(g)
    /\ clips = Cardinality({g \in Gens : home[g] = "present"})

\* A readable value stops being readable only because time passed, a newer
\* value replaced it, its one reader claimed it, or a Delete retired it: a
\* sweep acting on a stale candidate never takes a fresh value.
ValueLeavesOnlyBy ==
  [][\A h \in Handles :
       LET g == presentCurrent(h, now)
       IN  g # 0 /\ presentCurrent(h, now)' # g =>
             \/ now' # now
             \/ current'[h] > g
             \/ consume[g] /\ state'[g] = "consumed"
             \/ \E d \in Deleters : pc[d] = "delete" /\ owed'[d] = g]_vars

\* A value that was superseded, deleted, reaped, claimed or aborted is never
\* readable again: no late terminal, stale cleanup or evicted handle brings an
\* old generation back under the gate.
NeverReturns ==
  [][\A g \in 1..minted : reachable(g)' => reachable(g)]_vars

(* Refinement: the slot is a ClipRegister.  An expired value stays settled *)
(* until something retires it, as in the code.                             *)

settled == IF reg # None /\ current[reg] # 0 /\ state[current[reg]] = "finalized"
           THEN current[reg] ELSE 0

Register == INSTANCE ClipRegister WITH
  value   <- settled,
  writing <- IF reg = None THEN 0 ELSE live[reg],
  taken   <- {g \in Gens : state[g] = "consumed"},
  last    <- minted

\* Handles, leases, eviction and the off-lock tails are invisible: every step
\* of the slot is one step of the register or none.  An upload is published or
\* discarded by its own writer, never lost with an evicted handle.
RegisterSpec == Register!Spec

(* A claim of the code's comments that the model refutes *)

\* createOnce: "the value cannot move between the check and the replace".  The
\* hold ends at the install; the replace happens at Close.
ConditionalReplacesMatch ==
  [][\A h \in Handles :
       LET g == current'[h]
       IN  g # 0 /\ g # current[h] /\ match[g] # 0 => current[h] = match[g]]_vars

(* Liveness, under Fairness *)

\* A waiter does not stay parked next to something it could read.
WaiterServed ==
  \A r \in Readers :
    pc[r] = "parked" /\ target(r, mode[r]) # 0 ~> pc[r] # "parked"

\* A claimed consume-once generation is eventually destroyed, on a medium whose
\* removals work: its home is gone and the name no longer points at it.
ConsumedDestroyed ==
  \A g \in Gens : state[g] = "consumed" ~>
    home[g] = "gone" /\ \A h \in Handles : current[h] # g

\* An expired value does not keep its home forever, on a medium whose removals
\* work: the sweep, a supersede or a reader that claimed it in time removes it.
ExpiredReclaimed ==
  \A g \in Gens :
    state[g] = "finalized" /\ expired(g, now) ~> home[g] = "gone"

\* Every operation returns unless it waits for a value: no writer, deleter or
\* sweep is stuck behind the others.
OperationsReturn ==
  \A p \in Procs \ Readers : pc[p] # "idle" ~> pc[p] = "idle"
=============================================================================
