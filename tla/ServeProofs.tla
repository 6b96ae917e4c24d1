----------------------------- MODULE ServeProofs ----------------------------
(***************************************************************************)
(* The locks of store/registry.go and store/gate.go, for any number of     *)
(* request goroutines: no wait for a lock closes a cycle.                  *)
(***************************************************************************)
EXTENDS Main, TLAPS

\* The points between a Lock and its Unlock, for registry.mu and for the gate.
UnderRegistry == {"acquiring", "releasing", "peeking", "copying"}
UnderGate     == {"inside", "peeking", "looking"}

\* The inductive invariant: a lock's owner is the one worker inside it.
LockInv ==
  /\ DOMAIN job = Workers
  /\ \A w \in Workers : (registryMu = w) <=> (job[w] \in UnderRegistry)
  /\ \A w \in Workers : (gateMu = w) <=> (job[w] \in UnderGate)

\* w is at a Lock that v holds; a release may want the gate below registry.mu.
Blocked(w, v) ==
  \/ job[w] \in {"acquire", "release", "snapshot"} /\ registryMu = v
  \/ job[w] \in {"enter", "peek", "releasing"} /\ gateMu = v

\* A lock holder that is itself blocked waits for somebody who is not: chains
\* of waits have length two at most, so no cycle of any length exists.
NoCircularWait ==
  \A w, v, u, x \in Workers : Blocked(w, v) /\ Blocked(v, u) => ~Blocked(u, x)

-----------------------------------------------------------------------------

\* The order of registry.go and gate.go makes every chain of waits short.
LEMMA OrderedLocks == LockInv => NoCircularWait
BY DEF LockInv, NoCircularWait, Blocked, UnderRegistry, UnderGate

\* The process starts with both locks free and nobody inside.
LEMMA LocksStartFree == Init => LockInv
BY ServeAssumption
DEF Init, ServeInit, LockInv, UnderRegistry, UnderGate, Workers

\* Each step of a worker through acquire, a closure, release or a walk keeps
\* the owner of each lock the one worker between its Lock and its Unlock.
LEMMA WorkKeepsLocks ==
  ASSUME NEW w \in Workers, Work(w), LockInv
  PROVE  LockInv'
<1> USE ServeAssumption DEF LockInv, UnderRegistry, UnderGate, Move, rest
<1>1. CASE Acquire(w)
  BY <1>1 DEF Acquire, LockRegistry
<1>2. CASE Acquired(w)
  BY <1>2 DEF Acquired
<1>3. CASE Enter(w)
  BY <1>3 DEF Enter, LockGate
<1>4. CASE Leave(w)
  BY <1>4 DEF Leave
<1>5. CASE Release(w)
  BY <1>5 DEF Release, LockRegistry
<1>6. CASE Released(w)
  <2>1. CASE leases = 1
    BY <1>6, <2>1 DEF Released
  <2>2. CASE leases # 1
    BY <1>6, <2>2 DEF Released
  <2> QED BY <2>1, <2>2
<1>7. CASE Evicted(w)
  BY <1>7 DEF Evicted
<1>8. CASE Snapshot(w)
  BY <1>8 DEF Snapshot, LockRegistry
<1>9. CASE Copied(w)
  BY <1>9 DEF Copied
<1>10. CASE Peek(w)
  BY <1>10 DEF Peek, LockGate
<1>11. CASE Looked(w)
  BY <1>11 DEF Looked
<1> QED
  BY <1>1, <1>2, <1>3, <1>4, <1>5, <1>6, <1>7, <1>8, <1>9, <1>10, <1>11 DEF Work

\* The steps of the server outside its locks: the group, a request's arrival
\* and the end of its transfer, the reaper's tick and its return.
LEMMA ServeKeepsLocks ==
  ASSUME ServeNext, LockInv
  PROVE  LockInv'
<1>0. "reaper" \in Workers /\ Handlers \subseteq Workers
  BY DEF Workers
<1>1. CASE Runtime \/ ServeFaults
  BY <1>1 DEF Runtime, Boot, Bridge, ServeReturns, Shutdown, Drained, RunReturns,
              ServeFaults, serverVars, LockInv
<1>2. CASE Tick \/ ReaperReturns
  BY <1>0, <1>2 DEF Tick, ReaperReturns, Move, LockInv, UnderRegistry, UnderGate
<1>3. CASE Work("reaper")
  BY <1>0, <1>3, WorkKeepsLocks
<1>4. ASSUME NEW h \in Handlers, Work(h)
      PROVE  LockInv'
  BY <1>0, <1>4, WorkKeepsLocks
<1>5. ASSUME NEW h \in Handlers, Accept(h) \/ EndFollow(h) \/ EndTransfer(h)
      PROVE  LockInv'
  BY <1>0, <1>5 DEF Accept, EndFollow, EndTransfer, Move, LockInv, UnderRegistry,
                    UnderGate
<1> QED
  BY <1>1, <1>2, <1>3, <1>4, <1>5 DEF ServeNext

\* The locks of the store have an order, registry.mu above a name's gate: with
\* any number of requests in flight, beside the reaper's sweeps, the stop and
\* the drain, no goroutine waits for one that waits for it.
THEOREM LocksAreOrdered == Spec => []NoCircularWait
<1>1. LockInv /\ [Next]_vars => LockInv'
  <2> SUFFICES ASSUME LockInv, [Next]_vars PROVE LockInv'
    OBVIOUS
  <2>1. CASE ServeNext
    BY <2>1, ServeKeepsLocks
  <2>2. CASE UNCHANGED serverVars
    BY <2>2 DEF serverVars, LockInv
  <2> QED
    BY <2>1, <2>2 DEF Next, vars, serverVars
<1> QED
  BY <1>1, LocksStartFree, OrderedLocks, PTL DEF Spec
=============================================================================
